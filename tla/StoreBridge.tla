----------------------------- MODULE StoreBridge -----------------------------
(***************************************************************************)
(* The Store Bridge's payment path: the payment loop and the command        *)
(* journal of bridge/jumping_bridge.py, the SQLite transaction store and    *)
(* its device lock (bridge/mpos_lan), the MPOS card terminal behind them,   *)
(* and the delivery of ACKs.                                                *)
(*                                                                          *)
(* The cloud is open here: a command may be delivered again at any time,    *)
(* and an ACK may be answered in any way.  PaymentSystem closes the model.  *)
(* The payment loop runs one command after another, so one task is enough.  *)
(***************************************************************************)
EXTENDS Integers

CONSTANTS
    Commands,        \* payment commands; the command names its transactionUuid
    Refusals,        \* results of a transaction that was not made
    MaxCrashes,      \* bound on the restarts of the bridge
    JournalLoss,     \* whether a restart may find bridge-state.json unreadable
    LateDisconnect   \* whether the vendor module may raise OSError after the card was charged

Free == 0            \* no command, or a device lock nobody holds
StatusCheck == -1    \* the device lock is held by a status check

(* USER_CANCELLED is an ERROR whose error_code says so; the cloud shows it as a
   status of its own. *)
Definite == {"DECLINED", "USER_CANCELLED", "ERROR", "BUSY"}

BridgeResults == Definite \cup {"APPROVED", "CANCELLED", "UNKNOWN", "PENDING", "EXCEPTION"}

Orders == [type : {"NONE", "PAY", "CANCEL"}, orig : Commands \cup {Free}]

ASSUME BridgeConstants ==
    /\ Commands \subseteq Nat \ {0}
    /\ Refusals \subseteq Definite \cup {"UNKNOWN"}
    /\ MaxCrashes \in Nat
    /\ JournalLoss \in BOOLEAN
    /\ LateDisconnect \in BOOLEAN

VARIABLES
    order,    \* payload of a command, once delivered
    journal,  \* processedCommands[c].status in bridge-state.json
    result,   \* processedCommands[c].result
    outbox,   \* processedCommands[c].ackPending and ackResolution
    tx,       \* transactions.status in the SQLite store
    lock,     \* device_lock: the command that holds the terminal
    task,     \* what the payment loop is doing; lost in a crash
    wire,     \* the ACK request that is waiting for its answer
    card,     \* what the card issuer has done for a transaction
    runs,     \* how often the vendor module has executed a transaction
    crashes

bridgeVars == <<order, journal, result, outbox, tx, lock, task, wire, card, runs, crashes>>

durable == <<order, card, runs, crashes>>

NoTask == [cmd |-> Free, step |-> "idle", outcome |-> "PENDING"]

NoWire == [cmd |-> Free, flush |-> FALSE]

Steps == {"idle", "received", "lookup", "lock", "begin", "dispatch", "record",
          "unlock", "journal", "ack"}

BridgeInit ==
    /\ order = [c \in Commands |-> [type |-> "NONE", orig |-> Free]]
    /\ journal = [c \in Commands |-> "none"]
    /\ result = [c \in Commands |-> "PENDING"]
    /\ outbox = [c \in Commands |-> "none"]
    /\ tx = [c \in Commands |-> "none"]
    /\ lock = Free
    /\ task = NoTask
    /\ wire = NoWire
    /\ card = [c \in Commands |-> "untouched"]
    /\ runs = [c \in Commands |-> 0]
    /\ crashes = 0

At(step) == task.step = step

Go(step) == task' = [task EXCEPT !.step = step]

Finish(outcome) == task' = [task EXCEPT !.step = "journal", !.outcome = outcome]

----------------------------------------------------------------------------
(* _payment_loop: the answer of payment-commands hands over a command. *)
Deliver(c, payload) ==
    /\ At("idle")
    /\ task' = [NoTask EXCEPT !.cmd = c, !.step = "received"]
    /\ order' = [order EXCEPT ![c] = payload]
    /\ UNCHANGED <<journal, result, outbox, tx, lock, wire, card, runs, crashes>>

(* A command the journal knows is answered from the journal.  One that was
   being executed when the bridge stopped is reported as failed: whether the
   card was charged is not known. *)
Recognize ==
    LET c == task.cmd
    IN  /\ At("received")
        /\ \/ /\ journal[c] = "none"
              /\ journal' = [journal EXCEPT ![c] = "executing"]
              /\ Go("lookup")
              /\ UNCHANGED <<result, outbox>>
           \/ /\ journal[c] = "executing"
              /\ journal' = [journal EXCEPT ![c] = "failed"]
              /\ result' = [result EXCEPT ![c] = "EXCEPTION"]
              /\ outbox' = [outbox EXCEPT ![c] = "pending"]
              /\ Go("ack")
           \/ /\ journal[c] \in {"completed", "failed"}
              /\ Go("ack")
              /\ UNCHANGED <<journal, result, outbox>>
        /\ UNCHANGED <<tx, lock, wire, durable>>

(* Mutant of Guards: only a refund that is known to have succeeded counts. *)
GuardsIfCancelled(d, c) ==
    /\ order[c].type = "CANCEL" /\ tx[order[c].orig] = "APPROVED"
    /\ order[d].type = "CANCEL" /\ order[d].orig = order[c].orig
    /\ tx[d] = "CANCELLED"

(* find_guarded_cancel: an earlier refund of the same approval that succeeded
   or may have.  The approval is looked up by its APPROVED row. *)
Guards(d, c) ==
    /\ order[c].type = "CANCEL" /\ tx[order[c].orig] = "APPROVED"
    /\ order[d].type = "CANCEL" /\ order[d].orig = order[c].orig
    /\ tx[d] \in {"CANCELLED", "PENDING", "UNKNOWN"}

(* MposClient.pay and cancel: a transaction the store knows is replayed, and a
   second refund returns the first. *)
Lookup ==
    LET c == task.cmd
    IN  /\ At("lookup")
        /\ \/ tx[c] # "none" /\ Finish(tx[c])
           \/ tx[c] = "none" /\ \E d \in Commands : Guards(d, c) /\ Finish(tx[d])
           \/ tx[c] = "none" /\ ~(\E d \in Commands : Guards(d, c)) /\ Go("lock")
        /\ UNCHANGED <<journal, result, outbox, tx, lock, wire, durable>>

AcquireLock ==
    /\ At("lock")
    /\ \/ lock = Free /\ lock' = task.cmd /\ Go("begin")
       \/ lock # Free /\ Finish("BUSY") /\ UNCHANGED lock
    /\ UNCHANGED <<journal, result, outbox, tx, wire, durable>>

Begin ==
    /\ At("begin")
    /\ tx' = [tx EXCEPT ![task.cmd] = "PENDING"]
    /\ Go("dispatch")
    /\ UNCHANGED <<journal, result, outbox, lock, wire, durable>>

(* The vendor module runs the transaction.  The issuer makes it, or it ends
   anywhere before that. *)
Dispatch ==
    /\ At("dispatch")
    /\ runs' = [runs EXCEPT ![task.cmd] = @ + 1]
    /\ \E made \in {"made", "refused"} : card' = [card EXCEPT ![task.cmd] = made]
    /\ Go("record")
    /\ UNCHANGED <<order, journal, result, outbox, tx, lock, wire, crashes>>

(* Mutant of Reports: a lost connection is an error whatever was done. *)
ReportsErrors(c) ==
    IF card[c] = "made"
    THEN {IF order[c].type = "PAY" THEN "APPROVED" ELSE "CANCELLED", "ERROR"}
    ELSE Refusals

(* The results _run_transaction can give for what has happened.  A TimeoutError
   or an unexpected exception is UNKNOWN; an OSError is ERROR. *)
Reports(c) ==
    IF card[c] = "made"
    THEN {IF order[c].type = "PAY" THEN "APPROVED" ELSE "CANCELLED", "UNKNOWN"}
            \cup (IF LateDisconnect THEN {"ERROR"} ELSE {})
    ELSE Refusals

(* The outcome is saved, or the store raises and the command fails. *)
Record ==
    LET c == task.cmd
    IN  /\ At("record")
        /\ \/ \E status \in Reports(c) :
                 /\ tx' = [tx EXCEPT ![c] = status]
                 /\ task' = [task EXCEPT !.step = "unlock", !.outcome = status]
           \/ /\ task' = [task EXCEPT !.step = "unlock", !.outcome = "EXCEPTION"]
              /\ UNCHANGED tx
        /\ UNCHANGED <<journal, result, outbox, lock, wire, durable>>

Unlock ==
    /\ At("unlock")
    /\ lock' = Free
    /\ Go("journal")
    /\ UNCHANGED <<journal, result, outbox, tx, wire, durable>>

(* mark_command: the result and the pending ACK are saved together. *)
Journal ==
    LET c == task.cmd
    IN  /\ At("journal")
        /\ journal' = [journal EXCEPT ![c] =
                          IF task.outcome = "EXCEPTION" THEN "failed" ELSE "completed"]
        /\ result' = [result EXCEPT ![c] = task.outcome]
        /\ outbox' = [outbox EXCEPT ![c] = "pending"]
        /\ Go("ack")
        /\ UNCHANGED <<tx, lock, wire, durable>>

(* The status check takes the same device lock. *)
CheckBegin ==
    /\ lock = Free
    /\ lock' = StatusCheck
    /\ UNCHANGED <<journal, result, outbox, tx, task, wire, durable>>

CheckEnd ==
    /\ lock = StatusCheck
    /\ lock' = Free
    /\ UNCHANGED <<journal, result, outbox, tx, task, wire, durable>>

----------------------------------------------------------------------------
(* _ack_durable_command.  The payment loop sends the ACK of the command it has
   just run or recognized; the flush of the outbox sends those still pending. *)

SendAck ==
    /\ wire = NoWire
    /\ \/ At("ack") /\ wire' = [cmd |-> task.cmd, flush |-> FALSE]
       \/ \E c \in Commands : outbox[c] = "pending" /\ wire' = [cmd |-> c, flush |-> TRUE]
    /\ UNCHANGED <<journal, result, outbox, tx, lock, task, durable>>

(* A 200 or an ACK_STATE_CONFLICT resolves the ACK; any other answer, or none,
   leaves it to be sent again. *)
AckAnswered(resolution) ==
    /\ wire # NoWire
    /\ outbox' = [outbox EXCEPT ![wire.cmd] = resolution]
    /\ task' = IF wire.flush THEN task ELSE NoTask
    /\ wire' = NoWire
    /\ UNCHANGED <<journal, result, tx, lock, durable>>

(* The process stops at any point and starts again on what it has saved.  The
   device lock is a row of the store: nothing removes it on a restart. *)
Crash ==
    /\ crashes < MaxCrashes
    /\ crashes' = crashes + 1
    /\ task' = NoTask
    /\ wire' = NoWire
    /\ \/ UNCHANGED <<journal, result, outbox>>
       \/ /\ JournalLoss
          /\ journal' = [c \in Commands |-> "none"]
          /\ result' = [c \in Commands |-> "PENDING"]
          /\ outbox' = [c \in Commands |-> "none"]
    /\ UNCHANGED <<order, tx, lock, card, runs>>

----------------------------------------------------------------------------

(* The steps the bridge takes by itself *)
Work ==
    \/ Recognize \/ Lookup \/ AcquireLock \/ Begin \/ Dispatch \/ Record \/ Unlock
    \/ Journal \/ SendAck

(* The payloads a cloud sends: a charge, or the refund of a charge that was
   approved.  A command that is delivered again has the same payload; commands
   are numbered by their first delivery. *)
Payloads(c) ==
    IF order[c].type # "NONE" THEN {order[c]}
    ELSE IF \E d \in Commands : d < c /\ order[d].type = "NONE" THEN {}
    ELSE [type : {"PAY"}, orig : {Free}] \cup
         [type : {"CANCEL"}, orig : {d \in Commands : order[d].type = "PAY" /\ tx[d] = "APPROVED"}]

BridgeNext ==
    \/ \E c \in Commands : \E payload \in Payloads(c) : Deliver(c, payload)
    \/ \E resolution \in {"resolved", "pending"} : AckAnswered(resolution)
    \/ Work \/ CheckBegin \/ CheckEnd
    \/ Crash

BridgeSpec == BridgeInit /\ [][BridgeNext]_bridgeVars

----------------------------------------------------------------------------

BridgeTypeOK ==
    /\ order \in [Commands -> Orders]
    /\ journal \in [Commands -> {"none", "executing", "completed", "failed"}]
    /\ result \in [Commands -> BridgeResults]
    /\ outbox \in [Commands -> {"none", "pending", "resolved"}]
    /\ tx \in [Commands -> {"none"} \cup (BridgeResults \ {"EXCEPTION"})]
    /\ lock \in Commands \cup {Free, StatusCheck}
    /\ task \in [cmd : Commands \cup {Free}, step : Steps, outcome : BridgeResults]
    /\ wire \in [cmd : Commands \cup {Free}, flush : BOOLEAN]
    /\ card \in [Commands -> {"untouched", "made", "refused"}]
    /\ runs \in [Commands -> Nat]
    /\ crashes \in 0..MaxCrashes

(* The card is presented to the vendor module at most once for a transaction,
   however often its command is delivered, wherever the bridge stops, and even
   when it has lost the journal.  bridge/README.md:26 *)
RunsAtMostOnce == \A c \in Commands : runs[c] <= 1

(* A charge or refund that was made is never reported as a definite failure,
   which the screens would retry.  docs/ARCHITECTURE.md:95 *)
MadeNeverDenied ==
    \A c \in Commands : card[c] = "made" => tx[c] \notin Definite /\ result[c] \notin Definite

(* An approval is refunded at most once, also when the cloud asks twice. *)
RefundedOnce ==
    \A c, d \in Commands :
        /\ order[c].type = "CANCEL" /\ order[d].type = "CANCEL"
        /\ order[c].orig = order[d].orig
        /\ card[c] = "made" /\ card[d] = "made"
        => c = d

(* The terminal takes the money of a transaction once and gives it back once,
   however often the bridge is told and wherever it stops. *)
MovedOnce == RunsAtMostOnce /\ RefundedOnce

=============================================================================
