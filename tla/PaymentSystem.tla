---------------------------- MODULE PaymentSystem ----------------------------
(***************************************************************************)
(* The cloud (CloudPayments) and the Store Bridge (StoreBridge) joined by   *)
(* the claim of a command, its redelivery and the bridge's ACK.             *)
(*                                                                          *)
(* A claim may be lost on its way to the bridge, an ACK or its answer may   *)
(* be lost on its way back, the bridge may stop at any point, a command may *)
(* expire, and a request may die between two statements.                    *)
(***************************************************************************)
EXTENDS CloudPayments

CONSTANTS
    Refusals,         \* what the terminal reports of a transaction it has not made
    MaxCrashes,       \* bound on the restarts of the bridge
    LateDisconnect,   \* whether OSError may follow a charge
    NoWorker,         \* no server request handles the ACK yet
    Checks,           \* whether status checks of the terminal interleave
    Expiry,           \* whether a command may get older than two minutes
    Prompt            \* a command is run and acknowledged within 30 s of its claim

VARIABLES order, journal, result, outbox, tx, lock, task, wire, card, runs, crashes,
          server    \* the server request that handles the ACK on the wire

Bridge == INSTANCE StoreBridge WITH Commands <- Ids, JournalLoss <- FALSE

cloud == vars

bridge == <<order, journal, result, outbox, tx, lock, task, wire, card, runs, crashes>>

systemVars == <<cloud, bridge, server>>

ASSUME SystemConstants ==
    /\ NoWorker \notin AckWorkers
    /\ ApiWorkers \cap AckWorkers = {}
    /\ Refusals \subseteq Bridge!Definite \cup {"UNKNOWN"}
    /\ MaxCrashes \in Nat
    /\ LateDisconnect \in BOOLEAN
    /\ Checks \in BOOLEAN
    /\ Expiry \in BOOLEAN
    /\ Prompt \in BOOLEAN

SystemInit == Init /\ Bridge!BridgeInit /\ server = NoWorker

----------------------------------------------------------------------------
(* Requests of the screens *)

(* The operator settles an unknown payment only with the approval number found
   at the terminal. *)
Request(w) ==
    /\ ApiRequest(w)
    /\ req'[w].op = "reconcile" => card[req'[w].target] = "made"
    /\ UNCHANGED <<bridge, server>>

Serve(w) ==
    /\ RequestStep(w) \/ (w \in ApiWorkers /\ Abort(w))
    /\ UNCHANGED <<bridge, server>>

----------------------------------------------------------------------------
(* The command queue *)

Payload(c) == [type |-> attempt[c].type, orig |-> attempt[c].orig]

(* POST /api/agent/payment-commands: the claimed command reaches the bridge,
   or the answer is lost and the command stays claimed. *)
Poll(c) ==
    /\ Claim(c)
    /\ Bridge!Deliver(c, Payload(c))
    /\ UNCHANGED server

PollLost(c) ==
    /\ Claim(c)
    /\ task.step = "idle"
    /\ UNCHANGED <<bridge, server>>

GiveBack(c) ==
    /\ Requeue(c)
    /\ Prompt => task.cmd # c /\ outbox[c] # "pending"
    /\ UNCHANGED <<bridge, server>>

Lapse(c) ==
    /\ Expiry
    /\ Expire(c)
    /\ UNCHANGED <<bridge, server>>

----------------------------------------------------------------------------
(* The bridge and its ACK *)

BridgeWork ==
    /\ Bridge!Work \/ (Checks /\ Bridge!CheckBegin) \/ Bridge!CheckEnd
    /\ UNCHANGED <<cloud, server>>

BridgeCrash ==
    /\ Bridge!Crash
    /\ server' = NoWorker
    /\ UNCHANGED cloud

(* POST /api/agent/ack: the first ACK of a claimed command ends it and goes on
   to apply the result. *)
AckFirst(w) ==
    /\ wire.cmd \in Ids /\ server = NoWorker
    /\ AckFinalize(w, wire.cmd, result[wire.cmd])
    /\ server' = w
    /\ UNCHANGED bridge

(* Any other ACK is answered at once: as a duplicate when the command ended the
   same way (200), as a conflict otherwise (409). *)
AckAgain ==
    /\ wire.cmd \in Ids /\ server = NoWorker
    /\ command[wire.cmd] # "claimed"
    /\ Bridge!AckAnswered("resolved")
    /\ UNCHANGED <<cloud, server>>

(* The handler ends, with 200 or with 500.  The bridge may have given up on its
   answer already. *)
AckEnd(w, resolution) ==
    /\ \/ resolution = "resolved" /\ Respond(w)
       \/ resolution = "pending" /\ Abort(w)
    /\ IF server = w THEN Bridge!AckAnswered(resolution) /\ server' = NoWorker
       ELSE UNCHANGED <<bridge, server>>

(* The ACK, or its answer, is lost: the bridge times out. *)
AckLost ==
    /\ Bridge!AckAnswered("pending")
    /\ server' = NoWorker
    /\ UNCHANGED cloud

----------------------------------------------------------------------------

Ack ==
    \/ AckAgain \/ AckLost
    \/ \E w \in AckWorkers :
          \/ AckFirst(w)
          \/ \E resolution \in {"resolved", "pending"} : AckEnd(w, resolution)

SystemNext ==
    \/ \E w \in ApiWorkers : Request(w)
    \/ \E w \in Workers : Serve(w)
    \/ \E c \in Ids : Poll(c) \/ PollLost(c) \/ GiveBack(c) \/ Lapse(c)
    \/ BridgeWork \/ BridgeCrash
    \/ Ack

SystemSpec == SystemInit /\ [][SystemNext]_systemVars

BridgeRuns == Bridge!Work /\ UNCHANGED <<cloud, server>>

BridgeChecked == Bridge!CheckEnd /\ UNCHANGED <<cloud, server>>

(* The bridge polls and works, the server serves.  The network loses a message
   now and then, not for ever. *)
Fairness ==
    /\ \A c \in Ids : SF_systemVars(Poll(c)) /\ WF_systemVars(GiveBack(c))
    /\ WF_systemVars(BridgeRuns)
    /\ WF_systemVars(BridgeChecked)
    /\ \A w \in AckWorkers :
          /\ SF_systemVars(AckFirst(w))
          /\ WF_systemVars(Serve(w))
          /\ SF_systemVars(AckEnd(w, "resolved"))
    /\ SF_systemVars(AckAgain)

FairSystemSpec == SystemSpec /\ Fairness

----------------------------------------------------------------------------

(* A charge that was made is never forgotten: its row is still waiting for the
   result, is held as UNKNOWN, or is approved; no expiry, restart, duplicate or
   lost ACK turns it into a failure that could be charged again. *)
ChargeRemembered ==
    \A a \in Ids :
        attempt[a].type = "PAY" /\ card[a] = "made" =>
            attempt[a].status \in {"PROCESSING", "UNKNOWN", "APPROVED"}

(* The ledger books only money that moved: an approved charge and a card refund
   shown as cancelled were made at the terminal.  With the screens' requests
   served one at a time: of two refunds that race, the bridge answers the second
   with the outcome of the first and its own card is never touched. *)
LedgerIsReal ==
    \A a \in Ids :
        attempt[a].method = "card" /\ attempt[a].status \in {"APPROVED", "CANCELLED"} =>
            card[a] = "made"

(* The money taken, refunds deducted, stays within what is owed, across
   retries, refunds and an unknown outcome in between. *)
Taken(p) ==
    LET charged  == {a \in PayRows(attempt, p) :
                        card[a] = "made" \/ attempt[a].status = "COMPLETED"}
        refunded == {c \in CancelRows(attempt, p) :
                        card[c] = "made" \/ (attempt[c].method # "card" /\ attempt[c].status = "CANCELLED")}
    IN  AmountOf(attempt, charged) - AmountOf(attempt, refunded)

NeverOvercharged == \A p \in Payments : Taken(p) \in 0..Payable

(* A transaction is never at the terminal for two commands at once, and a card
   is presented only while the cloud holds the terminal for that row. *)
RunsUnderHold ==
    task.step \in {"dispatch", "record"} => attempt[task.cmd].active

(* Every queued command gets its row out of flight, through lost claims, lost
   ACKs and a restart of the bridge. *)
RowSettles ==
    \A c \in Ids : (command[c] = "pending") ~> (attempt[c].status # "PROCESSING")

=============================================================================
