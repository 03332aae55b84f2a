----------------------------- MODULE LocalPayment -----------------------------
(***************************************************************************)
(* Card payments that a screen of the store sends to the bridge itself:    *)
(* the intents of the cloud (db/payment-intents.ts), the local server of   *)
(* the bridge with its store and its outbox (local_payment_server.py), and *)
(* the screen between them (ReservationsAdmin.tsx).  One payment of one    *)
(* part; its rows are tried one after the other, here, through the cloud   *)
(* (CloudPayments) or in cash.                                             *)
(*                                                                         *)
(* A screen may be closed, an answer may be lost, a request may die        *)
(* between two statements and the bridge may stop.  What the terminal did  *)
(* for a row is kept in the store of StoreBridge: `mpos`.                  *)
(***************************************************************************)
EXTENDS Integers, FiniteSets

CONSTANTS
  Screens,
  MaxRows,      \* rows of the payment (a bound)
  MaxIntents,   \* intents signed in a behaviour (a bound)
  MaxOld,       \* intents that get old (a bound)
  MaxStops      \* stops of the bridge (a bound)

ASSUME LocalConstants == MaxRows \in Nat

Attempts == 1..MaxRows
Intents == 1..MaxIntents
None == 0
Cloud == -1                 \* a command of the cloud, not an intent

VARIABLES
  \* the cloud
  row,        \* payment_attempts: status, command_id, whether active_key is set
  intent,     \* payment_intents: attempt_id, status, whether cloud_synced_at is set
  old,        \* intents past their 75 seconds
  \* the screens
  screen,     \* what each screen is doing
  flight,     \* requests /local-payments/execute on their way
  \* the bridge
  saved,      \* local_payment_intents.status
  deal,       \* local_payment_transactions: intent_id, status
  posts,      \* cloud_sync_outbox.status
  running,    \* the request that holds _execute_lock
  sync,       \* the post of a result to the cloud
  mpos,       \* what the terminal reported
  charged,    \* whether the card was charged
  tries,      \* how often the local server asked the terminal
  stops

cloudVars == <<row, intent, old>>
storeVars == <<saved, deal, posts>>
terminal == <<mpos, charged, tries>>
lvars == <<row, intent, old, screen, flight, saved, deal, posts, running, sync, mpos, charged, tries, stops>>

Idle == [pc |-> "idle"]
Paid == {"APPROVED", "COMPLETED"}
NoRow == [status |-> "none", by |-> None, active |-> FALSE]
NewRow == [NoRow EXCEPT !.status = "PENDING"]

LocalInit ==
  /\ row = [a \in Attempts |-> IF a = 1 THEN NewRow ELSE NoRow]
  /\ intent = [i \in Intents |-> [of |-> None, status |-> "none", synced |-> FALSE]]
  /\ old = {}
  /\ screen = [s \in Screens |-> Idle] /\ flight = {}
  /\ saved = [i \in Intents |-> "none"]
  /\ deal = [a \in Attempts |-> [by |-> None, status |-> "none"]]
  /\ posts = [a \in Attempts |-> "none"]
  /\ running = Idle /\ sync = Idle
  /\ mpos = [a \in Attempts |-> "none"] /\ charged = [a \in Attempts |-> FALSE]
  /\ tries = [a \in Attempts |-> 0] /\ stops = 0

Made(i) == intent[i].status # "none"
IsLast(a) == row[a].status # "none" /\ (a + 1 \in Attempts => row[a + 1].status = "none")
Unknown == \E a \in Attempts : row[a].status = "UNKNOWN"
OtherActive(a) == \E b \in Attempts \ {a} : row[b].active
Unbound(r) == r.status = "PENDING" /\ r.by = None /\ ~r.active
\* evaluatePaymentExecutionGuard
MayPay(a) == IsLast(a) /\ Unbound(row[a]) /\ ~Unknown /\ ~OtherActive(a)

ScreenAt(s, pc) == screen[s].pc = pc
ScreenGo(s, next) == screen' = [screen EXCEPT ![s] = next]
Turn(s, pc) == ScreenGo(s, [screen[s] EXCEPT !.pc = pc])

-----------------------------------------------------------------------------
(* prepareLocalDirectPaymentIntent: a batch that expires intents and reads, *)
(* and a batch that signs and binds.                                        *)

Lapsed == {i \in Intents : intent[i].status = "READY" /\ i \in old}
Ask(s, a) ==
  /\ ScreenAt(s, "idle")
  /\ intent' = [i \in Intents |-> IF i \in Lapsed THEN [intent[i] EXCEPT !.status = "EXPIRED"] ELSE intent[i]]
  /\ row' = [b \in Attempts |-> IF row[b].status = "PENDING" /\ row[b].by \in Lapsed THEN NewRow ELSE row[b]]
  /\ LET ready == {i \in Intents \ old : intent[i].status = "READY" /\ intent[i].of = a}
     IN  \/ \E i \in ready : ScreenGo(s, [pc |-> "prepare", i |-> i])
         \/ ready = {} /\ MayPay(a)' /\ ScreenGo(s, [pc |-> "bind", a |-> a])
         \/ ready = {} /\ ~MayPay(a)' /\ Lapsed # {} /\ UNCHANGED screen
  /\ UNCHANGED <<old, flight, storeVars, running, sync, terminal, stops>>

\* Mutant of MayBind: a row that was paid or replaced meanwhile is bound.
MayBindAny(a) == ~OtherActive(a)
\* The binding fails when the row was bound meanwhile; active_key is unique.
MayBind(a) == Unbound(row[a]) /\ ~OtherActive(a)
Bind(s, i) ==
  /\ ScreenAt(s, "bind") /\ ~Made(i) /\ (i > 1 => Made(i - 1))
  /\ LET a == screen[s].a
     IN  IF MayBind(a)
         THEN /\ intent' = [intent EXCEPT ![i] = [of |-> a, status |-> "READY", synced |-> FALSE]]
              /\ row' = [row EXCEPT ![a].by = i, ![a].active = TRUE]
              /\ ScreenGo(s, [pc |-> "prepare", i |-> i])
         ELSE UNCHANGED <<intent, row>> /\ ScreenGo(s, Idle)
  /\ UNCHANGED <<old, flight, storeVars, running, sync, terminal, stops>>
Age(i) ==
  /\ Made(i) /\ i \notin old /\ Cardinality(old) < MaxOld /\ old' = old \cup {i}
  /\ UNCHANGED <<row, intent, screen, flight, storeVars, running, sync, terminal, stops>>

-----------------------------------------------------------------------------
(* The bridge: validate_payment_intent and save_intent, then execute.      *)

Recorded(a) == deal[a].by # None
Prior(i) == {j \in Intents \ {i} : intent[j].of = intent[i].of /\ saved[j] # "none"}
Accepted(i) ==
  /\ i \notin old
  /\ saved[i] = "REVOKED" => Recorded(intent[i].of)
  /\ saved[i] = "none" /\ Prior(i) # {} => ~Recorded(intent[i].of)
SaveIntent(i) ==
  saved' = IF saved[i] # "none" THEN saved
           ELSE [j \in Intents |-> IF j = i THEN "READY"
                                   ELSE IF j \in Prior(i) /\ saved[j] = "READY" THEN "REVOKED" ELSE saved[j]]

Prepare(s) ==
  /\ ScreenAt(s, "prepare")
  /\ LET i == screen[s].i
     IN  IF Accepted(i)
         THEN SaveIntent(i) /\ Turn(s, "wait") /\ flight' = flight \cup {[of |-> s, i |-> i]}
         ELSE Turn(s, "release") /\ UNCHANGED <<saved, flight>>
  /\ UNCHANGED <<cloudVars, deal, posts, running, sync, terminal, stops>>

\* Mutant of AfterBusy: a request refused as busy is given up like a bad one.
AfterBusyReleases == "release"
\* What the screen does with the answer, if it still waits for it: a request
\* that was refused was not sent to the terminal, and its intent is given up.
AfterBusy == "idle"
Answer(f, pc) ==
  screen' = IF ScreenAt(f.of, "wait") /\ screen[f.of].i = f.i
            THEN [screen EXCEPT ![f.of] = IF pc = "idle" THEN Idle ELSE [@ EXCEPT !.pc = pc]] ELSE screen

Execute(f) ==
  /\ f \in flight /\ flight' = flight \ {f}
  /\ LET i == f.i
         a == intent[i].of
         begin == ~Recorded(a) /\ running = Idle /\ Accepted(i)
     IN  /\ \/ ~Accepted(i) /\ Answer(f, "release")
            \/ Accepted(i) /\ deal[a].status \notin {"none", "PROCESSING"} /\ Answer(f, "idle")   \* replayed
            \/ Accepted(i) /\ deal[a].status \in {"none", "PROCESSING"} /\ running # Idle /\ Answer(f, AfterBusy)
            \/ begin /\ UNCHANGED screen
         /\ IF begin
            THEN /\ running' = [pc |-> "present", f |-> f]
                 /\ deal' = [deal EXCEPT ![a] = [by |-> i, status |-> "PROCESSING"]]
                 /\ saved' = [saved EXCEPT ![i] = "PROCESSING"]
            ELSE UNCHANGED <<running, deal, saved>>
  /\ UNCHANGED <<cloudVars, posts, sync, terminal, stops>>

\* A terminal that is asked again for a row repeats what it recorded.  An
\* unknown outcome may be a charge.
Terminal(a, outcome) ==
  IF mpos[a] # "none" THEN outcome = mpos[a] /\ UNCHANGED <<mpos, charged>>
  ELSE /\ mpos' = [mpos EXCEPT ![a] = outcome]
       /\ \/ outcome # "DECLINED" /\ charged' = [charged EXCEPT ![a] = TRUE]
          \/ outcome # "APPROVED" /\ UNCHANGED charged
Outcomes == {"APPROVED", "DECLINED", "UNKNOWN"}
Present(outcome) ==
  /\ running.pc = "present"
  /\ LET a == intent[running.f.i].of
     IN  Terminal(a, outcome) /\ tries' = [tries EXCEPT ![a] = @ + 1]
  /\ running' = [pc |-> "complete", f |-> running.f, outcome |-> outcome]
  /\ UNCHANGED <<cloudVars, screen, flight, storeVars, sync, stops>>

Queued(S) == [a \in Attempts |-> IF a \in S /\ posts[a] # "SYNCED" THEN "PENDING" ELSE posts[a]]
Complete ==
  /\ running.pc = "complete"
  /\ LET i == running.f.i
         a == intent[i].of
     IN  /\ deal' = [deal EXCEPT ![a].status = running.outcome]
         /\ saved' = [saved EXCEPT ![i] = running.outcome]
         /\ posts' = Queued({a})
  /\ Answer(running.f, "idle")
  /\ running' = Idle
  /\ UNCHANGED <<cloudVars, flight, sync, terminal, stops>>

\* The bridge stops and starts again: recover_interrupted_transactions.
Interrupted == {a \in Attempts : deal[a].status = "PROCESSING"}
BridgeStops ==
  /\ stops < MaxStops /\ stops' = stops + 1
  /\ deal' = [a \in Attempts |-> IF a \in Interrupted THEN [deal[a] EXCEPT !.status = "UNKNOWN"] ELSE deal[a]]
  /\ posts' = [a \in Attempts |-> IF a \in Interrupted THEN "PENDING" ELSE posts[a]]
  /\ running' = Idle /\ flight' = {} /\ sync' = Idle
  /\ UNCHANGED <<cloudVars, screen, saved, terminal>>

-----------------------------------------------------------------------------
(* The screen gives up: release, or unknown.                               *)

NoAnswer(s) ==
  /\ ScreenAt(s, "wait") /\ Turn(s, "unknown")
  /\ UNCHANGED <<cloudVars, flight, storeVars, running, sync, terminal, stops>>
Closed(s) ==
  /\ ~ScreenAt(s, "idle") /\ ScreenGo(s, Idle)
  /\ UNCHANGED <<cloudVars, flight, storeVars, running, sync, terminal, stops>>

\* releaseLocalDirectPaymentIntent
ReleaseRead(s) ==
  /\ ScreenAt(s, "release")
  /\ IF intent[screen[s].i].status = "READY" THEN Turn(s, "revoke") ELSE ScreenGo(s, Idle)
  /\ UNCHANGED <<cloudVars, flight, storeVars, running, sync, terminal, stops>>
Revoke(s) ==
  /\ ScreenAt(s, "revoke")
  /\ LET i == screen[s].i
         a == intent[i].of
     IN  /\ intent' = IF intent[i].status = "READY" THEN [intent EXCEPT ![i].status = "REVOKED"] ELSE intent
         /\ row' = IF row[a].by = i /\ row[a].status = "PENDING" THEN [row EXCEPT ![a] = NewRow] ELSE row
  /\ ScreenGo(s, Idle)
  /\ UNCHANGED <<old, flight, storeVars, running, sync, terminal, stops>>

\* reactivateLocalIntentCommand
Reactivate(i) ==
  LET a == intent[i].of
      pending == row[a].status = "PENDING"
  IN  /\ pending => ~OtherActive(a)
      /\ intent' = [j \in Intents |-> IF j # i /\ intent[j].of = a /\ intent[j].status = "READY"
                                      THEN [intent[j] EXCEPT !.status = "REVOKED"] ELSE intent[j]]
      /\ row' = IF pending THEN [row EXCEPT ![a].by = i, ![a].active = TRUE] ELSE row
\* completePaymentCommand: the row is found by its command_id.
Apply(i, status) ==
  row' = [a \in Attempts |-> IF row[a].by # i THEN row[a]
                             ELSE [row[a] EXCEPT !.status = status, !.active = @ /\ status = "UNKNOWN"]]

\* markLocalDirectPaymentUnknown
UnknownRead(s) ==
  /\ ScreenAt(s, "unknown")
  /\ LET i == screen[s].i
     IN  IF intent[i].status = "REVOKED" \/ intent[i].synced THEN ScreenGo(s, Idle) ELSE Turn(s, "unknownBind")
  /\ UNCHANGED <<cloudVars, flight, storeVars, running, sync, terminal, stops>>
UnknownBind(s) ==
  /\ ScreenAt(s, "unknownBind") /\ Reactivate(screen[s].i) /\ Turn(s, "unknownMark")
  /\ UNCHANGED <<old, flight, storeVars, running, sync, terminal, stops>>
UnknownMark(s) ==
  /\ ScreenAt(s, "unknownMark")
  /\ intent' = [intent EXCEPT ![screen[s].i].status = "UNKNOWN"]
  /\ Turn(s, "unknownApply")
  /\ UNCHANGED <<row, old, flight, storeVars, running, sync, terminal, stops>>
UnknownApply(s) ==
  /\ ScreenAt(s, "unknownApply") /\ Apply(screen[s].i, "UNKNOWN") /\ ScreenGo(s, Idle)
  /\ UNCHANGED <<intent, old, flight, storeVars, running, sync, terminal, stops>>

-----------------------------------------------------------------------------
(* sync_due and completeLocalDirectPaymentResult.                          *)

Step(pc) == sync' = [sync EXCEPT !.pc = pc]
CloudRests == UNCHANGED <<screen, flight, running, terminal, stops>>

\* Mutant of First: a result is booked only for an intent that is READY.
FirstDone(i) == IF intent[i].status = "READY" THEN "bind" ELSE "done"
First(i) == IF intent[i].synced THEN "done" ELSE IF intent[i].status = "READY" THEN "bind" ELSE "apply"
SyncRead(a) ==
  /\ sync = Idle /\ posts[a] = "PENDING"
  /\ LET i == deal[a].by
     IN  IF intent[i].status = "REVOKED" THEN posts' = [posts EXCEPT ![a] = "QUARANTINED"] /\ UNCHANGED sync
         ELSE sync' = [pc |-> First(i), a |-> a, i |-> i, status |-> deal[a].status] /\ UNCHANGED posts
  /\ UNCHANGED <<cloudVars, saved, deal>> /\ CloudRests
SyncBind ==
  /\ sync.pc = "bind" /\ Reactivate(sync.i) /\ Step("core")
  /\ UNCHANGED <<old, storeVars>> /\ CloudRests
SyncCore ==
  /\ sync.pc \in {"core", "apply"} /\ Apply(sync.i, sync.status)
  /\ Step(IF sync.pc = "core" THEN "keep" ELSE "synced")
  /\ UNCHANGED <<intent, old, storeVars>> /\ CloudRests
\* The answer says synced: false, and the outbox posts again.
SyncKeep ==
  /\ sync.pc = "keep"
  /\ intent' = IF intent[sync.i].status = "READY" THEN [intent EXCEPT ![sync.i].status = sync.status] ELSE intent
  /\ sync' = Idle
  /\ UNCHANGED <<row, old, storeVars>> /\ CloudRests
SyncMark ==
  /\ sync.pc = "synced"
  /\ intent' = [intent EXCEPT ![sync.i].synced = TRUE]
  /\ Step("done")
  /\ UNCHANGED <<row, old, storeVars>> /\ CloudRests
SyncDone ==
  /\ sync.pc = "done"
  /\ posts' = [posts EXCEPT ![sync.a] = "SYNCED"] /\ sync' = Idle
  /\ UNCHANGED <<cloudVars, saved, deal>> /\ CloudRests
SyncLost ==
  /\ sync # Idle /\ sync' = Idle
  /\ UNCHANGED <<cloudVars, storeVars>> /\ CloudRests

-----------------------------------------------------------------------------
(* The other ways to pay (CloudPayments).                                  *)

Others == UNCHANGED <<intent, old, screen, flight, storeVars, running, sync, stops>>
CloudSend(a) ==
  /\ MayPay(a) /\ row' = [row EXCEPT ![a] = [status |-> "PROCESSING", by |-> Cloud, active |-> TRUE]]
  /\ UNCHANGED terminal /\ Others
CloudResult(a, outcome) ==
  /\ row[a].by = Cloud /\ row[a].status = "PROCESSING" /\ running = Idle
  /\ Terminal(a, outcome)
  /\ row' = [row EXCEPT ![a].status = outcome, ![a].active = outcome = "UNKNOWN"]
  /\ UNCHANGED tries /\ Others
Cash(a) ==
  /\ MayPay(a) /\ row' = [row EXCEPT ![a].status = "COMPLETED"]
  /\ UNCHANGED terminal /\ Others
\* A retry of a row that was declined, or a new plan in place of one that
\* nothing is under way for.
Again(a) ==
  /\ a \in Attempts \ {1} /\ IsLast(a - 1) /\ row[a].status = "none"
  /\ ~Unknown /\ ~OtherActive(a)
  /\ \/ row[a - 1].status = "DECLINED" /\ row' = [row EXCEPT ![a] = NewRow]
     \/ Unbound(row[a - 1]) /\ row' = [row EXCEPT ![a] = NewRow, ![a - 1].status = "CANCELLED"]
  /\ UNCHANGED terminal /\ Others
\* The operator finds the approval of an unknown payment at the terminal.
Reconcile(a) ==
  /\ row[a].status = "UNKNOWN" /\ charged[a]
  /\ row' = [row EXCEPT ![a].status = "APPROVED", ![a].active = FALSE]
  /\ UNCHANGED terminal /\ Others

LocalNext ==
  \/ \E s \in Screens :
       \/ \E a \in Attempts : Ask(s, a)
       \/ \E i \in Intents : Bind(s, i)
       \/ Prepare(s) \/ NoAnswer(s) \/ Closed(s) \/ ReleaseRead(s) \/ Revoke(s)
       \/ UnknownRead(s) \/ UnknownBind(s) \/ UnknownMark(s) \/ UnknownApply(s)
  \/ \E i \in Intents : Age(i)
  \/ \E f \in flight : Execute(f)
  \/ \E outcome \in Outcomes : Present(outcome)
  \/ Complete \/ BridgeStops
  \/ \E a \in Attempts : SyncRead(a)
  \/ SyncBind \/ SyncCore \/ SyncKeep \/ SyncMark \/ SyncDone \/ SyncLost
  \/ \E a \in Attempts :
       CloudSend(a) \/ Cash(a) \/ Again(a) \/ Reconcile(a) \/ \E outcome \in Outcomes : CloudResult(a, outcome)
LocalSpec == LocalInit /\ [][LocalNext]_lvars

-----------------------------------------------------------------------------
\* The tables, the screens and the bridge hold what their handlers write.
LocalTypeOK ==
  /\ \A a \in Attempts :
       /\ row[a].status \in {"none", "PENDING", "PROCESSING", "COMPLETED", "CANCELLED"} \cup Outcomes
       /\ row[a].by \in Intents \cup {None, Cloud} /\ row[a].active \in BOOLEAN
       /\ deal[a].status \in {"none", "PROCESSING"} \cup Outcomes /\ (deal[a].status = "none") = (deal[a].by = None)
       /\ posts[a] \in {"none", "PENDING", "SYNCED", "QUARANTINED"}
       /\ posts[a] # "none" <=> deal[a].status \in Outcomes
  /\ \A i \in Intents :
       /\ intent[i].status \in {"none", "READY", "EXPIRED", "REVOKED"} \cup Outcomes
       /\ saved[i] \in {"none", "READY", "REVOKED", "PROCESSING"} \cup Outcomes
  /\ {a \in Attempts : deal[a].status = "PROCESSING"} = IF running = Idle THEN {} ELSE {intent[running.f.i].of}

\* The local server asks the terminal once for a transaction, whichever screens
\* and repeats ask for it, and whenever the bridge stops.
AskedOnce == \A a \in Attempts : tries[a] <= 1

\* A row that has had an intent which got old.
Late(a) == \E i \in old : intent[i].of = a

\* An intent is given up only when the terminal was not asked for it, however
\* many screens and requests share it; the exception is a row that has had an
\* intent which got old.
RevokedNotRun ==
  \A i \in Intents : intent[i].status = "REVOKED" /\ deal[intent[i].of].by = i => Late(intent[i].of)

\* An approval that the bridge takes for delivered is in the ledger, or is held
\* as unknown.  With late rows excepted it holds; without that it is what the comment at
\* completeLocalDirectPaymentResult says of an expired intent.
Delivered(a) == posts[a] = "SYNCED" /\ deal[a].status = "APPROVED"
DeliveredIsBooked ==
  \A a \in Attempts : Delivered(a) => row[a].status \in Paid \cup {"UNKNOWN"} \/ Late(a)
ExpiredIsBooked ==
  \A a \in Attempts : Delivered(a) => row[a].status \in Paid \cup {"UNKNOWN"}

\* The customer pays once, whether here, through the cloud or in cash, and
\* whatever is lost, as long as no intent gets old while it is run.
Charges == {<<a, "card">> : a \in {b \in Attempts : charged[b]}}
           \cup {<<a, "cash">> : a \in {b \in Attempts : row[b].status = "COMPLETED"}}
PaidOnce == \A c, d \in Charges : c = d \/ Late(c[1]) \/ Late(d[1])

\* What the local server does with the terminal and the card, in one.
ChargedOnce == AskedOnce /\ RevokedNotRun /\ PaidOnce
=============================================================================
