---------------------------- MODULE KioskScreen ----------------------------
(***************************************************************************)
(* The screen of one kiosk and what it saves in the background:            *)
(* app/kiosk/KioskApp.tsx, its party-persistence.ts, and the handlers of   *)
(* db/customer-flow.ts that its requests of a walk-in visit reach.         *)
(*                                                                         *)
(* The customer goes on while the party and the draft of the form are on   *)
(* their way.  The draft carries a revision; the party does not, and is    *)
(* waited for (a barrier) before a request that depends on it.  A          *)
(* generation tells the visits of the kiosk apart; back home, the requests *)
(* of the former one are given up, and the server may still serve them.    *)
(*                                                                         *)
(* Slots, holds and the payment itself are those of KioskBooking.          *)
(***************************************************************************)
EXTENDS Integers, Sequences, FiniteSets

CONSTANTS
  Sizes,      \* party sizes a customer enters, from 1
  Benefits,   \* the choices of the benefits screen (a pass, a coupon, none)
  Price,      \* what a party pays with a benefit
  MaxGen,     \* generations: one for each visit and each return home (bounds ...)
  MaxSaves,   \* ... of parties entered,
  MaxAssigns, \* ... of assignments asked for,
  MaxTeams,   \* ... of teams entered,
  MaxQuotes,  \* ... of quotes asked for,
  MaxFaults   \* ... and of requests that fail on the network

\* A price is a number, of a party and the benefit it has, if any.
ScreenConstants == MaxGen \in Nat /\ Price \in [Sizes \X (Benefits \cup {0}) -> Nat]
ASSUME ScreenAssumption == ScreenConstants

VARIABLES
  gen,        \* flowGenerationRef
  screen,     \* the screen, those between the assignment and the review as one
  session,    \* sessionPromiseRef and tokenRef
  form,       \* draftRef: its revision and party
  queue,      \* queuedDraftRef
  drain,      \* draftDrainRef: the snapshot that is being saved
  tasks,      \* the chain of the party coordinator: parties to save, the head first
  ticket,     \* its current ticket
  work,       \* the handler of the button pressed last, while it runs
  shown,      \* `visit` and `paymentItems`: what the review shows and will ask for
  wire,       \* requests on their way, served, or answered
  table,      \* customer_visits: the row of each generation
  bills,      \* each checkout: what was entered, what was shown, what was found
  lost,       \* generations whose party, quote or checkout failed on the network
  left        \* of the bounds

svars == <<gen, screen, session, form, queue, drain, tasks, ticket, work, shown, wire, table, bills, lost, left>>

Gens == 1..MaxGen
NoDraft == [rev |-> 0, party |-> 0]
NoTicket == [party |-> 0, status |-> "none"]
\* A sum is told by the party and the benefit it is made of.
NoSum == [party |-> 0, benefit |-> 0]
NoWork == [op |-> "none", at |-> "", of |-> 0, benefit |-> 0, party |-> 0, sum |-> NoSum, due |-> 0]
NoRow == [status |-> "NONE", rev |-> 0, party |-> 0, benefit |-> 0, final |-> NoSum, agreed |-> FALSE]
Nothing == [of |-> 0, status |-> "NONE", party |-> 0, final |-> NoSum, items |-> 0]
Amount(sum) == IF sum.party = 0 THEN 0 ELSE Price[<<sum.party, sum.benefit>>]

ScreenInit ==
  /\ gen = 0 /\ screen = "home" /\ session = "none"
  /\ form = NoDraft /\ queue = NoDraft /\ drain = NoDraft
  /\ tasks = <<>> /\ ticket = NoTicket /\ work = NoWork /\ shown = Nothing
  /\ wire = {} /\ table = [g \in Gens |-> NoRow]
  /\ bills = {} /\ lost = {}
  /\ left = [saves |-> MaxSaves, assigns |-> MaxAssigns, teams |-> MaxTeams, quotes |-> MaxQuotes, faults |-> MaxFaults]

client == <<gen, screen, session, form, queue, drain, tasks, ticket, work, shown>>
Spent(what) == left[what] > 0 /\ left' = [left EXCEPT ![what] = @ - 1]

-----------------------------------------------------------------------------
(* Requests.                                                               *)

\* `seen` is the row as the handler has read it, `sum` what is to be paid.
Message(kind, rev, party, benefit) ==
  [kind |-> kind, of |-> gen, at |-> "sent", rev |-> rev, party |-> party, benefit |-> benefit,
   sum |-> NoSum, due |-> 0, seen |-> NoRow, awaited |-> TRUE, ok |-> FALSE]
Send(m) == wire' = wire \cup {m}

\* Mutant of Unawaited: nothing is aborted.
UnawaitedNone(kinds) == {m \in wire : kinds # {}}
\* An abort: whoever is given up is served on, and its answer is not read.
Unawaited(kinds) ==
  {IF m.kind \in kinds THEN [m EXCEPT !.awaited = FALSE] ELSE m :
     m \in {x \in wire : ~(x.kind \in kinds /\ x.at = "answer")}}
Answers(kind) == {m \in wire : m.kind = kind /\ m.at = "answer" /\ m.awaited}

-----------------------------------------------------------------------------
(* The session.                                                            *)

\* Every button of a screen waits for a handler that set `busy`.
Busy == work.op \in {"guide", "quote", "checkout"}
HoldPending == work.op = "assign"
Empty(d) == d = NoDraft

\* Mutant of MayBegin: the buttons of the home screen do not wait.
MayBeginAnyway == session = "none"
MayBegin == session = "none" /\ ~Busy
Begin ==
  /\ screen = "home" /\ MayBegin /\ gen < MaxGen
  /\ gen' = gen + 1 /\ screen' = "party" /\ session' = "asked" /\ form' = NoDraft
  /\ UNCHANGED <<queue, drain, tasks, ticket, work, shown, wire, table, bills, lost, left>>
\* createKioskVisit and its answer.
SessionOpens ==
  /\ session = "asked"
  /\ session' = "have"
  /\ table' = [table EXCEPT ![gen].status = "DRAFT"]
  /\ shown' = [Nothing EXCEPT !.of = gen, !.status = "DRAFT", !.party = form.party]
  /\ UNCHANGED <<gen, screen, form, queue, drain, tasks, ticket, work, wire, bills, lost, left>>
\* What waits for the session fails with it.
SessionFails ==
  /\ session = "asked" /\ Spent("faults")
  /\ session' = "none" /\ screen' = "home" /\ queue' = NoDraft
  /\ tasks' = <<>> /\ ticket' = IF tasks = <<>> THEN ticket ELSE [ticket EXCEPT !.status = "failed"]
  /\ work' = NoWork
  /\ UNCHANGED <<gen, form, drain, shown, wire, table, bills, lost>>

\* clearLocalHome with cancelDraftWork: all of the former visit is forgotten,
\* except a handler that nothing aborts.
ClearLocalHome ==
  /\ gen' = gen + 1 /\ screen' = "home" /\ session' = "none"
  /\ form' = NoDraft /\ queue' = NoDraft /\ drain' = NoDraft
  /\ tasks' = <<>> /\ ticket' = NoTicket /\ shown' = Nothing
  /\ work' = IF Busy THEN work ELSE NoWork

\* resetHome, from a button, from going back, or after 90 s without a touch.
Locked == shown.status = "PAYMENT_PENDING"
Home ==
  /\ screen \notin {"home", "payment"} /\ ~Locked /\ gen < MaxGen
  /\ ~ \E m \in wire : m.kind = "reset" /\ m.awaited
  /\ IF session = "have" THEN Send(Message("reset", 0, 0, 0)) /\ UNCHANGED client
     ELSE ClearLocalHome /\ UNCHANGED wire
  /\ UNCHANGED <<table, bills, lost, left>>
ResetAnswered ==
  \E m \in Answers("reset") :
    /\ m.ok => gen < MaxGen
    /\ IF m.ok THEN ClearLocalHome /\ wire' = Unawaited({"draft", "party", "assign"}) \ {m}
       ELSE wire' = wire \ {m} /\ UNCHANGED client
    /\ UNCHANGED <<table, bills, lost, left>>
\* The payment is over, or was cancelled before its card was sent.
Leave ==
  /\ screen = "payment" /\ Locked /\ ~Busy /\ gen < MaxGen
  /\ ClearLocalHome /\ wire' = Unawaited({"draft", "party", "assign"})
  /\ UNCHANGED <<table, bills, lost, left>>
Help ==
  /\ screen \notin {"home", "help"} /\ screen' = "help"
  /\ UNCHANGED <<gen, session, form, queue, drain, tasks, ticket, work, shown, wire, table, bills, lost, left>>

Back ==
  /\ ~HoldPending
  /\ screen' = CASE screen = "review" -> "form"
                 [] screen = "form" -> "difficulty"
                 [] screen = "difficulty" -> "party"
                 [] screen = "assigning" -> IF ticket.status = "done" THEN "difficulty" ELSE "party"
                 [] OTHER -> screen
  /\ screen' # screen /\ session # "none"
  /\ UNCHANGED <<gen, session, form, queue, drain, tasks, ticket, work, shown, wire, table, bills, lost, left>>

-----------------------------------------------------------------------------
(* The party, saved in the background, one after the other.                *)

SaveParty(p) ==
  /\ screen = "party" /\ session # "none" /\ ~Busy
  /\ screen' = "difficulty"
  /\ IF ticket.party = p /\ ticket.status \in {"pending", "done"}
     THEN UNCHANGED <<form, tasks, ticket, shown, left>>
     ELSE /\ Spent("saves")
          /\ form' = [rev |-> form.rev + 1, party |-> p]
          /\ ticket' = [party |-> p, status |-> "pending"]
          /\ tasks' = Append(tasks, [party |-> p, sent |-> FALSE])
          /\ shown' = IF shown.of = 0 THEN shown ELSE [shown EXCEPT !.party = p]
  /\ UNCHANGED <<gen, session, queue, drain, work, wire, table, bills, lost>>
PartySends ==
  /\ tasks # <<>> /\ ~tasks[1].sent /\ session = "have"
  /\ tasks' = [tasks EXCEPT ![1].sent = TRUE]
  /\ Send(Message("party", 0, tasks[1].party, 0))
  /\ UNCHANGED <<gen, screen, session, form, queue, drain, ticket, work, shown, table, bills, lost, left>>
\* Only the latest of them reaches the screen.
PartyAnswered ==
  \E m \in Answers("party") :
    /\ wire' = wire \ {m} /\ tasks' = SubSeq(tasks, 2, Len(tasks))
    /\ IF Len(tasks) > 1 THEN UNCHANGED <<ticket, shown, form>>
       ELSE /\ ticket' = [ticket EXCEPT !.status = IF m.ok THEN "done" ELSE "failed"]
            /\ IF ~m.ok THEN UNCHANGED <<shown, form>>
               ELSE /\ shown' = [shown EXCEPT !.party = m.party,
                                              !.final = [party |-> m.party, benefit |-> m.seen.benefit]]
                    /\ form' = [form EXCEPT !.rev = IF m.seen.rev > @ THEN m.seen.rev ELSE @]
    /\ UNCHANGED <<gen, screen, session, queue, drain, work, table, bills, lost, left>>

\* waitForPartyBarrier: passed, or failed with the ticket.
PartySaved == ticket.status \in {"none", "done"}
PartyFailed == ticket.status = "failed"

-----------------------------------------------------------------------------
(* The draft of the form, saved in the background, the latest only.        *)

\* saveTeam, asGuest: the form goes on, the snapshot is queued.
SaveTeam ==
  /\ screen = "form" /\ ~Busy /\ Spent("teams")
  /\ form' = [form EXCEPT !.rev = @ + 1] /\ queue' = form'
  /\ UNCHANGED <<gen, screen, session, drain, tasks, ticket, work, shown, wire, table, bills, lost>>
Drain ==
  /\ Empty(drain) /\ ~Empty(queue) /\ session = "have"
  /\ drain' = queue /\ queue' = NoDraft
  /\ Send(Message("draft", queue.rev, queue.party, 0))
  /\ UNCHANGED <<gen, screen, session, form, tasks, ticket, work, shown, table, bills, lost, left>>
\* A draft that failed is sent again, unless a newer one is queued.
DraftAnswered ==
  \E m \in Answers("draft") :
    /\ wire' = wire \ {m} /\ drain' = NoDraft
    /\ queue' = IF ~m.ok /\ (Empty(queue) \/ queue.rev < drain.rev) THEN drain ELSE queue
    /\ UNCHANGED <<gen, screen, session, form, tasks, ticket, work, shown, table, bills, lost, left>>

-----------------------------------------------------------------------------
(* The handlers behind the buttons.  Each waits for the party first.       *)

Start(op) == [NoWork EXCEPT !.op = op, !.at = "barrier", !.of = gen]
NextRevision == form' = [form EXCEPT !.rev = @ + 1]
\* The request of the handler is on its way with a snapshot of the form.
SendDraft(kind, benefit) ==
  /\ NextRevision /\ work' = [work EXCEPT !.at = "sent", !.of = gen]
  /\ Send(Message(kind, form.rev + 1, form.party, benefit))

ChooseDifficulty ==
  /\ screen = "difficulty" \/ (screen = "assigning" /\ ticket.status = "done")
  /\ work = NoWork /\ session # "none" /\ Spent("assigns")
  /\ screen' = "assigning" /\ work' = Start("assign")
  /\ UNCHANGED <<gen, session, form, queue, drain, tasks, ticket, shown, wire, table, bills, lost>>
\* Mutant of Barrier: the party is not waited for.
BarrierSkipped(op) == work.op = op /\ work.at = "barrier"
Barrier(op) == work.op = op /\ work.at = "barrier" /\ PartySaved
AssignSends ==
  /\ Barrier("assign") /\ session = "have" /\ SendDraft("assign", 0)
  /\ UNCHANGED <<gen, screen, session, queue, drain, tasks, ticket, shown, table, bills, lost, left>>
AssignAnswered ==
  \E m \in Answers("assign") :
    /\ wire' = wire \ {m} /\ work' = NoWork
    /\ IF m.ok THEN screen' = "form" /\ shown' = [shown EXCEPT !.status = m.seen.status, !.party = m.seen.party,
                                                               !.final = m.seen.final]
       ELSE UNCHANGED <<screen, shown>>
    /\ UNCHANGED <<gen, session, form, queue, drain, tasks, ticket, table, bills, lost, left>>

\* acceptGuidance, with the benefit chosen by then.
AcceptGuidance(b) ==
  /\ screen = "form" /\ work = NoWork /\ session = "have" /\ Spent("quotes")
  /\ work' = [Start("guide") EXCEPT !.at = "sent", !.benefit = b]
  /\ Send(Message("guide", 0, 0, 0))
  /\ UNCHANGED <<gen, screen, session, form, queue, drain, tasks, ticket, shown, table, bills, lost>>
\* The quote is of whichever visit the kiosk is at by now.
GuidanceAnswered ==
  \E m \in Answers("guide") :
    /\ wire' = wire \ {m}
    /\ IF m.ok THEN work' = [Start("quote") EXCEPT !.benefit = work.benefit] /\ screen' = "review"
       ELSE work' = NoWork /\ UNCHANGED screen
    /\ UNCHANGED <<gen, session, form, queue, drain, tasks, ticket, shown, table, bills, lost, left>>
QuoteSends ==
  /\ Barrier("quote") /\ session = "have" /\ SendDraft("quote", work.benefit)
  /\ UNCHANGED <<gen, screen, session, queue, drain, tasks, ticket, shown, table, bills, lost, left>>
QuoteAnswered ==
  \E m \in Answers("quote") :
    /\ wire' = wire \ {m} /\ work' = NoWork
    /\ shown' = IF ~m.ok \/ m.of # gen THEN shown
                ELSE [of |-> gen, status |-> m.seen.status, party |-> m.seen.party,
                      final |-> m.seen.final, items |-> Amount(m.seen.final)]
    /\ UNCHANGED <<gen, screen, session, form, queue, drain, tasks, ticket, table, bills, lost, left>>

\* paymentMatches: the items come to the amount that the review shows.
PaymentMatches == shown.items > 0 /\ shown.items = Amount(shown.final)
Checkout ==
  /\ screen = "review" /\ work = NoWork /\ session = "have" /\ PaymentMatches
  /\ screen' = "payment"
  /\ work' = [Start("checkout") EXCEPT !.party = form.party, !.sum = shown.final, !.due = shown.items]
  /\ UNCHANGED <<gen, session, form, queue, drain, tasks, ticket, shown, wire, table, bills, lost, left>>
CheckoutSends ==
  /\ Barrier("checkout")
  /\ work' = [work EXCEPT !.at = "sent"]
  /\ Send([Message("checkout", 0, work.party, 0) EXCEPT !.of = work.of, !.sum = work.sum, !.due = work.due])
  /\ UNCHANGED <<gen, screen, session, form, queue, drain, tasks, ticket, shown, table, bills, lost, left>>
\* Whatever the kiosk shows by now.
CheckoutAnswered ==
  \E m \in Answers("checkout") :
    /\ wire' = wire \ {m} /\ work' = NoWork
    /\ IF m.ok THEN /\ screen' = "payment"
                    /\ shown' = [shown EXCEPT !.of = m.of, !.status = m.seen.status]
       ELSE screen' = "review" /\ UNCHANGED shown
    /\ UNCHANGED <<gen, session, form, queue, drain, tasks, ticket, table, bills, lost, left>>
\* The barrier failed, or there is no session (any more).
HandlerFails ==
  /\ work.at = "barrier" /\ (PartyFailed \/ (work.op = "quote" /\ session = "none"))
  /\ work' = NoWork
  /\ screen' = IF work.op = "checkout" THEN "review" ELSE screen
  /\ UNCHANGED <<gen, session, form, queue, drain, tasks, ticket, shown, wire, table, bills, lost, left>>

-----------------------------------------------------------------------------
(* The server.  visitForToken reads the row; what a handler decides, it    *)
(* decides on what it has read.                                            *)

Unpaid == {"DRAFT", "HOLD"}
Row(m) == table[m.of]
Serve(m, served) == wire' = (wire \ {m}) \cup {served}
\* Who is not awaited gets no answer.
Answer(m, ok, seen) ==
  wire' = (wire \ {m}) \cup
          {x \in {[m EXCEPT !.at = "answer", !.ok = ok, !.seen = seen, !.rev = 0, !.sum = NoSum, !.due = 0]} : m.awaited}
Set(m, row) == table' = [table EXCEPT ![m.of] = row]
ServerOnly == UNCHANGED <<client, lost, left>>
At(kind, at) == {m \in wire : m.kind = kind /\ m.at = at}
Refused(m) == Answer(m, FALSE, NoRow)

\* applyKioskDraftSnapshot, up to its update: refused, stale, or to be written.
Stale(m) ==
  CASE m.kind = "draft" -> Answer(m, TRUE, NoRow)
    [] m.kind = "assign" -> Refused(m)
    [] m.kind = "quote" -> Serve(m, [m EXCEPT !.at = "price", !.seen = Row(m)])
ReadDraft ==
  \E m \in UNION {At(kind, "sent") : kind \in {"draft", "assign", "quote"}} :
    /\ IF Row(m).status \notin Unpaid THEN Refused(m)
       ELSE IF m.rev < Row(m).rev THEN Stale(m)
       ELSE Serve(m, [m EXCEPT !.at = "write"])
    /\ UNCHANGED <<table, bills>> /\ ServerOnly
\* The update asks only for the revision.
\* Mutant of SavesDraft: it asks for nothing.
SavesDraftAnyway(m) == m.rev >= 0
SavesDraft(m) == Row(m).rev <= m.rev
Drafted(m) ==
  [Row(m) EXCEPT !.rev = m.rev, !.party = m.party, !.final = [party |-> m.party, benefit |-> Row(m).benefit]]
Written(m) ==
  CASE m.kind = "draft" -> Answer(m, TRUE, NoRow)
    [] m.kind = "assign" -> Serve(m, [m EXCEPT !.at = "hold"])
    [] m.kind = "quote" -> Serve(m, [m EXCEPT !.at = "price", !.seen = Drafted(m)])
WriteDraft ==
  \E m \in UNION {At(kind, "write") : kind \in {"draft", "assign", "quote"}} :
    /\ IF SavesDraft(m) THEN Set(m, Drafted(m)) /\ Written(m) ELSE Stale(m) /\ UNCHANGED table
    /\ UNCHANGED bills /\ ServerOnly

\* autoAssignKioskSlot writes for the draft it has read; there may be no slot.
AssignHolds ==
  \E m \in At("assign", "hold") :
    LET row == [Row(m) EXCEPT !.status = "HOLD", !.final = [party |-> m.party, benefit |-> Row(m).benefit]]
    IN  /\ Row(m).status \in Unpaid /\ Row(m).rev = m.rev /\ Row(m).party = m.party
        /\ Set(m, row) /\ Answer(m, TRUE, row)
        /\ UNCHANGED bills /\ ServerOnly
AssignRefused ==
  \E m \in At("assign", "hold") : Refused(m) /\ UNCHANGED <<table, bills>> /\ ServerOnly

\* updateKioskParty: a read, and a write that asks for nothing.
ReadParty ==
  \E m \in At("party", "sent") :
    /\ IF Row(m).status \in Unpaid THEN Serve(m, [m EXCEPT !.at = "write", !.seen = Row(m)]) ELSE Refused(m)
    /\ UNCHANGED <<table, bills>> /\ ServerOnly
WriteParty ==
  \E m \in At("party", "write") :
    /\ Set(m, [Row(m) EXCEPT !.party = m.party, !.final = [party |-> m.party, benefit |-> Row(m).benefit]])
    /\ Answer(m, TRUE, m.seen)
    /\ UNCHANGED bills /\ ServerOnly

Agree ==                                           \* acceptKioskGuidance
  \E m \in At("guide", "sent") :
    /\ IF Row(m).status \in Unpaid THEN Set(m, [Row(m) EXCEPT !.agreed = TRUE]) /\ Answer(m, TRUE, NoRow)
       ELSE Refused(m) /\ UNCHANGED table
    /\ UNCHANGED bills /\ ServerOnly

\* quoteKioskCheckout, after the draft: for the party it has read, written
\* whatever the row says by now.  A benefit may have become unusable.
Quote ==
  \E m \in At("quote", "price") :
    LET row == [Row(m) EXCEPT !.benefit = m.benefit, !.final = [party |-> m.seen.party, benefit |-> m.benefit]]
    IN  /\ Row(m).agreed
        /\ Set(m, row) /\ Answer(m, TRUE, row)
        /\ UNCHANGED bills /\ ServerOnly
QuoteRefused ==
  \E m \in At("quote", "price") :
    /\ ~Row(m).agreed \/ m.benefit # 0
    /\ Refused(m) /\ UNCHANGED <<table, bills>> /\ ServerOnly

\* startKioskCheckout: its first read, then the row it bills, and compares
\* with the items only in their sum.
ReadCheckout ==
  \E m \in At("checkout", "sent") :
    /\ IF Row(m).status \in Unpaid \cup {"PAYMENT_PENDING"} THEN Serve(m, [m EXCEPT !.at = "bill"]) ELSE Refused(m)
    /\ UNCHANGED <<table, bills>> /\ ServerOnly
Bill ==
  \E m \in At("checkout", "bill") :
    LET found == [party |-> Row(m).party, benefit |-> Row(m).benefit]
        row == [Row(m) EXCEPT !.status = "PAYMENT_PENDING"]
    IN  /\ bills' = bills \cup {[of |-> m.of, entered |-> m.party, shown |-> m.sum, found |-> found,
                                 agreed |-> Row(m).agreed]}
        /\ IF Amount(found) = m.due THEN Set(m, row) /\ Answer(m, TRUE, row) ELSE Refused(m) /\ UNCHANGED table
        /\ ServerOnly

ReadReset ==
  \E m \in At("reset", "sent") :
    /\ IF Row(m).status # "PAYMENT_PENDING" THEN Serve(m, [m EXCEPT !.at = "write"]) ELSE Refused(m)
    /\ UNCHANGED <<table, bills>> /\ ServerOnly
WriteReset ==
  \E m \in At("reset", "write") :
    /\ Set(m, [Row(m) EXCEPT !.status = "CANCELLED"]) /\ Answer(m, TRUE, NoRow)
    /\ UNCHANGED bills /\ ServerOnly

\* The connection is lost: the kiosk takes the request for failed, the server
\* goes on with it.
Disconnect ==
  \E m \in wire :
    /\ m.awaited /\ Spent("faults")
    /\ wire' = (wire \ {m}) \cup {x \in {[m EXCEPT !.awaited = FALSE]} : m.at # "answer"}
                 \cup {[Message(m.kind, 0, m.party, m.benefit) EXCEPT !.of = m.of, !.at = "answer"]}
    /\ lost' = IF m.kind \in {"party", "quote", "checkout"} THEN lost \cup {m.of} ELSE lost
    /\ UNCHANGED <<client, table, bills>>

-----------------------------------------------------------------------------
Touches ==
  \/ Begin \/ Home \/ Leave \/ Help \/ Back
  \/ \E p \in Sizes : SaveParty(p)
  \/ SaveTeam \/ ChooseDifficulty \/ \E b \in Benefits : AcceptGuidance(b)
  \/ Checkout
Background ==
  \/ SessionOpens \/ SessionFails \/ ResetAnswered
  \/ PartySends \/ PartyAnswered \/ Drain \/ DraftAnswered
  \/ AssignSends \/ AssignAnswered \/ GuidanceAnswered \/ QuoteSends \/ QuoteAnswered
  \/ CheckoutSends \/ CheckoutAnswered \/ HandlerFails
Serves ==
  \/ ReadDraft \/ WriteDraft \/ AssignHolds \/ AssignRefused \/ ReadParty \/ WriteParty
  \/ Agree \/ Quote \/ QuoteRefused \/ ReadCheckout \/ Bill \/ ReadReset \/ WriteReset
ScreenNext == Touches \/ Background \/ Serves \/ Disconnect
ScreenSpec == ScreenInit /\ [][ScreenNext]_svars

-----------------------------------------------------------------------------
Sum == [party : Sizes \cup {0}, benefit : Benefits \cup {0}]
Draft == [rev : Nat, party : Sizes \cup {0}]
\* The kiosk waits for one answer of a kind, and what it saves is what was
\* entered: no draft is newer than the form, no party unknown to the ticket.
TypeOK ==
  /\ gen \in 0..MaxGen /\ session \in {"none", "asked", "have"}
  /\ screen \in {"home", "party", "difficulty", "assigning", "form", "review", "payment", "help"}
  /\ {form, queue, drain} \subseteq Draft /\ {queue.rev, drain.rev} \subseteq 0..form.rev
  /\ shown.final \in Sum /\ \A g \in Gens : table[g].final \in Sum
  /\ tasks # <<>> => ticket = [party |-> tasks[Len(tasks)].party, status |-> "pending"]
  /\ \A m, n \in wire : m.awaited /\ n.awaited /\ m.kind = n.kind => m = n

\* Whatever is saved in the background, sent again or answered late: what a
\* checkout finds in the row is the party that was entered last and the sum
\* that the review shows, and the guidance has been agreed to.  (Of a visit
\* whose party or quote failed on the network and was served all the same
\* the kiosk cannot know.)
PaysWhatIsShown ==
  \A b \in bills :
    /\ b.agreed
    /\ b.of \notin lost => b.found = b.shown /\ b.found.party = b.entered

\* Once a visit has begun, the screen shows nothing of the one before.
ShowsOwnVisit == session # "none" => shown.of \in {0, gen}

\* What the kiosk shows is what it entered, what is paid, and nothing of another visit.
ScreenIsReal == TypeOK /\ PaysWhatIsShown /\ ShowsOwnVisit
=============================================================================
