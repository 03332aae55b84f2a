----------------------------- MODULE MemberPass -----------------------------
(***************************************************************************)
(* Multi-use passes and the stamps that follow them: db/member-benefits.ts *)
(* next to the payments of the purchase.  A pass keeps a count of the uses *)
(* left; the ledger keeps every use, under a unique key, and every use     *)
(* given back.  A handler reads the pass, the ledger and the reservation   *)
(* and then writes one batch, which is atomic; the counter, the kiosks and *)
(* the payment engine run side by side.                                    *)
(*                                                                         *)
(* The code counts uses from the row it read, so two handlers of one pass  *)
(* may overwrite each other; `raced` names the passes that were written    *)
(* from a row that had changed, `late` the reservations whose stamps were. *)
(***************************************************************************)
EXTENDS Integers, FiniteSets, FiniteSetsExt

CONSTANTS
  Passes,     \* purchase orders, each of one pass
  Bought,     \* uses of a pass
  Games,      \* reservations of the member
  People,     \* participants of each
  Requests,   \* requests under way at once (a bound)
  MaxUses,    \* uses in the ledger (a bound)
  None

VARIABLES
  order,      \* pass_purchase_orders, with the reservation it takes credit from
  paid,       \* payments of the purchase: none, PAID, CANCELLED
  pass,       \* member_passes
  uses,       \* pass_ledger, type USE
  restored,   \* pass_ledger, type RESTORE: the uses given back
  game,       \* reservations: status, whether a payment plan exists and whether it is paid
  stamps,     \* stamp_ledger: EARN of each reservation, CANCEL and ADJUST of each use
  req,        \* requests under way
  raced, late

mvars == <<order, paid, pass, uses, restored, game, stamps, req, raced, late>>

Idle == [pc |-> "idle"]
NoPass == [status |-> "none", left |-> 0]

PassInit ==
  /\ order = [p \in Passes |-> [status |-> "none", credit |-> None, n |-> 0, linked |-> FALSE]]
  /\ paid = [p \in Passes |-> "none"]
  /\ pass = [p \in Passes |-> NoPass]
  /\ uses = {} /\ restored = {}
  /\ game = [g \in Games |-> [status |-> "booked", planned |-> FALSE, settled |-> FALSE]]
  /\ stamps = [earn |-> [g \in Games |-> 0], cancel |-> {}, adjust |-> {}]
  /\ req = [q \in Requests |-> Idle]
  /\ raced = {} /\ late = {}

-----------------------------------------------------------------------------
(* The ledger.                                                             *)

Total(S) == MapThenSumSet(LAMBDA u : u.n, S)
Active(S) == {u \in S : u.key \notin restored}
OfPass(p) == {u \in uses : u.pass = p}
OfGame(g) == {u \in uses : u.game = g}
AtCounter(S) == {u \in S : u.key[1] # "credit"}

\* Mutant of UseKey: every use has a key of its own.
UseKeyOwn(q, g) == <<"own", q, Cardinality(uses)>>
\* The n-th use of a reservation has the key of its number; a use of no
\* reservation has a key of its own.
UseKey(q, g) == IF g = None THEN <<"own", q, Cardinality(uses)>>
                ELSE <<"game", g, Cardinality(OfGame(g)) + 1>>
KeyFree(key) == \A u \in uses : u.key # key

\* A pass is written from the row `seen`: an update that finds another row
\* races the handler that wrote it.
Races(p, seen) == raced' = IF pass[p] = seen THEN raced ELSE raced \cup {p}

Begin(q, first) == req[q] = Idle /\ req' = [req EXCEPT ![q] = first]
Over(q) == req' = [req EXCEPT ![q] = Idle]
Dropped(q) ==
  /\ req[q] # Idle /\ Over(q)
  /\ UNCHANGED <<order, paid, pass, uses, restored, game, stamps, raced, late>>

-----------------------------------------------------------------------------
(* The purchase: createPassPurchaseOrder, the payment, and what the payment *)
(* engine then syncs.  A paid game may be turned into the first uses.       *)

Credited(g) == \E p \in Passes : order[p].credit = g /\ order[p].status # "CANCELLED"
OrderAsk(q, p, g, n) ==
  /\ order[p].status = "none"
  /\ g = None => n = 0
  /\ g # None => /\ n \in 1..Min({People[g], Bought})
                 /\ game[g].settled /\ game[g].status # "cancelled"
                 /\ ~Credited(g) /\ Active(OfGame(g)) = {}
  /\ Begin(q, [pc |-> "order", pass |-> p, game |-> g, n |-> n])
  /\ UNCHANGED <<order, paid, pass, uses, restored, game, stamps, raced, late>>
\* A reservation is credited once, whatever became of the order.
OrderWrite(q) ==
  /\ req[q].pc = "order" /\ order[req[q].pass].status = "none"
  /\ req[q].game # None => \A p \in Passes : order[p].credit # req[q].game
  /\ order' = [order EXCEPT ![req[q].pass] =
                 [status |-> "PENDING", credit |-> req[q].game, n |-> req[q].n, linked |-> FALSE]]
  /\ Over(q)
  /\ UNCHANGED <<paid, pass, uses, restored, game, stamps, raced, late>>

Pay(p) ==
  /\ order[p].status = "PENDING" /\ paid[p] = "none"
  /\ paid' = [paid EXCEPT ![p] = "PAID"]
  /\ UNCHANGED <<order, pass, uses, restored, game, stamps, req, raced, late>>
\* assertPassPurchaseRefundable is asked when the refund is requested; the
\* terminal answers later.
RefundAsk(p) ==
  /\ paid[p] = "PAID" /\ (order[p].linked => pass[p].left = Bought)
  /\ paid' = [paid EXCEPT ![p] = "refunding"]
  /\ UNCHANGED <<order, pass, uses, restored, game, stamps, req, raced, late>>
RefundAnswer(p, done) ==
  /\ paid[p] = "refunding"
  /\ paid' = [paid EXCEPT ![p] = IF done THEN "CANCELLED" ELSE "PAID"]
  /\ UNCHANGED <<order, pass, uses, restored, game, stamps, req, raced, late>>

\* syncPassPurchasePayment runs after every answer, so it may be repeated.
SyncAsk(q, p) ==
  /\ paid[p] \in {"PAID", "CANCELLED"}
  /\ Begin(q, [pc |-> "sync", pass |-> p, status |-> paid[p], linked |-> order[p].linked, seen |-> pass[p]])
  /\ UNCHANGED <<order, paid, pass, uses, restored, game, stamps, raced, late>>
Counted(n) == [status |-> IF n = 0 THEN "USED_UP" ELSE "ACTIVE", left |-> n]
SyncPaid(q) ==
  /\ req[q].pc = "sync" /\ req[q].status = "PAID"
  /\ LET p == req[q].pass
         key == <<"credit", p, 1>>
     IN  /\ pass' = IF pass[p] # NoPass THEN pass ELSE [pass EXCEPT ![p] = Counted(Bought - order[p].n)]
         /\ uses' = IF order[p].n = 0 \/ ~KeyFree(key) THEN uses
                    ELSE uses \cup {[key |-> key, pass |-> p, game |-> order[p].credit, n |-> order[p].n]}
         /\ order' = [order EXCEPT ![p].status = "PAID", ![p].linked = TRUE]
  /\ Over(q)
  /\ UNCHANGED <<paid, restored, game, stamps, raced, late>>
SyncCancelled(q) ==
  /\ req[q].pc = "sync" /\ req[q].status = "CANCELLED"
  /\ LET p == req[q].pass
         unused == req[q].linked => req[q].seen.left = Bought
     IN  /\ order' = [order EXCEPT ![p].status = IF unused THEN "CANCELLED" ELSE "REFUND_REVIEW"]
         /\ IF req[q].linked /\ unused
            THEN pass' = [pass EXCEPT ![p] = [status |-> "CANCELLED", left |-> 0]] /\ Races(p, req[q].seen)
            ELSE UNCHANGED <<pass, raced>>
  /\ Over(q)
  /\ UNCHANGED <<paid, uses, restored, game, stamps, late>>

-----------------------------------------------------------------------------
(* redeemMemberPass: reads the pass and the number of its use, then the    *)
(* reservation and what is already covered, then writes the batch.         *)

RedeemAsk(q, p, g, n) ==
  /\ pass[p].status = "ACTIVE" /\ n \in 1..pass[p].left
  /\ Begin(q, [pc |-> "redeem", pass |-> p, game |-> g, n |-> n, seen |-> pass[p], key |-> UseKey(q, g)])
  /\ UNCHANGED <<order, paid, pass, uses, restored, game, stamps, raced, late>>
RedeemCheck(q) ==
  /\ req[q].pc = "redeem"
  /\ LET g == req[q].game
     IN  g # None => /\ game[g].status # "cancelled" /\ ~game[g].planned
                     /\ Total(Active(OfGame(g))) + req[q].n <= People[g]
  /\ req' = [req EXCEPT ![q].pc = "use"]
  /\ UNCHANGED <<order, paid, pass, uses, restored, game, stamps, raced, late>>

\* Mutant of StampCut: the stamps stay.
StampCutNone(g, key, n) == stamps.cancel
\* The pass is updated if it still has that many uses; the use is booked, and
\* the stamps of the game are taken back, in any case.
StampCut(g, key, n) ==
  IF g = None \/ stamps.earn[g] = 0 THEN stamps.cancel
  ELSE stamps.cancel \cup {[key |-> key, game |-> g, n |-> Min({stamps.earn[g], n})]}
RedeemWrite(q) ==
  /\ req[q].pc = "use" /\ KeyFree(req[q].key) /\ Cardinality(uses) < MaxUses
  /\ LET p == req[q].pass
         g == req[q].game
         n == req[q].n
     IN  /\ pass' = IF pass[p].status = "ACTIVE" /\ pass[p].left >= n
                    THEN [pass EXCEPT ![p] = Counted(req[q].seen.left - n)] ELSE pass
         /\ Races(p, req[q].seen)
         /\ uses' = uses \cup {[key |-> req[q].key, pass |-> p, game |-> g, n |-> n]}
         /\ stamps' = [stamps EXCEPT !.cancel = StampCut(g, req[q].key, n)]
         /\ game' = IF g = None THEN game
                    ELSE [game EXCEPT ![g].settled = Total(AtCounter(Active(OfGame(g)))) + n >= People[g]]
  /\ Over(q)
  /\ UNCHANGED <<order, paid, restored, late>>

\* restorePassUse: the use is found not given back, later it is given back.
RestoreAsk(q, u) ==
  /\ u.key \notin restored /\ (u.game # None => ~game[u.game].planned)
  /\ Begin(q, [pc |-> "restore", use |-> u])
  /\ UNCHANGED <<order, paid, pass, uses, restored, game, stamps, raced, late>>

\* Mutant of GivesBack: a use may be given back again.
GivesBackAgain(u) == u \in uses
GivesBack(u) == u.key \notin restored
RestoreWrite(q) ==
  /\ req[q].pc = "restore" /\ GivesBack(req[q].use)
  /\ LET u == req[q].use
     IN  /\ pass' = [pass EXCEPT ![u.pass] = [status |-> IF @.status = "CANCELLED" THEN @.status ELSE "ACTIVE",
                                              left |-> Min({Bought, @.left + u.n})]]
         /\ restored' = restored \cup {u.key}
         /\ stamps' = IF \E c \in stamps.cancel : c.key = u.key
                      THEN [stamps EXCEPT !.adjust = @ \cup {u.key}] ELSE stamps
         /\ game' = IF u.game = None THEN game ELSE [game EXCEPT ![u.game].settled = FALSE]
  /\ Over(q)
  /\ UNCHANGED <<order, paid, uses, raced, late>>

-----------------------------------------------------------------------------
(* The game: its payment plan, its end, and the stamps it earns.           *)

Plan(g) ==
  /\ ~game[g].planned /\ game' = [game EXCEPT ![g].planned = TRUE]
  /\ UNCHANGED <<order, paid, pass, uses, restored, stamps, req, raced, late>>
\* Paid through its plan, or marked paid by the staff.
Settle(g) ==
  /\ ~game[g].settled /\ game' = [game EXCEPT ![g].settled = TRUE]
  /\ UNCHANGED <<order, paid, pass, uses, restored, stamps, req, raced, late>>
Finish(g, status) ==
  /\ game[g].status = "booked" /\ game' = [game EXCEPT ![g].status = status]
  /\ UNCHANGED <<order, paid, pass, uses, restored, stamps, req, raced, late>>
\* earnStampForCompletedReservation, once for each time it is completed.
EarnAsk(q, g) ==
  /\ game[g].status = "completed"
  /\ Begin(q, [pc |-> "earn", game |-> g, covered |-> Total(Active(OfGame(g)))])
  /\ UNCHANGED <<order, paid, pass, uses, restored, game, stamps, raced, late>>
EarnWrite(q) ==
  /\ req[q].pc = "earn"
  /\ LET g == req[q].game
         amount == Max({0, People[g] - req[q].covered})
     IN  IF stamps.earn[g] # 0 \/ amount = 0 THEN UNCHANGED <<stamps, late>>
         ELSE /\ stamps' = [stamps EXCEPT !.earn[g] = amount]
              /\ late' = IF Total(Active(OfGame(g))) = req[q].covered THEN late ELSE late \cup {g}
  /\ Over(q)
  /\ UNCHANGED <<order, paid, pass, uses, restored, game, raced>>

PassNext ==
  \/ \E q \in Requests :
       \/ \E p \in Passes : SyncAsk(q, p) \/ OrderAsk(q, p, None, 0)
       \/ \E p \in Passes, g \in Games, n \in 1..Bought : OrderAsk(q, p, g, n)
       \/ \E p \in Passes, g \in Games \cup {None}, n \in 1..Bought : RedeemAsk(q, p, g, n)
       \/ \E u \in uses : RestoreAsk(q, u)
       \/ \E g \in Games : EarnAsk(q, g)
       \/ OrderWrite(q) \/ SyncPaid(q) \/ SyncCancelled(q) \/ RedeemCheck(q) \/ RedeemWrite(q)
       \/ RestoreWrite(q) \/ EarnWrite(q) \/ Dropped(q)
  \/ \E p \in Passes : Pay(p) \/ RefundAsk(p) \/ \E done \in BOOLEAN : RefundAnswer(p, done)
  \/ \E g \in Games : Plan(g) \/ Settle(g) \/ \E status \in {"completed", "cancelled"} : Finish(g, status)
PassSpec == PassInit /\ [][PassNext]_mvars

-----------------------------------------------------------------------------
\* Orders, passes and ledgers hold what the handlers write; a count never
\* leaves its range, even when two handlers race.
PassTypeOK ==
  /\ \A p \in Passes :
       /\ order[p].status \in {"none", "PENDING", "PAID", "CANCELLED", "REFUND_REVIEW"}
       /\ pass[p].status \in {"none", "ACTIVE", "USED_UP", "CANCELLED"} /\ pass[p].left \in 0..Bought
  /\ \A u, w \in uses : u.key = w.key => u = w
  /\ restored \subseteq {u.key : u \in uses} /\ stamps.adjust \subseteq restored

\* The count of a pass and its ledger agree, so that a use is given back at
\* most once and a refund finds a pass nobody used, although every handler
\* may be repeated or run next to another; the exception is a pass that a
\* use or a refund wrote from a row that had changed since it was read.
PassBalanced ==
  \A p \in Passes \ raced :
    LET used == Total(Active(OfPass(p)))
    IN  CASE pass[p].status = "none" -> used = 0
          [] pass[p].status = "CANCELLED" -> used = 0
          [] OTHER -> pass[p].left = Bought - used

\* The counter never covers more people of a reservation than it has
\* (MEMBER_PASS_USES_EXCEED_PEOPLE), also when two passes are used for it at
\* once and uses are given back meanwhile: the key of the use is its number.
PeopleCoveredOnce ==
  \A g \in Games : Total(AtCounter(Active(OfGame(g)))) <= People[g]

\* A game never keeps stamps for people a pass was used for: a use takes back
\* what was earned, and giving the use back restores it at most once; the
\* exception is an earning that met a use it had not read.
StampsForPayers ==
  \A g \in Games \ late :
    LET lost == {c \in stamps.cancel : c.game = g /\ c.key \notin stamps.adjust}
    IN  stamps.earn[g] - Total(lost) <= People[g] - Total(AtCounter(Active(OfGame(g))))
=============================================================================
