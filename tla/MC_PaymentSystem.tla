--------------------------- MODULE MC_PaymentSystem ---------------------------
(***************************************************************************)
(* Payments from the order to the day's figures, in four small systems;    *)
(* `part` says which one a behaviour is of, and the others stay unused.    *)
(*   system  cloud, bridge and terminal, as PaymentSystem says             *)
(*   till    every correction of a payment, from one screen                *)
(*   tills   corrections from two screens                                  *)
(*   sale    drinks and socks on their own, beside a game and beside two   *)
(***************************************************************************)
EXTENDS PaymentSystem, TLC

CONSTANTS t1, t2, a1, a2, slip1, slip2

VARIABLES
  part,
  people, edits, paper, made, rows, till, terminal, charged, joined, unmarked, lowered,   \* till, tills
  kind, deposit, sale, addOn, sum, portions, refunded, bill, plans     \* sale

tillTables == <<people, edits, paper, made, rows, till, terminal, charged, joined, unmarked, lowered>>
saleTables == <<kind, deposit, sale, addOn, sum, portions, refunded, bill, plans>>
all == <<part, systemVars, tillTables, saleTables>>

Pay(amount, method) == [amount |-> amount, method |-> method]
OneCard == {<<Pay(2, "card")>>}

Single == INSTANCE TillCorrections WITH
  Tills <- {t1}, Party <- 1, MaxParty <- 5, TopUps <- a1 :> 2 @@ a2 :> 1, Slips <- slip1 :> 1 @@ slip2 :> 1,
  Operations <- {"prepare", "process", "retry", "refund", "topup", "slip", "unlink", "delete"},
  MaxParts <- 2, MaxRows <- 3, MaxEdits <- 1, MaxPayments <- 2, payment <- paper
Pair == INSTANCE TillCorrections WITH
  Tills <- {t1, t2}, Party <- 1, MaxParty <- 3, TopUps <- a1 :> 1, Slips <- slip1 :> 1,
  Operations <- {"prepare", "process", "retry", "refund", "topup", "slip", "unlink"},
  MaxParts <- 2, MaxRows <- 3, MaxEdits <- 1, MaxPayments <- 1, payment <- paper

Sold(slush, beverage, other) == "slush" :> slush @@ "beverage" :> beverage @@ "other" :> other
Shop == INSTANCE AddOnSales WITH
  Kinds <- {"alone", "attached", "group"}, GamePrice <- 2, Deposits <- {0, 1},
  Sales <- {Sold(0, 0, 0), Sold(1, 0, 1), Sold(0, 1, 0)}, MaxParts <- 2, MaxPlans <- 2,
  order <- sale, payment <- sum, parts <- portions

NoTill == /\ people = 0 /\ edits = 0 /\ paper = 0 /\ made = 0 /\ rows = 0 /\ till = 0
          /\ terminal = 0 /\ charged = 0 /\ joined = 0 /\ unmarked = 0 /\ lowered = 0
NoSale == /\ kind = 0 /\ deposit = 0 /\ sale = 0 /\ addOn = 0 /\ sum = 0 /\ portions = 0
          /\ refunded = 0 /\ bill = 0 /\ plans = 0

PartInit ==
  /\ SystemInit
  /\ \/ part = "system" /\ NoTill /\ NoSale
     \/ part = "till" /\ Single!TillInit /\ NoSale
     \/ part = "tills" /\ Pair!TillInit /\ NoSale
     \/ part = "sale" /\ Shop!SaleInit /\ NoTill
PartNext ==
  /\ UNCHANGED part
  /\ \/ part = "system" /\ SystemNext /\ UNCHANGED <<tillTables, saleTables>>
     \/ part = "till" /\ Single!TillNext /\ UNCHANGED <<systemVars, saleTables>>
     \/ part = "tills" /\ Pair!TillNext /\ UNCHANGED <<systemVars, saleTables>>
     \/ part = "sale" /\ Shop!SaleNext /\ UNCHANGED <<systemVars, tillTables>>
PartSpec == PartInit /\ [][PartNext]_all

\* Request keys are alike.
Symmetry == Permutations(RequestKeys)

\* Corrections of a payment keep slips, people and money together.
TillsAgree ==
  /\ part = "till" => Single!TillsAgree
  /\ part = "tills" => Pair!TillsAgree
\* The day's figures count what was paid once and in its place.
SalesAddUp == part = "sale" => Shop!SalesAddUp
=============================================================================
