--------------------------- MODULE MC_CloudPayments ---------------------------
(***************************************************************************)
(* Instances of CloudPayments for TLC, and a specification of two of them: *)
(* `part` is the payment that a behaviour is about, with the requests that *)
(* the screens make of it, or "shared": two payments that compete for the  *)
(* terminal, with fewer requests, any of which may die, and the            *)
(* cancellations.                                                          *)
(***************************************************************************)
EXTENDS CloudPayments, TLC

VARIABLE part

Pay(amount, method) == [amount |-> amount, method |-> method]

OneCard == {<<Pay(2, "card")>>}

CashThenCard == {<<Pay(1, "cash"), Pay(1, "card")>>}

Symmetry == Permutations(ApiWorkers) \cup Permutations(RequestKeys)
               \cup Permutations(Payments)

-----------------------------------------------------------------------------

Screens(w) ==
    /\ ApiRequest(w)
    /\ IF part = "shared" THEN req'[w].op \in {"none", "prepare", "start", "cancel"}
       ELSE req'[w].payment \in {part, NoPayment} /\ req'[w].op \notin {"start", "cancel"}

PartInit == Init /\ part \in Payments \cup {"shared"}

PartNext ==
    /\ UNCHANGED part
    /\ \/ \E w \in ApiWorkers : Screens(w)
       \/ \E w \in AckWorkers, c \in Ids, r \in Results :
              (r # IF part = "shared" THEN "EXCEPTION" ELSE "CANCELLED") /\ AckFinalize(w, c, r)
       \/ \E w \in Workers : RequestStep(w) \/ Respond(w) \/ (part = "shared" /\ Abort(w))
       \/ \E c \in Ids : Queue(c)

PartSpec == PartInit /\ [][PartNext]_<<vars, part>>

=============================================================================
