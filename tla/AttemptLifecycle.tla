--------------------------- MODULE AttemptLifecycle ---------------------------
(***************************************************************************)
(* What the payment attempts promise the till: each row is planned, goes to *)
(* the one card terminal or is booked, and ends settled, failed or unknown. *)
(* A settled row stays settled, an unknown one keeps the terminal until an  *)
(* operator settles it, and nobody else is at the terminal meanwhile.       *)
(*                                                                          *)
(* CloudPayments implements this specification (Lifecycle!Spec).            *)
(***************************************************************************)
CONSTANT Rows

VARIABLE stage

Stages == {"absent", "planned", "in_flight", "settled", "failed", "unknown"}

AtTerminal == {a \in Rows : stage[a] \in {"in_flight", "unknown"}}

Init == stage = [a \in Rows |-> "absent"]

(* A plan adds rows and drops rows that have not run or have failed. *)
Plan(added, dropped) ==
    /\ \A a \in added : stage[a] = "absent"
    /\ \A a \in dropped : stage[a] \in {"planned", "failed"}
    /\ stage' = [a \in Rows |-> IF a \in added THEN "planned"
                                ELSE IF a \in dropped THEN "failed" ELSE stage[a]]

Dispatch(a) ==
    /\ stage[a] \in {"absent", "planned"}
    /\ AtTerminal = {}
    /\ stage' = [stage EXCEPT ![a] = "in_flight"]

(* Cash is taken, or given back. *)
Book(a) ==
    /\ stage[a] \in {"absent", "planned"}
    /\ stage' = [stage EXCEPT ![a] = "settled"]

Answer(a, outcome) ==
    /\ stage[a] = "in_flight"
    /\ stage' = [stage EXCEPT ![a] = outcome]

Reconcile(a) ==
    /\ stage[a] = "unknown"
    /\ stage' = [stage EXCEPT ![a] = "settled"]

Next ==
    \/ \E added, dropped \in SUBSET Rows : Plan(added, dropped)
    \/ \E a \in Rows :
          \/ Dispatch(a) \/ Book(a) \/ Reconcile(a)
          \/ \E outcome \in {"settled", "failed", "unknown"} : Answer(a, outcome)

Spec == Init /\ [][Next]_stage

=============================================================================
