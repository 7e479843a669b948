--------------------------- MODULE CreditCustody ---------------------------
(***************************************************************************)
(* What a credit vault promises, with no accounts, controllers or clocks:  *)
(* value is either free, held by a reservation, or gone for good (charged  *)
(* to a reservation, or pooled).  A reservation is held once, and closed   *)
(* once; closing it splits its stake and touches no other reservation.     *)
(* ECONCreditVault implements this.                                        *)
(***************************************************************************)
EXTENDS Naturals

CONSTANTS ReservationIds, Amounts

VARIABLES
    stage,    \* id -> "unused", "held", "settled" or "released"
    stake,    \* id -> the amount it was made for, 0 if it was not
    charge,   \* id -> what its settlement consumed
    free,     \* the sum of what users can withdraw
    pool      \* the sum of what was recycled

vars == <<stage, stake, charge, free, pool>>

Init ==
    /\ stage = [id \in ReservationIds |-> "unused"]
    /\ stake = [id \in ReservationIds |-> 0]
    /\ charge = [id \in ReservationIds |-> 0]
    /\ free = 0
    /\ pool = 0

Fund ==
    /\ \E amount \in Amounts : free' = free + amount
    /\ UNCHANGED <<stage, stake, charge, pool>>

Withdraw ==
    /\ \E amount \in Amounts : amount <= free /\ free' = free - amount
    /\ UNCHANGED <<stage, stake, charge, pool>>

\* The stake comes out of free credit, or from outside with the call.
Hold(id, amount) ==
    /\ stage[id] = "unused"
    /\ amount > 0
    /\ stage' = [stage EXCEPT ![id] = "held"]
    /\ stake' = [stake EXCEPT ![id] = amount]
    /\ \/ amount <= free /\ free' = free - amount
       \/ UNCHANGED free
    /\ UNCHANGED <<charge, pool>>

Settle(id, consumed) ==
    /\ stage[id] = "held"
    /\ consumed <= stake[id]
    /\ stage' = [stage EXCEPT ![id] = "settled"]
    /\ charge' = [charge EXCEPT ![id] = consumed]
    /\ free' = free + (stake[id] - consumed)
    /\ UNCHANGED <<stake, pool>>

\* The whole stake goes back, or the whole stake goes to the pool.
Release(id) ==
    /\ stage[id] = "held"
    /\ stage' = [stage EXCEPT ![id] = "released"]
    /\ \/ free' = free + stake[id] /\ UNCHANGED pool
       \/ pool' = pool + stake[id] /\ UNCHANGED free
    /\ UNCHANGED <<stake, charge>>

Next ==
    \/ Fund
    \/ Withdraw
    \/ \E id \in ReservationIds, amount \in Amounts :
          Hold(id, amount) \/ Settle(id, amount)
    \/ \E id \in ReservationIds : Release(id)

Spec == Init /\ [][Next]_vars

=============================================================================
