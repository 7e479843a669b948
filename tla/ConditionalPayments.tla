------------------------ MODULE ConditionalPayments ------------------------
(***************************************************************************)
(* What an escrow promises, with no objects, deadlines or authorities: a   *)
(* payment is made once, its terms do not change, and its stake leaves     *)
(* once: to the payee, after delivery, or back to the payer, before.       *)
(***************************************************************************)
EXTENDS Naturals

CONSTANTS
    Payments,
    Amounts,
    Parties,     \* the pairs of payer and payee
    NoParties

VARIABLES
    stage,    \* payment -> "open", "held", "delivered", "paid" or "returned"
    stake,    \* payment -> what it holds or held
    parties,  \* payment -> its payer and payee
    held      \* the sum of what is held

vars == <<stage, stake, parties, held>>

Init ==
    /\ stage = [p \in Payments |-> "open"]
    /\ stake = [p \in Payments |-> 0]
    /\ parties = [p \in Payments |-> NoParties]
    /\ held = 0

Move(p, from, to) == stage[p] = from /\ stage' = [stage EXCEPT ![p] = to]

Make(p) ==
    /\ Move(p, "open", "held")
    /\ \E amount \in Amounts :
          /\ amount > 0
          /\ stake' = [stake EXCEPT ![p] = amount]
          /\ held' = held + amount
    /\ \E pair \in Parties : parties' = [parties EXCEPT ![p] = pair]

Deliver(p) == Move(p, "held", "delivered") /\ UNCHANGED <<stake, parties, held>>

Pay(p) ==
    /\ Move(p, "delivered", "paid")
    /\ held' = held - stake[p]
    /\ UNCHANGED <<stake, parties>>

Return(p) ==
    /\ Move(p, "held", "returned")
    /\ held' = held - stake[p]
    /\ UNCHANGED <<stake, parties>>

Next ==
    \E p \in Payments : Make(p) \/ Deliver(p) \/ Pay(p) \/ Return(p)

Spec == Init /\ [][Next]_vars

=============================================================================
