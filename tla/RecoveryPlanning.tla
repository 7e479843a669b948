-------------------------- MODULE RecoveryPlanning --------------------------
(***************************************************************************)
(* The garbage collector's judgement of an object (src/sdk/egc and         *)
(* garbageCollector.ts): what its owner will still need of it, whether the *)
(* rest is stranded, what may be done with it, what each way to recover it *)
(* is worth, and which one to propose.  Everything here reads the store.   *)
(***************************************************************************)
EXTENDS PolicyEngine

CONSTANTS
    Terms,         \* object -> what it was bought with
    Late           \* the agents that are inactive at first

Strategies == {"KEEP", "SELL", "TRANSFER", "REFUND"}
Entitlement == {"YES", "NO", "UNKNOWN"}

\* expiry is a tick; burn and rate are units an hour, burn the one that three
\* or more recorded uses give, NoHistory if there are fewer.
NoHistory == -1
ASSUME PlanningAssumption ==
    /\ Terms \in [Objects ->
          [quantity : Nat \ {0}, expiry : Nat \ {0}, projected : Nat,
           rate : Nat, burn : Nat \cup {NoHistory}, obligations : Nat,
           transferability : Entitlement, refundability : Entitlement,
           sellability : Entitlement]]
    /\ Late \subseteq Registered

VARIABLES
    goods,         \* object -> how much is consumed, what it is worth
    active         \* the agents that take part

HoursLeft(o) == Max({0, HoursPerTick * (Terms[o].expiry - tick)})
Remaining(o) == Max({0, Terms[o].quantity - goods[o].consumed})

\* forecast: measured use, else the configured rate, else the projection.
Confidence(o) == CASE Terms[o].burn # NoHistory -> "HIGH"
                   [] Terms[o].burn = NoHistory /\ Terms[o].rate > 0 -> "MEDIUM"
                   [] OTHER -> "LOW"

forecast(o) ==
    CASE Confidence(o) = "HIGH" -> Terms[o].burn * HoursLeft(o)
      [] Confidence(o) = "MEDIUM" ->
            Min({Terms[o].quantity,
                 Max({Terms[o].projected, Terms[o].rate * HoursLeft(o)})})
      [] Confidence(o) = "LOW" -> Terms[o].projected

Need(o) == Min({Remaining(o), forecast(o)})
Surplus(o) == Remaining(o) - Need(o)

\* detect.
Done(o) == objects[o].status \in {"RECOVERED", "LIQUIDATED"}
IsStranded(o) ==
    /\ ~Done(o) /\ objects[o].status # "EXPIRED" /\ Surplus(o) > 0
    /\ \/ objects[o].status = "STRANDED"
       \/ HoursLeft(o) < 48 /\ 10 * Terms[o].rate < Remaining(o)
       \/ Confidence(o) = "HIGH" /\ 10 * Surplus(o) > 3 * Terms[o].quantity

-----------------------------------------------------------------------------
(* Eligibility                                                             *)

\* The checks before the entitlements: a reason each to refuse everything.
Barred(o, owner) ==
    \/ Done(o)
    \/ objects[o].owner # owner
    \/ tick >= Terms[o].expiry
    \/ Remaining(o) = 0
    \/ Terms[o].obligations > 0

CanMove(o) == Terms[o].transferability = "YES"
CanBeSold(o) == CanMove(o) /\ Terms[o].sellability = "YES"
CanBeRefunded(o) == Terms[o].refundability = "YES"

\* evaluate: nothing is inferred from an unknown transferability.
IsEligible(o, owner) ==
    /\ ~Barred(o, owner)
    /\ Terms[o].transferability # "UNKNOWN"
    /\ CanMove(o) \/ CanBeRefunded(o)

-----------------------------------------------------------------------------
(* Valuation: net proceeds, in the units of the store                      *)

Percent(amount, p) == (amount * p) \div 100
RecoveryFeePercent == 5
MarketplaceFeePercent == 1
Gas == 20

AfterRecoveryFee(amount) == Percent(amount, 100 - RecoveryFeePercent)
AfterMarketplaceFee(amount) ==
    amount - RoundMilli(Percent(amount, MarketplaceFeePercent))

\* Values of a part of the object.
PartOf(o, units) ==
    RoundMilli((goods[o].value * units) \div Max({1, Remaining(o)}))

Haircut(o, p) == RoundMilli(Percent(PartOf(o, Surplus(o)), p))
AfterGas(amount) == Max({0, RoundMilli(amount - Gas)})

Peers(owner) == active \ {owner}

Unavailable == -1

\* evaluateValuations: an entitlement decides, not whether the object is
\* eligible.
Valuation(o, strategy) ==
    CASE strategy = "KEEP" -> PartOf(o, Need(o))
      [] strategy = "SELL" /\ CanBeSold(o) ->
            AfterGas(AfterMarketplaceFee(
                Haircut(o, IF HoursLeft(o) < 12 THEN 65 ELSE 82)))
      [] strategy = "TRANSFER" /\ CanMove(o) /\ Peers(objects[o].owner) # {} ->
            AfterGas(AfterRecoveryFee(Haircut(o, 92)))
      [] strategy = "REFUND" /\ CanBeRefunded(o) ->
            AfterRecoveryFee(Haircut(o, 75))
      [] OTHER -> Unavailable

\* generateRecommendation: the best one, if it is better than keeping the
\* object; of equals a transfer before a sale before a refund.
Recommended(o) ==
    LET net == [strategy \in Strategies |-> Valuation(o, strategy)]
        IsBest(strategy) == /\ net[strategy] > net["KEEP"]
                            /\ \A other \in Strategies :
                                  net[strategy] >= net[other]
    IN  IF IsBest("TRANSFER") THEN "TRANSFER"
        ELSE IF IsBest("SELL") THEN "SELL"
        ELSE IF IsBest("REFUND") THEN "REFUND"
        ELSE "KEEP"

\* A buyout is proposed to the richest of the other agents.
IsRichest(buyer, owner) ==
    /\ buyer \in Peers(owner)
    /\ \A peer \in Peers(owner) : balances[peer] <= balances[buyer]

=============================================================================
