--------------------------- MODULE EconomicEngine ---------------------------
(***************************************************************************)
(* src/sdk/engine.ts: a purchase is checked against the buyer's policy,    *)
(* recorded, paid and, in a second request, delivered.  The engine holds   *)
(* no lock between the check and the two answers.                          *)
(***************************************************************************)
EXTENDS Settlement, PolicyEngine

buyCall(buyer, seller, o, amount) ==
    [op |-> "buy", at |-> "start", result |-> "none", buyer |-> buyer,
     whom |-> buyer, seller |-> seller, object |-> o, amount |-> amount]

\* Purchases keep the day they were created.
SetTransaction(c, call, status) ==
    transactions' = [transactions EXCEPT ![c] =
        [buyer |-> call.buyer, amount |-> call.amount, day |-> Today(tick),
         status |-> status]]

\* buy up to the payment: refused by the policy, or recorded as pending and
\* sent off.
buy(c, buyer, seller, o, amount) ==
    LET call == buyCall(buyer, seller, o, amount)
    IN  /\ IsNew(c)
        /\ IF validateTransaction(buyer, amount, o) = {}
           THEN /\ SetTransaction(c, call, "PENDING")
                /\ transfer(c, call, "paying", buyer, seller, amount)
           ELSE /\ SetTransaction(c, call, "BLOCKED_BY_POLICY")
                /\ Return(c)
                /\ UNCHANGED <<balances, payments>>
        /\ UNCHANGED <<policies, objects, records, tick, adapter, switches,
                       chainEscrows, chainOwner, releases>>

\* The payment failed.
BuyFails(c) ==
    /\ IsAt(c, "buy", "paying") /\ calls[c].result = "failed"
    /\ SetStatus(c, "FAILED")
    /\ Return(c)
    /\ UNCHANGED <<balances, policies, objects, records, tick, settleVars>>

\* The payment was made: the object is asked for.
BuyDeliversUnpaid(c) ==
    LET call == calls[c]
    IN  /\ IsAt(c, "buy", "paying") /\ Answered(c)
        /\ transferEconomicObject(c, call, "moving", call.object, call.seller,
                                  call.buyer)
        /\ UNCHANGED <<balances, policies, records, transactions, tick,
                       settleVars>>
BuyDelivers(c) ==
    LET call == calls[c]
    IN  /\ IsAt(c, "buy", "paying") /\ call.result = "ok"
        /\ transferEconomicObject(c, call, "moving", call.object, call.seller,
                                  call.buyer)
        /\ UNCHANGED <<balances, policies, records, transactions, tick,
                       settleVars>>

\* If the object could not be had, the store is told that the buyer owns it.
BuySettles(c) ==
    LET call == calls[c]
    IN  /\ IsAt(c, "buy", "moving") /\ Answered(c)
        /\ IF call.result = "failed"
           THEN UpdateObject(call.object, "ACTIVE", call.buyer)
           ELSE UNCHANGED objects
        /\ SetStatus(c, "SETTLED")
        /\ Return(c)
        /\ UNCHANGED <<balances, policies, records, tick, settleVars>>

BuyResumes(c) == BuyFails(c) \/ BuyDelivers(c) \/ BuySettles(c)

=============================================================================
