----------------------------- MODULE MCEconomy ------------------------------
(***************************************************************************)
(* A small economy for TLC: amounts are in units of 0.00001 MON.           *)
(***************************************************************************)
EXTENDS AgentRuntime

CONSTANTS alice, bob, carol, disk, e1

Strict == [maxPerTransaction |-> 600, dailySpendingLimit |-> 700,
           minRetainedBalance |-> 300, requireApprovalAbove |-> 200,
           allowedObjects |-> Objects, autoRecoveryEnabled |-> TRUE,
           autoTransferEnabled |-> TRUE]
Closed == [Strict EXCEPT !.allowedObjects = {}, !.minRetainedBalance = 900]

TwoPolicies == {Strict, Closed}
MCEndowment == [a \in Registered |-> IF a = alice THEN 1000 ELSE 300]
MCOwner == [o \in Objects |-> bob]
MCCapabilities ==
    [a \in Registered |-> IF a = alice
                          THEN {"canPurchaseServices", "canUseEscrow"} ELSE {}]
MCSeededEscrow ==
    [e \in Seeded |-> [buyer |-> alice, seller |-> carol, amount |-> 200,
                       status |-> "LOCKED", hashIsHex |-> FALSE]]

=============================================================================
