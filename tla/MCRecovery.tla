----------------------------- MODULE MCRecovery -----------------------------
(***************************************************************************)
(* Two agents, one object, two plans: small enough for TLC, and with terms *)
(* that make each strategy the best one at some time.                      *)
(***************************************************************************)
EXTENDS Recovery

CONSTANTS alice, bob, disk, pass

Open == [maxPerTransaction |-> 900000, dailySpendingLimit |-> 900000,
         minRetainedBalance |-> 0, requireApprovalAbove |-> 500000,
         allowedObjects |-> Objects, autoRecoveryEnabled |-> TRUE,
         autoTransferEnabled |-> TRUE]
Manual == [Open EXCEPT !.autoTransferEnabled = FALSE]

OnePolicy == {Open}
MCEndowment == [a \in Registered |-> 1000000]
MCOwner == [o \in Objects |-> alice]
\* A disk to sell, and a pass that can only be given back.
MCTerms == [o \in Objects |->
    IF o = disk
    THEN [quantity |-> 10, expiry |-> 1, projected |-> 2, rate |-> 0,
          burn |-> NoHistory, obligations |-> 0, transferability |-> "YES",
          refundability |-> "NO", sellability |-> "YES"]
    ELSE [quantity |-> 20, expiry |-> 2, projected |-> 0, rate |-> 1,
          burn |-> NoHistory, obligations |-> 0, transferability |-> "NO",
          refundability |-> "YES", sellability |-> "NO"]]
NoSeeds == [e \in {} |-> NoRecord]

=============================================================================
