--------------------------- MODULE MCRecoveryScan ---------------------------
(***************************************************************************)
(* A disk with every right, a pass that can only be given back and that    *)
(* has just expired, two agents and two policies of which one forbids      *)
(* transfers.                                                              *)
(***************************************************************************)
EXTENDS RecoveryScan

CONSTANTS alice, bob, disk, pass

Open == [maxPerTransaction |-> 900000, dailySpendingLimit |-> 900000,
         minRetainedBalance |-> 0, requireApprovalAbove |-> 900000,
         allowedObjects |-> Objects, autoRecoveryEnabled |-> TRUE,
         autoTransferEnabled |-> TRUE]
Manual == [Open EXCEPT !.autoTransferEnabled = FALSE]
MCPolicies == {Open, Manual}

MCEndowment == [a \in Registered |-> 4000000]
MCOwner == [o \in Objects |-> alice]
MCTerms == [o \in Objects |->
    IF o = disk
    THEN [quantity |-> 82, expiry |-> 2, projected |-> 17, rate |-> 0,
          burn |-> NoHistory, obligations |-> 0, transferability |-> "YES",
          refundability |-> "YES", sellability |-> "YES"]
    ELSE [quantity |-> 20, expiry |-> 1, projected |-> 0, rate |-> 1,
          burn |-> NoHistory, obligations |-> 0, transferability |-> "NO",
          refundability |-> "YES", sellability |-> "NO"]]
NoSeeds == [e \in {} |-> NoRecord]

=============================================================================
