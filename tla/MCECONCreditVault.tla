------------------------- MODULE MCECONCreditVault -------------------------
(***************************************************************************)
(* Small instances of the credit vault for TLC: the deployer, a requester  *)
(* and an agent's signing key that has no coin of its own.                 *)
(***************************************************************************)
EXTENDS ECONCreditVault

LOCAL INSTANCE Functions

CONSTANTS deployer, requester, agentKey, agent

MCAccounts == {deployer, requester, agentKey}
MCPayable == {requester, agentKey}
MCAgents == {agent}
MCAmounts == 0..2
MCExpiries == 0..1
MCEndowment == [u \in Accounts |-> IF u = requester THEN 2 ELSE 0]

\* Counting units is summing entries.
ASSUME TotalIsSum ==
    \A f \in [1..3 -> 0..3] :
        Total(f) = FoldFunction(LAMBDA x, sum : x + sum, 0, f)

=============================================================================
