----------------------------- MODULE MCRunRoute -----------------------------
(***************************************************************************)
(* Small instances of the server over the vault: two requests, a client    *)
(* with coin for one reservation, a price that leaves a surplus.  Either   *)
(* the requests spell the reservation's id in two ways, and it is for less *)
(* than the price or for more; or in one way, it may expire, and it is for *)
(* just the price; or in one way, without restarts, and it is for more     *)
(* than the server's numbers hold.                                         *)
(***************************************************************************)
EXTENDS RunRoute

CONSTANTS deployer, requester, agentKey, agent, otherAgent, r1, lower, upper

VARIABLE instance

MCAccounts == {deployer, requester, agentKey}
MCPayable == {requester, agentKey}
MCAgents == {agent, otherAgent}
MCAmounts == {1, 2, 3, 5, 7}
MCEndowment == [u \in Accounts |-> IF u = requester THEN 7 ELSE 0]
MCIdOf == [k \in Keys |-> r1]
MCSenders == {requester, deployer}
MCClients == {requester}

InstanceInit == RunInit /\ instance \in {"two spellings", "expiring", "huge"}

InstanceRuns(A) ==
    /\ A /\ UNCHANGED instance
    /\ \/ /\ instance = "two spellings"
          /\ blockTime' = 0 /\ reservations'[r1].expiresAt = 0
          /\ reservations'[r1].amount \in {0, 1, 3}
       \/ /\ instance = "expiring"
          /\ \A q \in Requests : body'[q].key # upper
          /\ reservations'[r1].amount \in {0, Price}
       \/ /\ instance = "huge"
          /\ \A q \in Requests : body'[q] \in {NoBody, [key |-> lower, requester |-> requester]}
          /\ restarts' = 0 /\ blockTime' = 0 /\ reservations'[r1].expiresAt = 0
          /\ reservations'[r1].amount \in {0, 5, 7}

InstanceVars == <<runVars, instance>>

InstanceSpec ==
    /\ InstanceInit /\ [][InstanceRuns(RunNext)]_InstanceVars
    /\ WF_InstanceVars(InstanceRuns(Mine))
    /\ \A q \in Requests : WF_InstanceVars(InstanceRuns(Handle(q)))

=============================================================================
