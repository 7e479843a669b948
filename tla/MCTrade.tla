------------------------------ MODULE MCTrade ------------------------------
(***************************************************************************)
(* Small instances of the three contracts on one chain: the registry with  *)
(* a busy marketplace, with a busy escrow, and with a little of both.      *)
(***************************************************************************)
EXTENDS Trade

CONSTANTS zero, alice, bob, marketAddress, escrowAddress, registry, l1, l2,
          e1, e2

VARIABLE floor    \* which of the instances

MCEndowment == [u \in Accounts |-> 200]

\* Ids are used in order, whichever instance it is.
InOrder ==
    /\ listings'[l2] # NoListing => listings'[l1] # NoListing
    /\ escrows'[e2] # NoEscrow => escrows'[e1] # NoEscrow

\* Things cost 150; who buys may send more, and gets it back.
Cost == 150
Priced ==
    /\ \A l \in Listings : listings'[l].price \in {0, Cost}
    /\ \A e \in Escrows : escrows'[e].amount \in {0, Cost}

\* Who is approved.
Approve(single, forAll) ==
    /\ \A id \in Objects : objectApprovals'[id] \in single \cup {NoAddress}
    /\ \A a \in Accounts : operatorApprovals'[a] \subseteq forAll
\* Objects are active for good.
Plain == \A id \in Objects : objects'[id].status = "ACTIVE" /\ objects'[id].expiry = 0

MarketFloor ==
    /\ floor = "market" /\ MarketNext /\ UNCHANGED escrowVars
    /\ Approve({marketAddress}, {marketAddress}) /\ blockTime' <= 1
EscrowFloor ==
    /\ floor = "escrow" /\ EscrowNext /\ UNCHANGED marketVars
    /\ Approve({escrowAddress}, {escrowAddress}) /\ Plain
    /\ escrows'[e2].buyer # alice /\ escrows'[e2].seller \notin Contracts
    /\ \A id \in Objects : objects'[id].owner # NoAddress =>
                                objects'[id].transferable
BothFloors ==
    /\ floor = "both" /\ TradeNext
    /\ listings'[l2] = NoListing /\ escrows'[e2] = NoEscrow
    /\ Approve({marketAddress, escrowAddress}, {marketAddress}) /\ Plain
    /\ blockTime' <= 1

FloorInit == TradeInit /\ floor \in {"market", "escrow", "both"}
FloorNext ==
    /\ MarketFloor \/ EscrowFloor \/ BothFloors
    /\ InOrder /\ Priced /\ UNCHANGED floor
FloorSpec == FloorInit /\ [][FloorNext]_<<tradeVars, floor>>

=============================================================================
