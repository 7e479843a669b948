------------------------------- MODULE Trade --------------------------------
(***************************************************************************)
(* The object registry, the marketplace and the escrow on one chain: the   *)
(* two contracts move the same objects with approvals their owners give    *)
(* and withdraw on their own, and the same accounts pay and are paid.      *)
(***************************************************************************)
EXTENDS ECONMarketplace, ECONEscrow

tradeVars == <<wallets, blockTime, objectVars, marketVars, escrowVars>>

TradeInit == ChainInit /\ ObjectInit /\ MarketInit /\ EscrowInit

Transaction(caller) ==
    \/ ObjectCall(caller) /\ UNCHANGED <<wallets, marketVars, escrowVars>>
    \/ MarketCall(caller) /\ UNCHANGED escrowVars
    \/ EscrowCall(caller) /\ UNCHANGED marketVars

TradeNext ==
    \/ \E caller \in Accounts : Transaction(caller) /\ UNCHANGED blockTime
    \/ Advance /\ UNCHANGED <<objectVars, marketVars, escrowVars>>

TradeSpec == TradeInit /\ [][TradeNext]_tradeVars

-----------------------------------------------------------------------------
(* Properties                                                              *)

TradeTypeOK == ChainTypeOK /\ ObjectTypeOK /\ MarketTypeOK /\ EscrowTypeOK

\* Accounts, marketplace and escrow exchange coin and make none.
CoinConserved == Total(wallets) + marketEther + escrowEther = Total(Endowment)

\* An object changes hands in three ways only: it is transferred by its owner
\* or somebody the present owner approved, and no contract is involved; or a
\* listing that this owner made closes and this owner is paid its price; or an
\* escrow in which this owner is the seller is released and pays.  No stale
\* listing, left-over approval or reused id moves it otherwise.
MovedByRight ==
    [][\A id \in Objects, to \in Addresses :
          LET from == OwnerOf(id)
          IN  from \notin {NoAddress, to} /\ OwnerOf(id)' = to =>
                 \/ /\ \E spender \in Accounts : transferObject(spender, id, to)
                    /\ UNCHANGED <<wallets, listings, escrows>>
                 \/ Sold(id, from, to)
                 \/ \E e \in Escrows :
                       /\ escrows[e].linkedObjectId = id
                       /\ escrows[e].status = "DELIVERED"
                       /\ escrows'[e].status = "RELEASED"
                       /\ escrows[e].buyer = to
                       /\ Exchanged(e)]_tradeVars

=============================================================================
