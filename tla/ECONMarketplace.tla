-------------------------- MODULE ECONMarketplace --------------------------
(***************************************************************************)
(* contracts/ECONMarketplace.sol: an owner lists an object it has let the  *)
(* marketplace move; a buyer's transaction moves the object to the buyer   *)
(* and the price to the seller, less a fee.  The object stays with its     *)
(* owner while it is listed, and may be moved, sold or changed meanwhile.  *)
(***************************************************************************)
EXTENDS ECONEconomicObject, Sequences

CONSTANTS
    Market,        \* the address of this contract
    Listings,      \* listing ids
    ZeroId,        \* listing id 0
    FeeRecipients  \* the addresses setFeeRecipient is called with

ASSUME MarketAssumption ==
    /\ Market \in Contracts
    /\ FeeRecipients \subseteq Accounts \cup Contracts \cup {NoAddress}

VARIABLES
    listings,      \* listing id -> the Listing struct
    allListingIds, \* the ids, in the order they were listed
    feeRecipient,
    marketEther    \* address(this).balance

marketVars == <<listings, allListingIds, feeRecipient, marketEther>>

Listing ==
    [objectId : Objects \cup {"none"}, seller : Addresses \cup {NoAddress},
     price : Nat, active : BOOLEAN]

NoListing == [objectId |-> "none", seller |-> NoAddress, price |-> 0,
              active |-> FALSE]

\* The deployer is the first fee recipient.
MarketInit ==
    /\ listings = [l \in Listings |-> NoListing]
    /\ allListingIds = <<>>
    /\ feeRecipient = Owner
    /\ marketEther = 0

MarketTypeOK ==
    /\ listings \in [Listings -> Listing]
    /\ allListingIds \in Seq(Listings)
    /\ feeRecipient \in Addresses
    /\ marketEther \in Nat

-----------------------------------------------------------------------------

\* FEE_BPS / BPS_DENOMINATOR, rounded down.
Fee(price) == (price * 100) \div 10000

IsListed(l) == listings[l].seller # NoAddress

setFeeRecipient(caller, newRecipient) ==
    /\ caller = Owner
    /\ newRecipient # NoAddress
    /\ feeRecipient' = newRecipient
    /\ UNCHANGED <<listings, allListingIds, marketEther>>

Listable(caller, objectId) ==
    LET object == objects[objectId]
    IN  /\ object.owner = caller
        /\ object.transferable
        /\ object.status = "ACTIVE"
        /\ object.expiry = 0 \/ object.expiry > blockTime
        /\ IsApprovedOrOwner(Market, objectId)

\* An id that was used once is taken for ever: its listingId is not 0, unless
\* the id itself is.
Fresh(l) == l = ZeroId \/ ~IsListed(l)

listObject(caller, l, objectId, price) ==
    /\ Fresh(l)
    /\ price > 0
    /\ Listable(caller, objectId)
    /\ listings' = [listings EXCEPT
           ![l] = [objectId |-> objectId, seller |-> caller, price |-> price,
                   active |-> TRUE]]
    /\ allListingIds' = Append(allListingIds, l)
    /\ UNCHANGED <<feeRecipient, marketEther>>

cancelListing(caller, l) ==
    /\ listings[l].active
    /\ caller \in {listings[l].seller, Owner}
    /\ listings' = [listings EXCEPT ![l].active = FALSE]
    /\ UNCHANGED <<allListingIds, feeRecipient, marketEther>>

ExcessKept(value, price) == 0
Excess(value, price) == value - price

\* The object moves first, then the three payments; a recipient that rejects
\* its payment reverts the purchase, also a payment of nothing to the seller.
buyObject(caller, l, value) ==
    LET listing == listings[l]
        price == listing.price
        fee == Fee(price)
        excess == Excess(value, price)
    IN  /\ listing.active
        /\ value >= price
        /\ caller # listing.seller
        /\ CanAfford(caller, value)
        /\ listings' = [listings EXCEPT ![l].active = FALSE]
        /\ transferFrom(Market, listing.seller, caller, listing.objectId)
        /\ Accepts(listing.seller)
        /\ fee > 0 => Accepts(feeRecipient)
        /\ excess > 0 => Accepts(caller)
        /\ LET afterSale == Paid(Charged(wallets, caller, value),
                                 listing.seller, price - fee)
               afterFee == IF fee > 0 THEN Paid(afterSale, feeRecipient, fee)
                           ELSE afterSale
           IN  wallets' = Paid(afterFee, caller, excess)
        /\ marketEther' = marketEther + value - (price - fee) - fee - excess
        /\ UNCHANGED <<allListingIds, feeRecipient>>

\* Every transaction an account can send to the marketplace.
MarketCall(caller) ==
    \/ /\ \/ \E newRecipient \in FeeRecipients :
                setFeeRecipient(caller, newRecipient)
          \/ \E l \in Listings :
                \/ \E objectId \in Objects, price \in Amounts :
                      listObject(caller, l, objectId, price)
                \/ cancelListing(caller, l)
       /\ UNCHANGED <<wallets, objectVars>>
    \/ \E l \in Listings, value \in Amounts : buyObject(caller, l, value)

\* The marketplace and the registry it trades in.
MarketNext ==
    \/ \E caller \in Accounts :
          /\ \/ ObjectCall(caller) /\ UNCHANGED <<wallets, marketVars>>
             \/ MarketCall(caller)
          /\ UNCHANGED blockTime
    \/ Advance /\ UNCHANGED <<objectVars, marketVars>>

MarketSystemInit == ChainInit /\ ObjectInit /\ MarketInit

MarketSpec ==
    /\ MarketSystemInit
    /\ [][MarketNext]_<<wallets, blockTime, objectVars, marketVars>>

-----------------------------------------------------------------------------
(* Properties                                                              *)

\* The marketplace has no way to pay out what is left with it, so nothing may
\* be: price, fee and excess add up to the value of every purchase.
MarketKeepsNothing == marketEther = 0

\* A listing's terms never change and a closed one never opens again, so a
\* buyer pays the price that was read, for the object that was read.  Listing
\* id 0 is the exception: listObject takes it for unused every time.
ListingsAreFinal ==
    [][\A l \in Listings \ {ZeroId} : IsListed(l) =>
          \/ listings'[l] = listings[l]
          \/ /\ listings[l].active
             /\ listings'[l] = [listings[l] EXCEPT !.active = FALSE]]_listings

SellerShare(price) == price - Fee(price)

\* A step in which account `from' sells `id' to `to': one listing of it
\* closes, the seller has the price less the fee, the buyer has paid the
\* price and no more (either may also be the fee recipient).
Sold(id, from, to) ==
    \E l \in Listings :
        /\ listings[l].active /\ ~listings[l].active'
        /\ listings[l].objectId = id /\ listings[l].seller = from
        /\ LET price == listings[l].price
               FeeTo(u) == IF u = feeRecipient THEN Fee(price) ELSE 0
           IN  /\ wallets'[from] = wallets[from] + SellerShare(price) + FeeTo(from)
               /\ wallets'[to] + price = wallets[to] + FeeTo(to)

=============================================================================
