---------------------------- MODULE TradeProofs -----------------------------
(***************************************************************************)
(* Proofs about the object registry, the marketplace and the escrow on one *)
(* chain, for any accounts, objects, listings, escrows and amounts: no     *)
(* approval outlives a transfer, the contracts hold exactly the coin they  *)
(* owe, an object moves only by right, and the escrow is the conditional   *)
(* payment it promises to be.  Then about the identity registry, for any   *)
(* agents and wallets: its two maps are inverse to each other.  And about  *)
(* the index of all five contracts, however long its queue: the events     *)
(* that wait lead to the tables of what the contracts hold, and the sums   *)
(* the console shows are coin that is there.                               *)
(***************************************************************************)
EXTENDS IndexedChain, SequenceTheorems

-----------------------------------------------------------------------------
(* The inductive invariant                                                 *)

\* Nobody is approved for an object that does not exist.
ApprovedExist ==
    \A id \in Objects : objectApprovals[id] # NoAddress => OwnerOf(id) # NoAddress

\* An escrow has terms from when it is locked, and is never verified or
\* expired: no function sets those statuses.
IsSound(escrow) ==
    /\ escrow.status \in {"LOCKED", "DELIVERED", "RELEASED", "REFUNDED"}
    /\ escrow.amount = 0 =>
          /\ escrow.buyer = NoAddress /\ escrow.seller = NoAddress
          /\ escrow.status \in {"LOCKED", "REFUNDED"}
    /\ escrow.amount > 0 =>
          escrow.buyer \in Accounts /\ escrow.seller \in Addresses

EscrowInv == \A e \in Escrows : IsSound(escrows[e])

\* What an escrow holds of the contract's coin.
Hold(escrow) ==
    IF escrow.status \in {"LOCKED", "DELIVERED"} THEN escrow.amount ELSE 0

TradeInv ==
    /\ TradeTypeOK
    /\ ApprovedExist /\ ApprovalIsCurrent
    /\ EscrowInv /\ EscrowSolvent
    /\ MarketKeepsNothing /\ CoinConserved

-----------------------------------------------------------------------------
(* Coin                                                                    *)

LEMMA PaidTotal ==
    ASSUME NEW purses \in [Accounts -> Nat], NEW to \in Accounts, NEW n \in Nat
    PROVE  /\ Paid(purses, to, n) \in [Accounts -> Nat]
           /\ Total(purses) \in Nat
           /\ Total(Paid(purses, to, n)) = Total(purses) + n
<1> DEFINE paid == Paid(purses, to, n)
<1>1. /\ paid \in [Accounts -> Nat] /\ paid[to] = purses[to] + n
      /\ \A a \in Accounts \ {to} : purses[a] = paid[a]
    BY DEF Paid
<1> HIDE DEF paid
<1>2. IsFiniteSet(Accounts)
    BY ChainAssumption
<1>3. Total(purses) \in Nat /\ Total(paid) \in Nat
    BY <1>1, <1>2, TotalIsNat
<1>4. Total(paid) + purses[to] = Total(purses) + paid[to]
    BY <1>1, <1>2, TotalPoint
<1>5. purses[to] \in Nat
    OBVIOUS
<1>6. Total(paid) = Total(purses) + n
    BY <1>1, <1>3, <1>4, <1>5
<1>7. QED
    BY <1>1, <1>3, <1>6 DEF paid

LEMMA ChargedTotal ==
    ASSUME NEW purses \in [Accounts -> Nat], NEW from \in Accounts,
           NEW n \in Nat, n <= purses[from]
    PROVE  /\ Charged(purses, from, n) \in [Accounts -> Nat]
           /\ Total(purses) \in Nat /\ Total(Charged(purses, from, n)) \in Nat
           /\ Total(Charged(purses, from, n)) + n = Total(purses)
<1> DEFINE charged == Charged(purses, from, n)
<1>1. /\ charged \in [Accounts -> Nat] /\ charged[from] + n = purses[from]
      /\ \A a \in Accounts \ {from} : purses[a] = charged[a]
    BY DEF Charged
<1> HIDE DEF charged
<1>2. IsFiniteSet(Accounts)
    BY ChainAssumption
<1>3. Total(purses) \in Nat /\ Total(charged) \in Nat
    BY <1>1, <1>2, TotalIsNat
<1>4. Total(charged) + purses[from] = Total(purses) + charged[from]
    BY <1>1, <1>2, TotalPoint
<1>5. purses[from] \in Nat /\ charged[from] \in Nat
    BY <1>1
<1>6. Total(charged) + n = Total(purses)
    BY <1>1, <1>3, <1>4, <1>5
<1>7. QED
    BY <1>1, <1>3, <1>6 DEF charged

LEMMA FeeBound ==
    ASSUME NEW price \in Nat
    PROVE  Fee(price) \in Nat /\ Fee(price) <= price
BY DEF Fee

-----------------------------------------------------------------------------
(* Objects                                                                 *)

\* A transfer, whoever asks for it, leaves nobody approved.
LEMMA TransferKeeps ==
    ASSUME ObjectTypeOK, ApprovedExist, ApprovalIsCurrent,
           NEW id, NEW to \in Addresses \cup {NoAddress}, ExecuteTransfer(id, to)
    PROVE  ObjectTypeOK' /\ ApprovedExist' /\ ApprovalIsCurrent'
<1>1. /\ to \in Addresses
      /\ objects' = [objects EXCEPT ![id].owner = to]
      /\ objectApprovals' = [objectApprovals EXCEPT ![id] = NoAddress]
      /\ UNCHANGED <<operatorApprovals, approvedBy>>
    BY DEF ExecuteTransfer
<1>2. objects' \in [Objects -> EconomicObject]
    BY <1>1 DEF ObjectTypeOK, EconomicObject
<1>3. objectApprovals' \in [Objects -> Operators \cup {NoAddress}]
    BY <1>1 DEF ObjectTypeOK
<1>4. \A x \in Objects : \/ objectApprovals'[x] = NoAddress
                         \/ /\ objectApprovals'[x] = objectApprovals[x]
                            /\ objects'[x] = objects[x]
    BY <1>1 DEF ObjectTypeOK
<1>5. QED
    BY <1>1, <1>2, <1>3, <1>4
       DEF ObjectTypeOK, ApprovedExist, ApprovalIsCurrent, OwnerOf

LEMMA ObjectCallKeeps ==
    ASSUME ObjectTypeOK, ApprovedExist, ApprovalIsCurrent,
           NEW caller \in Accounts, ObjectCall(caller)
    PROVE  ObjectTypeOK' /\ ApprovedExist' /\ ApprovalIsCurrent'
<1> USE ObjectAssumption, ChainAssumption
<1>1. ASSUME NEW operator \in Operators, NEW approved \in BOOLEAN,
             setApprovalForAll(caller, operator, approved)
      PROVE  ObjectTypeOK' /\ ApprovedExist' /\ ApprovalIsCurrent'
  <2>1. UNCHANGED <<objects, objectApprovals, approvedBy>>
    BY <1>1 DEF setApprovalForAll
  <2>2. operatorApprovals' \in [Addresses -> SUBSET Operators]
    BY <1>1 DEF setApprovalForAll, ObjectTypeOK
  <2>3. QED
    BY <2>1, <2>2 DEF ObjectTypeOK, ApprovedExist, ApprovalIsCurrent, OwnerOf
<1>2. ASSUME NEW id \in Objects, NEW to \in Operators \cup {NoAddress},
             approve(caller, to, id)
      PROVE  ObjectTypeOK' /\ ApprovedExist' /\ ApprovalIsCurrent'
    BY <1>2 DEF approve, ObjectTypeOK, ApprovedExist, ApprovalIsCurrent, OwnerOf,
       Addresses
<1>3. ASSUME NEW id \in Objects, NEW expiry \in Expiries,
             NEW transferable \in BOOLEAN,
             createObject(caller, id, expiry, transferable)
      PROVE  ObjectTypeOK' /\ ApprovedExist' /\ ApprovalIsCurrent'
  <2> DEFINE new == [owner |-> caller, expiry |-> expiry,
                     transferable |-> transferable, status |-> "ACTIVE"]
  <2>1. new \in EconomicObject
    BY DEF EconomicObject, Addresses, ObjectStatus
  <2>2. /\ OwnerOf(id) = NoAddress
        /\ objects' = [objects EXCEPT ![id] = new]
        /\ UNCHANGED <<objectApprovals, operatorApprovals, approvedBy>>
    BY <1>3 DEF createObject
  <2>3. objectApprovals[id] = NoAddress
    BY <2>2 DEF ApprovedExist
  <2> HIDE DEF new
  <2>4. QED
    BY <2>1, <2>2, <2>3
       DEF ObjectTypeOK, ApprovedExist, ApprovalIsCurrent, OwnerOf
<1>4. ASSUME NEW id \in Objects, NEW newStatus \in NewStatuses,
             setStatus(caller, id, newStatus)
      PROVE  ObjectTypeOK' /\ ApprovedExist' /\ ApprovalIsCurrent'
  <2>1. /\ objects' = [objects EXCEPT ![id].status = newStatus]
        /\ UNCHANGED <<objectApprovals, operatorApprovals, approvedBy>>
    BY <1>4 DEF setStatus
  <2>2. objects' \in [Objects -> EconomicObject]
    BY <2>1 DEF ObjectTypeOK, EconomicObject
  <2>3. \A x \in Objects : objects'[x].owner = objects[x].owner
    BY <2>1 DEF ObjectTypeOK, EconomicObject
  <2>4. QED
    BY <2>1, <2>2, <2>3
       DEF ObjectTypeOK, ApprovedExist, ApprovalIsCurrent, OwnerOf
<1>5. ASSUME NEW id \in Objects, NEW to \in Addresses \cup {NoAddress},
             \/ transferObject(caller, id, to)
             \/ \E from \in Addresses : transferFrom(caller, from, to, id)
      PROVE  ObjectTypeOK' /\ ApprovedExist' /\ ApprovalIsCurrent'
    BY <1>5, TransferKeeps DEF transferObject, transferFrom
<1>6. QED
    BY <1>1, <1>2, <1>3, <1>4, <1>5 DEF ObjectCall

-----------------------------------------------------------------------------
(* The marketplace                                                         *)

ObjectsOK == ObjectTypeOK /\ ApprovedExist /\ ApprovalIsCurrent

\* A purchase splits the value exactly: the wallets end with what they had,
\* whoever of buyer, seller and fee recipient is the same account.
LEMMA PurchaseConserves ==
    ASSUME ChainTypeOK, MarketTypeOK, MarketKeepsNothing,
           NEW caller \in Accounts, NEW l \in Listings, NEW value \in Amounts,
           buyObject(caller, l, value)
    PROVE  /\ wallets' \in [Accounts -> Nat]
           /\ Total(wallets') = Total(wallets)
           /\ marketEther' = 0
<1> DEFINE price == listings[l].price
           fee == Fee(price)
           excess == Excess(value, price)
           seller == listings[l].seller
           w1 == Charged(wallets, caller, value)
           w2 == Paid(w1, seller, price - fee)
           w3 == IF fee > 0 THEN Paid(w2, feeRecipient, fee) ELSE w2
           w4 == Paid(w3, caller, excess)
<1>1. /\ value >= price /\ CanAfford(caller, value)
      /\ Accepts(seller) /\ (fee > 0 => Accepts(feeRecipient))
      /\ wallets' = w4
      /\ marketEther' = marketEther + value - (price - fee) - fee - excess
    BY DEF buyObject
<1>2. /\ seller \in Accounts /\ (fee > 0 => feeRecipient \in Accounts)
      /\ price \in Nat /\ value \in Nat /\ marketEther = 0
      /\ wallets \in [Accounts -> Nat] /\ value <= wallets[caller]
    BY <1>1, ChainAssumption DEF MarketTypeOK, Listing, Accepts, CanAfford,
       ChainTypeOK, MarketKeepsNothing
<1>3. fee \in Nat /\ price - fee \in Nat
    BY <1>2, FeeBound
<1>4. excess = value - price /\ excess \in Nat
    BY <1>1, <1>2 DEF Excess
<1> HIDE DEF price, fee, excess, seller
<1>5. w1 \in [Accounts -> Nat] /\ Total(wallets) \in Nat /\ Total(w1) \in Nat
      /\ Total(w1) + value = Total(wallets)
    BY <1>2, ChargedTotal
<1> HIDE DEF w1
<1>6. w2 \in [Accounts -> Nat] /\ Total(w2) = Total(w1) + (price - fee)
    BY <1>2, <1>3, <1>5, PaidTotal
<1> HIDE DEF w2
<1>7. w3 \in [Accounts -> Nat] /\ Total(w3) = Total(w2) + fee
  <2>1. CASE fee > 0
    BY <1>2, <1>3, <1>6, <2>1, PaidTotal
  <2>2. CASE fee = 0
    <3>1. w3 = w2 /\ Total(w2) \in Nat
      BY <1>3, <1>5, <1>6, <2>2
    <3>2. QED
      BY <1>6, <2>2, <3>1
  <2>3. QED
    BY <1>3, <2>1, <2>2
<1> HIDE DEF w3
<1>8. w4 \in [Accounts -> Nat] /\ Total(w4) = Total(w3) + excess
    BY <1>4, <1>7, PaidTotal
<1> HIDE DEF w4
<1>9. Total(w4) = Total(wallets)
    BY <1>2, <1>3, <1>4, <1>5, <1>6, <1>7, <1>8
<1>10. marketEther' = 0
    BY <1>1, <1>2, <1>3, <1>4
<1>11. QED
    BY <1>1, <1>8, <1>9, <1>10

LEMMA MarketCallKeeps ==
    ASSUME ChainTypeOK, MarketTypeOK, ObjectsOK, MarketKeepsNothing,
           NEW caller \in Accounts, MarketCall(caller)
    PROVE  /\ ObjectsOK' /\ MarketTypeOK' /\ MarketKeepsNothing'
           /\ wallets' \in [Accounts -> Nat] /\ Total(wallets') = Total(wallets)
<1> USE ChainAssumption, ObjectAssumption, MarketAssumption
<1>1. ASSUME UNCHANGED objectVars
      PROVE  ObjectsOK'
    BY <1>1 DEF objectVars, ObjectsOK, ObjectTypeOK, ApprovedExist,
       ApprovalIsCurrent, OwnerOf
<1>2. ASSUME NEW newRecipient \in FeeRecipients,
             setFeeRecipient(caller, newRecipient)
      PROVE  MarketTypeOK' /\ MarketKeepsNothing'
    BY <1>2 DEF setFeeRecipient, MarketTypeOK, MarketKeepsNothing, Addresses
<1>3. ASSUME NEW l \in Listings, NEW objectId \in Objects, NEW price \in Amounts,
             listObject(caller, l, objectId, price)
      PROVE  MarketTypeOK' /\ MarketKeepsNothing'
  <2> DEFINE new == [objectId |-> objectId, seller |-> caller, price |-> price,
                     active |-> TRUE]
  <2>1. new \in Listing
    BY DEF Listing, Addresses
  <2>2. /\ listings' = [listings EXCEPT ![l] = new]
        /\ allListingIds' = Append(allListingIds, l)
        /\ UNCHANGED <<feeRecipient, marketEther>>
    BY <1>3 DEF listObject
  <2> HIDE DEF new
  <2>3. listings' \in [Listings -> Listing]
    BY <2>1, <2>2 DEF MarketTypeOK
  <2>4. allListingIds' \in Seq(Listings)
    BY <2>2 DEF MarketTypeOK
  <2>5. QED
    BY <2>2, <2>3, <2>4 DEF MarketTypeOK, MarketKeepsNothing
<1>4. ASSUME NEW l \in Listings,
             listings' = [listings EXCEPT ![l].active = FALSE],
             UNCHANGED <<allListingIds, feeRecipient>>
      PROVE  /\ listings' \in [Listings -> Listing]
             /\ allListingIds' \in Seq(Listings) /\ feeRecipient' \in Addresses
    BY <1>4 DEF MarketTypeOK, Listing
<1>5. ASSUME NEW l \in Listings, cancelListing(caller, l)
      PROVE  MarketTypeOK' /\ MarketKeepsNothing'
    BY <1>4, <1>5 DEF cancelListing, MarketTypeOK, MarketKeepsNothing
<1>6. ASSUME NEW l \in Listings, NEW value \in Amounts,
             buyObject(caller, l, value)
      PROVE  /\ ObjectsOK' /\ MarketTypeOK' /\ MarketKeepsNothing'
             /\ wallets' \in [Accounts -> Nat] /\ Total(wallets') = Total(wallets)
  <2>1. ExecuteTransfer(listings[l].objectId, caller)
    BY <1>6 DEF buyObject, transferFrom
  <2>2. ObjectsOK'
    BY <2>1, TransferKeeps DEF ObjectsOK, Addresses
  <2>3. /\ wallets' \in [Accounts -> Nat]
        /\ Total(wallets') = Total(wallets) /\ marketEther' = 0
    BY <1>6, PurchaseConserves
  <2>4. QED
    BY <1>4, <1>6, <2>2, <2>3 DEF buyObject, MarketTypeOK, MarketKeepsNothing
<1>7. ASSUME UNCHANGED wallets
      PROVE  wallets' \in [Accounts -> Nat] /\ Total(wallets') = Total(wallets)
    BY <1>7 DEF ChainTypeOK
<1>8. QED
    BY <1>1, <1>2, <1>3, <1>5, <1>6, <1>7 DEF MarketCall

-----------------------------------------------------------------------------
(* The escrow                                                              *)

EscrowsOK == EscrowTypeOK /\ EscrowInv /\ EscrowSolvent

\* One escrow changes; the contract's coin by as much as the escrow's hold.
LEMMA EscrowMoves ==
    ASSUME EscrowsOK, NEW e \in Escrows, NEW new \in EscrowRecord, IsSound(new),
           escrows' = [escrows EXCEPT ![e] = new], escrowEther' \in Nat,
           UNCHANGED economicObjectContract,
           escrowEther' + Locked[e] = escrowEther + Hold(new)
    PROVE  EscrowsOK'
<1>1. /\ escrows \in [Escrows -> EscrowRecord]
      /\ escrows' \in [Escrows -> EscrowRecord] /\ escrows'[e] = new
      /\ \A x \in Escrows \ {e} : escrows'[x] = escrows[x]
    BY DEF EscrowsOK, EscrowTypeOK
<1>2. EscrowTypeOK'
    BY <1>1 DEF EscrowsOK, EscrowTypeOK
<1>3. EscrowInv'
    BY <1>1 DEF EscrowsOK, EscrowInv
<1>4. Locked \in [Escrows -> Nat] /\ Locked' \in [Escrows -> Nat]
    BY <1>1 DEF Locked, EscrowRecord
<1>5. \A x \in Escrows \ {e} : Locked[x] = Locked'[x]
    BY <1>1 DEF Locked
<1>6. Locked'[e] = Hold(new)
    BY <1>1 DEF Locked, Hold, IsSound
<1> DEFINE f == Locked
           g == Locked'
<1>7. /\ f \in [Escrows -> Nat] /\ g \in [Escrows -> Nat]
      /\ f[e] = Locked[e] /\ g[e] = Hold(new) /\ f[e] \in Nat /\ g[e] \in Nat
      /\ \A x \in Escrows \ {e} : f[x] = g[x]
    BY <1>4, <1>5, <1>6
<1>8. escrowEther = Total(f) /\ escrowEther \in Nat
    BY DEF EscrowsOK, EscrowSolvent, EscrowTypeOK
<1>9. EscrowSolvent' <=> escrowEther' = Total(g)
    BY DEF EscrowSolvent
<1> HIDE DEF f, g
<1>10. Total(g) + f[e] = Total(f) + g[e] /\ Total(g) \in Nat
    BY <1>7, EscrowAssumption, TotalPoint, TotalIsNat
<1>11. escrowEther' = Total(g)
    BY <1>7, <1>8, <1>10
<1>12. QED
    BY <1>2, <1>3, <1>9, <1>11 DEF EscrowsOK

\* What paying out an escrow does to the coin; nothing is paid to nobody.
LEMMA PayOutConserves ==
    ASSUME ChainTypeOK, EscrowsOK, NEW e \in Escrows,
           NEW to \in Addresses \cup {NoAddress},
           escrows[e].amount > 0 => to # NoAddress, PayOut(e, to)
    PROVE  /\ wallets' \in [Accounts -> Nat]
           /\ Total(wallets') = Total(wallets) + escrows[e].amount
           /\ escrowEther' = escrowEther - escrows[e].amount
<1> USE ChainAssumption
<1>1. /\ wallets \in [Accounts -> Nat] /\ escrows[e].amount \in Nat
      /\ Total(wallets) \in Nat
    BY TotalIsNat DEF ChainTypeOK, EscrowsOK, EscrowTypeOK, EscrowRecord
<1>2. CASE Accepts(to) /\ wallets' = Paid(wallets, to, escrows[e].amount)
  <2>1. to \in Accounts
    BY <1>2 DEF Accepts
  <2>2. QED
    BY <1>1, <1>2, <2>1, PaidTotal DEF PayOut
<1>3. CASE to = NoAddress /\ UNCHANGED wallets
  <2>1. escrows[e].amount = 0
    BY <1>1, <1>3
  <2>2. QED
    BY <1>1, <1>3, <2>1 DEF PayOut
<1>4. QED
    BY <1>2, <1>3 DEF PayOut

\* An escrow that is held has its coin in the contract.
LEMMA EscrowIsCovered ==
    ASSUME EscrowsOK, NEW e \in Escrows
    PROVE  /\ escrows[e] \in EscrowRecord /\ Locked[e] \in Nat
           /\ Locked[e] <= escrowEther /\ escrowEther \in Nat
           /\ Locked[e] = Hold(escrows[e])
<1>1. escrows \in [Escrows -> EscrowRecord]
    BY DEF EscrowsOK, EscrowTypeOK
<1>2. Locked \in [Escrows -> Nat]
    BY <1>1 DEF Locked, EscrowRecord
<1>3. Locked[e] = Hold(escrows[e])
    BY DEF Locked, EscrowsOK, EscrowInv, IsSound, Hold
<1> DEFINE f == Locked
<1>4. f \in [Escrows -> Nat] /\ escrowEther = Total(f)
    BY <1>2 DEF EscrowsOK, EscrowSolvent
<1>5. escrowEther \in Nat
    BY DEF EscrowsOK, EscrowTypeOK
<1> HIDE DEF f
<1>6. f[e] <= Total(f)
    BY <1>4, EscrowAssumption, EntryBound
<1>7. QED
    BY <1>1, <1>2, <1>3, <1>4, <1>5, <1>6 DEF f

\* Coin in the wallets and in the escrow.
Coin == Total(wallets) + escrowEther

LEMMA EscrowCallKeeps ==
    ASSUME ChainTypeOK, EscrowsOK, ObjectsOK, NEW caller \in Accounts,
           EscrowCall(caller)
    PROVE  /\ EscrowsOK' /\ ObjectsOK'
           /\ wallets' \in [Accounts -> Nat] /\ Coin' = Coin
<1> USE ChainAssumption, ObjectAssumption, EscrowAssumption
<1>0. /\ wallets \in [Accounts -> Nat] /\ Total(wallets) \in Nat
      /\ escrowEther \in Nat
      /\ escrows \in [Escrows -> EscrowRecord]
    BY TotalIsNat DEF ChainTypeOK, EscrowsOK, EscrowTypeOK
<1>1. ASSUME UNCHANGED objectVars
      PROVE  ObjectsOK'
    BY <1>1 DEF objectVars, ObjectsOK, ObjectTypeOK, ApprovedExist,
       ApprovalIsCurrent, OwnerOf
<1>2. CASE setEconomicObjectContract(caller) /\ UNCHANGED <<wallets, objectVars>>
  <2>1. UNCHANGED <<escrows, escrowEther, wallets>>
        /\ economicObjectContract' = Registry
    BY <1>2 DEF setEconomicObjectContract
  <2>2. EscrowsOK'
    BY <2>1 DEF EscrowsOK, EscrowTypeOK, EscrowInv, EscrowSolvent, Locked
  <2>3. QED
    BY <1>0, <1>1, <1>2, <2>1, <2>2 DEF Coin
<1>3. ASSUME NEW e \in Escrows, NEW seller \in Addresses \cup {NoAddress},
             NEW deadline \in Deadlines, NEW linked \in Objects \cup {NoLink},
             NEW value \in Amounts, UNCHANGED objectVars,
             lockEscrow(caller, e, seller, deadline, linked, value)
      PROVE  /\ EscrowsOK' /\ ObjectsOK'
             /\ wallets' \in [Accounts -> Nat] /\ Coin' = Coin
  <2> DEFINE new == [buyer |-> caller, seller |-> seller, amount |-> value,
                     deadline |-> deadline, status |-> "LOCKED",
                     linkedObjectId |-> linked]
  <2>1. /\ value > 0 /\ value \in Nat /\ seller # NoAddress
        /\ escrows[e].amount = 0 /\ value <= wallets[caller]
        /\ wallets' = Charged(wallets, caller, value)
        /\ escrowEther' = escrowEther + value
        /\ escrows' = [escrows EXCEPT ![e] = new]
        /\ UNCHANGED economicObjectContract
    BY <1>3 DEF lockEscrow, IsUnused, CanAfford
  <2>2. new \in EscrowRecord
    BY DEF EscrowRecord, EscrowStatus
  <2>3. /\ new.status = "LOCKED" /\ new.amount = value
        /\ new.buyer = caller /\ new.seller = seller
    OBVIOUS
  <2> HIDE DEF new
  <2>4. Locked[e] = 0 /\ Hold(new) = value /\ IsSound(new)
    BY <2>1, <2>3, EscrowIsCovered DEF Hold, IsSound
  <2>5. EscrowsOK'
    <3>1. /\ escrowEther' \in Nat
          /\ escrowEther' + Locked[e] = escrowEther + Hold(new)
      BY <1>0, <2>1, <2>4
    <3>2. QED
      BY <2>1, <2>2, <2>4, <3>1, EscrowMoves
  <2>6. /\ wallets' \in [Accounts -> Nat] /\ Total(wallets') \in Nat
        /\ Total(wallets') + value = Total(wallets)
    BY <1>0, <2>1, ChargedTotal
  <2>7. Coin' = Coin
    BY <1>0, <2>1, <2>6 DEF Coin
  <2>8. QED
    BY <1>1, <1>3, <2>5, <2>6, <2>7
<1>4. ASSUME NEW e \in Escrows, submitDelivery(caller, e),
             UNCHANGED <<wallets, objectVars>>
      PROVE  /\ EscrowsOK' /\ ObjectsOK'
             /\ wallets' \in [Accounts -> Nat] /\ Coin' = Coin
  <2> DEFINE new == [escrows[e] EXCEPT !.status = "DELIVERED"]
  <2>1. /\ escrows' = [escrows EXCEPT ![e] = new] /\ UNCHANGED escrowEther
        /\ UNCHANGED economicObjectContract
        /\ escrows[e].status = "LOCKED" /\ escrows[e].seller = caller
    BY <1>4 DEF submitDelivery, IsLocked
  <2>2. escrows[e] \in EscrowRecord
    BY <1>0
  <2>3. /\ new \in EscrowRecord /\ new.status = "DELIVERED"
        /\ new.amount = escrows[e].amount /\ new.amount \in Nat
        /\ new.buyer = escrows[e].buyer /\ new.seller = escrows[e].seller
    BY <2>2 DEF EscrowRecord, EscrowStatus
  <2>4. escrows[e].amount > 0 /\ escrows[e].buyer \in Accounts
        /\ escrows[e].seller \in Addresses
    BY <2>1, <2>2, <2>3 DEF EscrowsOK, EscrowInv, IsSound, EscrowRecord
  <2> HIDE DEF new
  <2>5. Locked[e] = Hold(new) /\ IsSound(new)
    BY <2>1, <2>3, <2>4, EscrowIsCovered DEF Hold, IsSound
  <2>6. EscrowsOK'
    BY <1>0, <2>1, <2>3, <2>5, EscrowMoves
  <2>7. QED
    BY <1>0, <1>1, <1>4, <2>1, <2>6 DEF Coin
<1>5. ASSUME NEW e \in Escrows, NEW status \in {"RELEASED", "REFUNDED"},
             NEW to \in Addresses \cup {NoAddress},
             \/ status = "RELEASED" /\ IsDelivered(e) /\ to = escrows[e].seller
             \/ status = "REFUNDED" /\ IsLocked(e) /\ to = escrows[e].buyer,
             escrows' = [escrows EXCEPT ![e].status = status],
             PayOut(e, to), UNCHANGED economicObjectContract
      PROVE  EscrowsOK' /\ wallets' \in [Accounts -> Nat] /\ Coin' = Coin
  <2> DEFINE new == [escrows[e] EXCEPT !.status = status]
  <2>1. escrows' = [escrows EXCEPT ![e] = new] /\ escrows[e] \in EscrowRecord
    BY <1>0, <1>5
  <2>2. /\ new \in EscrowRecord /\ new.status = status
        /\ new.amount = escrows[e].amount /\ new.amount \in Nat
        /\ new.buyer = escrows[e].buyer /\ new.seller = escrows[e].seller
    BY <2>1 DEF EscrowRecord, EscrowStatus
  <2>3. /\ escrows[e].status \in {"LOCKED", "DELIVERED"}
        /\ escrows[e].amount = 0 =>
              /\ escrows[e].buyer = NoAddress /\ escrows[e].seller = NoAddress
              /\ status = "REFUNDED"
        /\ escrows[e].amount > 0 =>
              escrows[e].buyer \in Accounts /\ escrows[e].seller \in Addresses
    BY <1>5 DEF EscrowsOK, EscrowInv, IsSound, IsDelivered, IsLocked
  <2>4. escrows[e].amount > 0 => to # NoAddress
    BY <1>5, <2>3 DEF Addresses
  <2>5. /\ wallets' \in [Accounts -> Nat]
        /\ Total(wallets') = Total(wallets) + escrows[e].amount
        /\ escrowEther' = escrowEther - escrows[e].amount
    BY <1>5, <2>4, PayOutConserves
  <2>6. /\ Locked[e] = escrows[e].amount /\ Locked[e] <= escrowEther
    BY <2>3, EscrowIsCovered DEF Hold
  <2> HIDE DEF new
  <2>7. /\ escrowEther' \in Nat /\ Hold(new) = 0 /\ IsSound(new)
        /\ escrowEther' + Locked[e] = escrowEther + Hold(new)
    BY <1>0, <2>2, <2>3, <2>5, <2>6 DEF Hold, IsSound
  <2>8. EscrowsOK'
    BY <1>0, <1>5, <2>1, <2>2, <2>7, EscrowMoves
  <2>9. Coin' = Coin
    BY <1>0, <2>2, <2>5, <2>6 DEF Coin
  <2>10. QED
    BY <2>5, <2>8, <2>9
<1>6. \A e \in Escrows : /\ escrows[e].buyer \in Addresses \cup {NoAddress}
                         /\ escrows[e].seller \in Addresses \cup {NoAddress}
    BY <1>0 DEF EscrowRecord, Addresses
<1>7. ASSUME NEW e \in Escrows, refund(caller, e), UNCHANGED objectVars
      PROVE  /\ EscrowsOK' /\ ObjectsOK'
             /\ wallets' \in [Accounts -> Nat] /\ Coin' = Coin
  <2>1. /\ IsLocked(e) /\ escrows' = [escrows EXCEPT ![e].status = "REFUNDED"]
        /\ PayOut(e, escrows[e].buyer) /\ UNCHANGED economicObjectContract
    BY <1>7 DEF refund, RefundAllowed
  <2>2. QED
    BY <1>1, <1>5, <1>6, <1>7, <2>1
<1>8. ASSUME NEW e \in Escrows, verifyAndRelease(caller, e)
      PROVE  /\ EscrowsOK' /\ ObjectsOK'
             /\ wallets' \in [Accounts -> Nat] /\ Coin' = Coin
  <2>1. /\ IsDelivered(e) /\ escrows' = [escrows EXCEPT ![e].status = "RELEASED"]
        /\ PayOut(e, escrows[e].seller) /\ UNCHANGED economicObjectContract
        /\ \/ UNCHANGED objectVars
           \/ ExecuteTransfer(escrows[e].linkedObjectId, escrows[e].buyer)
    BY <1>8 DEF verifyAndRelease, transferFrom
  <2>2. ObjectsOK'
    BY <1>1, <1>6, <2>1, TransferKeeps DEF ObjectsOK
  <2>3. QED
    BY <1>5, <1>6, <2>1, <2>2
<1>9. QED
    BY <1>2, <1>3, <1>4, <1>7, <1>8 DEF EscrowCall

-----------------------------------------------------------------------------
(* The invariant                                                           *)

LEMMA TradeInvInit == TradeInit => TradeInv
<1> SUFFICES ASSUME TradeInit PROVE TradeInv
    OBVIOUS
<1> USE ChainAssumption, ObjectAssumption, MarketAssumption, EscrowAssumption
<1>1. ChainTypeOK
    BY DEF TradeInit, ChainInit, ChainTypeOK
<1>2. ObjectTypeOK /\ ApprovedExist /\ ApprovalIsCurrent
    BY DEF TradeInit, ObjectInit, ObjectTypeOK, NoObject, EconomicObject,
       ObjectStatus, ApprovedExist, ApprovalIsCurrent
<1>3. MarketTypeOK /\ MarketKeepsNothing
    BY DEF TradeInit, MarketInit, MarketTypeOK, NoListing, Listing, Addresses,
       MarketKeepsNothing
<1>4. EscrowTypeOK /\ EscrowInv
    BY DEF TradeInit, EscrowInit, EscrowTypeOK, NoEscrow, EscrowRecord,
       EscrowStatus, EscrowInv, IsSound
<1>5. Locked \in [Escrows -> Nat] /\ \A e \in Escrows : Locked[e] = 0
    BY DEF TradeInit, EscrowInit, NoEscrow, Locked
<1>6. Total(Locked) = 0
  <2> DEFINE f == Locked
  <2>1. f \in [Escrows -> Nat] /\ \A e \in Escrows : f[e] = 0
    BY <1>5
  <2> HIDE DEF f
  <2>2. Total(f) = 0
    BY <2>1, TotalZero
  <2>3. QED
    BY <2>2 DEF f
<1>7. EscrowSolvent
    BY <1>6 DEF TradeInit, EscrowInit, EscrowSolvent
<1>8. Total(Endowment) \in Nat
    BY TotalIsNat
<1>9. CoinConserved
    BY <1>8 DEF TradeInit, ChainInit, MarketInit, EscrowInit, CoinConserved
<1>10. QED
    BY <1>1, <1>2, <1>3, <1>4, <1>7, <1>9 DEF TradeInv, TradeTypeOK

LEMMA TradeInvStep == TradeInv /\ [TradeNext]_tradeVars => TradeInv'
<1> SUFFICES ASSUME TradeInv, [TradeNext]_tradeVars PROVE TradeInv'
    OBVIOUS
<1>0. /\ ChainTypeOK /\ ObjectsOK /\ MarketTypeOK /\ EscrowsOK
      /\ MarketKeepsNothing /\ Coin = Total(Endowment)
      /\ Total(wallets) \in Nat /\ escrowEther \in Nat
  <2>1. Total(wallets) \in Nat /\ escrowEther \in Nat
    BY ChainAssumption, TotalIsNat
       DEF TradeInv, TradeTypeOK, ChainTypeOK, EscrowTypeOK
  <2>2. QED
    BY <2>1 DEF TradeInv, TradeTypeOK, ObjectsOK, EscrowsOK, MarketKeepsNothing,
       CoinConserved, Coin
<1>1. ASSUME UNCHANGED objectVars PROVE ObjectsOK'
    BY <1>0, <1>1 DEF objectVars, ObjectsOK, ObjectTypeOK, ApprovedExist,
       ApprovalIsCurrent, OwnerOf
<1>2. ASSUME UNCHANGED marketVars PROVE MarketTypeOK' /\ MarketKeepsNothing'
    BY <1>0, <1>2 DEF marketVars, MarketTypeOK, MarketKeepsNothing
<1>3. ASSUME UNCHANGED escrowVars PROVE EscrowsOK'
    BY <1>0, <1>3 DEF escrowVars, EscrowsOK, EscrowTypeOK, EscrowInv,
       EscrowSolvent, Locked
<1>4. ASSUME ObjectsOK', MarketTypeOK', MarketKeepsNothing', EscrowsOK',
             wallets' \in [Accounts -> Nat], blockTime' \in Nat, Coin' = Coin
      PROVE  TradeInv'
  <2>1. Total(wallets') \in Nat /\ escrowEther' \in Nat /\ marketEther' = 0
    BY <1>4, ChainAssumption, TotalIsNat
       DEF EscrowsOK, EscrowTypeOK, MarketKeepsNothing
  <2>2. CoinConserved'
    BY <1>0, <1>4, <2>1 DEF CoinConserved, Coin
  <2>3. QED
    BY <1>4, <2>2 DEF TradeInv, TradeTypeOK, ChainTypeOK, ObjectsOK, EscrowsOK
<1>5. blockTime' \in Nat
    BY <1>0, ChainAssumption
       DEF TradeNext, Advance, ChainTypeOK, tradeVars
<1>6. ASSUME UNCHANGED wallets PROVE wallets' \in [Accounts -> Nat]
    BY <1>0, <1>6 DEF ChainTypeOK
<1>7. CASE UNCHANGED tradeVars
  <2>1. /\ UNCHANGED objectVars /\ UNCHANGED marketVars /\ UNCHANGED escrowVars
        /\ UNCHANGED wallets /\ UNCHANGED escrowEther
    BY <1>7 DEF tradeVars, escrowVars
  <2>2. QED
    BY <1>1, <1>2, <1>3, <1>4, <1>5, <1>6, <2>1 DEF Coin
<1>8. CASE Advance /\ UNCHANGED <<objectVars, marketVars, escrowVars>>
  <2>1. /\ UNCHANGED objectVars /\ UNCHANGED marketVars /\ UNCHANGED escrowVars
        /\ UNCHANGED wallets /\ UNCHANGED escrowEther
    BY <1>8 DEF Advance, escrowVars
  <2>2. QED
    BY <1>1, <1>2, <1>3, <1>4, <1>5, <1>6, <2>1 DEF Coin
<1>9. ASSUME NEW caller \in Accounts, ObjectCall(caller),
             UNCHANGED <<wallets, marketVars, escrowVars>>
      PROVE  TradeInv'
  <2>1. ObjectsOK'
    BY <1>0, <1>9, ObjectCallKeeps DEF ObjectsOK
  <2>2. UNCHANGED marketVars /\ UNCHANGED escrowVars /\ UNCHANGED wallets
        /\ UNCHANGED escrowEther
    BY <1>9 DEF escrowVars
  <2>3. QED
    BY <1>2, <1>3, <1>4, <1>5, <1>6, <2>1, <2>2 DEF Coin
<1>10. ASSUME NEW caller \in Accounts, MarketCall(caller), UNCHANGED escrowVars
       PROVE  TradeInv'
  <2>1. UNCHANGED escrowEther
    BY <1>10 DEF escrowVars
  <2>2. QED
    BY <1>0, <1>3, <1>4, <1>5, <1>10, <2>1, MarketCallKeeps DEF Coin
<1>11. ASSUME NEW caller \in Accounts, EscrowCall(caller), UNCHANGED marketVars
       PROVE  TradeInv'
    BY <1>0, <1>2, <1>4, <1>5, <1>11, EscrowCallKeeps
<1>12. QED
    BY <1>7, <1>8, <1>9, <1>10, <1>11 DEF TradeNext, Transaction

\* The inductive invariant holds whatever the accounts send in any order.
THEOREM TradeInvariant == TradeSpec => []TradeInv
BY TradeInvInit, TradeInvStep, PTL DEF TradeSpec

\* Whoever is approved for an object was approved by its present owner
\* (ECONEconomicObject.sol, _executeTransfer clears the approval).
THEOREM ApprovalsAreCurrent == TradeSpec => []ApprovalIsCurrent
BY TradeInvariant, PTL DEF TradeInv

\* Price, fee and excess add up to the value of every purchase
\* (ECONMarketplace.sol, buyObject).
THEOREM MarketplaceKeepsNothing == TradeSpec => []MarketKeepsNothing
BY TradeInvariant, PTL DEF TradeInv

\* The escrow contract holds exactly what its open escrows hold
\* (ECONEscrow.sol, lockEscrow, verifyAndRelease and refund).
THEOREM EscrowHoldsWhatItOwes == TradeSpec => []EscrowSolvent
BY TradeInvariant, PTL DEF TradeInv

\* Trading makes and loses no coin.
THEOREM CoinIsConserved == TradeSpec => []CoinConserved
BY TradeInvariant, PTL DEF TradeInv

-----------------------------------------------------------------------------
(* The escrow implements conditional payments                              *)

Stages == [e \in Escrows |-> StageOf(e)]
Stakes == [e \in Escrows |-> escrows[e].amount]
Pairs == [e \in Escrows |-> <<escrows[e].buyer, escrows[e].seller>>]

\* What the change of one escrow is to the payments it implements.
LEMMA PaymentChanges ==
    ASSUME EscrowTypeOK, NEW e \in Escrows, NEW new \in EscrowRecord,
           escrows' = [escrows EXCEPT ![e] = new]
    PROVE  /\ Stages' = [Stages EXCEPT ![e] = StageOf(e)']
           /\ Stakes' = [Stakes EXCEPT ![e] = new.amount]
           /\ Pairs' = [Pairs EXCEPT ![e] = <<new.buyer, new.seller>>]
           /\ escrows'[e] = new
<1>1. /\ escrows' \in [Escrows -> EscrowRecord] /\ escrows'[e] = new
      /\ \A x \in Escrows \ {e} : escrows'[x] = escrows[x]
    BY DEF EscrowTypeOK
<1>2. \A x \in Escrows \ {e} : StageOf(x)' = StageOf(x)
    BY <1>1 DEF StageOf
<1>3. Stages' = [Stages EXCEPT ![e] = StageOf(e)']
    BY <1>2 DEF Stages
<1>4. Stakes' = [Stakes EXCEPT ![e] = new.amount]
    BY <1>1 DEF Stakes
<1>5. Pairs' = [Pairs EXCEPT ![e] = <<new.buyer, new.seller>>]
    BY <1>1 DEF Pairs
<1>6. QED
    BY <1>1, <1>3, <1>4, <1>5

\* A change of status alone moves a stage and keeps the terms.
LEMMA StatusChanges ==
    ASSUME EscrowTypeOK, NEW e \in Escrows, NEW status \in EscrowStatus,
           escrows' = [escrows EXCEPT ![e].status = status]
    PROVE  /\ Stages' = [Stages EXCEPT ![e] = StageOf(e)']
           /\ Stakes' = Stakes /\ Pairs' = Pairs
           /\ escrows'[e].status = status
           /\ escrows'[e].amount = escrows[e].amount
<1> DEFINE new == [escrows[e] EXCEPT !.status = status]
<1>1. escrows[e] \in EscrowRecord
    BY DEF EscrowTypeOK
<1>2. /\ new \in EscrowRecord /\ new.status = status
      /\ new.amount = escrows[e].amount
      /\ new.buyer = escrows[e].buyer /\ new.seller = escrows[e].seller
    BY <1>1 DEF EscrowRecord
<1>3. escrows' = [escrows EXCEPT ![e] = new]
    OBVIOUS
<1> HIDE DEF new
<1>4. /\ Stages' = [Stages EXCEPT ![e] = StageOf(e)']
      /\ Stakes' = [Stakes EXCEPT ![e] = new.amount]
      /\ Pairs' = [Pairs EXCEPT ![e] = <<new.buyer, new.seller>>]
      /\ escrows'[e] = new
    BY <1>2, <1>3, PaymentChanges
<1>5. Stakes' = Stakes
    BY <1>2, <1>4 DEF Stakes
<1>6. Pairs' = Pairs
    BY <1>2, <1>4 DEF Pairs
<1>7. QED
    BY <1>2, <1>4, <1>5, <1>6

LEMMA EscrowCallPays ==
    ASSUME ChainTypeOK, EscrowsOK, NEW caller \in Accounts, EscrowCall(caller)
    PROVE  [Payments!Next]_(Payments!vars)
<1> USE ChainAssumption, ObjectAssumption, EscrowAssumption
<1>0. /\ EscrowTypeOK /\ EscrowInv /\ escrowEther \in Nat
      /\ \A e \in Escrows : escrows[e] \in EscrowRecord
    BY DEF EscrowsOK, EscrowTypeOK
<1>1. ASSUME Stages' = Stages, Stakes' = Stakes, Pairs' = Pairs,
             escrowEther' = escrowEther
      PROVE  UNCHANGED Payments!vars
    BY <1>1 DEF Payments!vars, Stages, Stakes, Pairs
<1>2. CASE setEconomicObjectContract(caller)
  <2>1. escrows' = escrows /\ escrowEther' = escrowEther
    BY <1>2 DEF setEconomicObjectContract
  <2>2. UNCHANGED Payments!vars
    BY <1>1, <2>1 DEF Stages, Stakes, Pairs, StageOf
  <2>3. QED
    BY <2>2
<1>3. ASSUME NEW e \in Escrows, NEW seller \in Addresses \cup {NoAddress},
             NEW deadline \in Deadlines, NEW linked \in Objects \cup {NoLink},
             NEW value \in Amounts,
             lockEscrow(caller, e, seller, deadline, linked, value)
      PROVE  Payments!Next
  <2> DEFINE new == [buyer |-> caller, seller |-> seller, amount |-> value,
                     deadline |-> deadline, status |-> "LOCKED",
                     linkedObjectId |-> linked]
  <2>1. /\ value > 0 /\ value \in Nat /\ seller # NoAddress
        /\ escrows[e].amount = 0 /\ escrowEther' = escrowEther + value
        /\ escrows' = [escrows EXCEPT ![e] = new]
    BY <1>3 DEF lockEscrow, IsUnused
  <2>2. new \in EscrowRecord
    BY DEF EscrowRecord, EscrowStatus
  <2>3. /\ new.status = "LOCKED" /\ new.amount = value
        /\ new.buyer = caller /\ new.seller = seller
    OBVIOUS
  <2> HIDE DEF new
  <2>4. /\ Stages' = [Stages EXCEPT ![e] = StageOf(e)']
        /\ Stakes' = [Stakes EXCEPT ![e] = value]
        /\ Pairs' = [Pairs EXCEPT ![e] = <<caller, seller>>]
        /\ escrows'[e] = new
    BY <1>0, <2>1, <2>2, <2>3, PaymentChanges
  <2>5. Stages[e] = "open" /\ StageOf(e)' = "held"
    BY <2>1, <2>3, <2>4 DEF Stages, StageOf
  <2> DEFINE pair == <<caller, seller>>
  <2>6. pair \in Accounts \X Addresses
    BY <2>1
  <2> HIDE DEF pair
  <2>7. Pairs' = [Pairs EXCEPT ![e] = pair]
    BY <2>4 DEF pair
  <2>8. \E amount \in Amounts :
           /\ amount > 0 /\ Stakes' = [Stakes EXCEPT ![e] = amount]
           /\ escrowEther' = escrowEther + amount
    BY <2>1, <2>4
  <2>9. \E p \in Accounts \X Addresses : Pairs' = [Pairs EXCEPT ![e] = p]
    BY <2>6, <2>7
  <2>10. Payments!Move(e, "open", "held")
    BY <2>4, <2>5 DEF Payments!Move, Stages
  <2>11. Payments!Make(e)
    BY <2>8, <2>9, <2>10 DEF Payments!Make, Stakes, Pairs
  <2>12. QED
    BY <2>11 DEF Payments!Next
<1>4. ASSUME NEW e \in Escrows, submitDelivery(caller, e)
      PROVE  Payments!Next
  <2>1. /\ escrows' = [escrows EXCEPT ![e].status = "DELIVERED"]
        /\ escrowEther' = escrowEther
        /\ escrows[e].status = "LOCKED" /\ escrows[e].seller = caller
    BY <1>4 DEF submitDelivery, IsLocked
  <2>2. /\ Stages' = [Stages EXCEPT ![e] = StageOf(e)']
        /\ Stakes' = Stakes /\ Pairs' = Pairs
        /\ escrows'[e].status = "DELIVERED"
        /\ escrows'[e].amount = escrows[e].amount
    BY <1>0, <2>1, StatusChanges DEF EscrowStatus
  <2>3. escrows[e].amount # 0
    BY <1>0, <2>1 DEF EscrowInv, IsSound
  <2>4. Stages[e] = "held" /\ StageOf(e)' = "delivered"
    BY <2>1, <2>2, <2>3 DEF Stages, StageOf
  <2>5. Payments!Deliver(e)
    BY <2>1, <2>2, <2>4 DEF Payments!Deliver, Payments!Move, Stages, Stakes,
       Pairs
  <2>6. QED
    BY <2>5 DEF Payments!Next
<1>5. ASSUME NEW e \in Escrows, refund(caller, e)
      PROVE  [Payments!Next]_(Payments!vars)
  <2>1. /\ escrows' = [escrows EXCEPT ![e].status = "REFUNDED"]
        /\ escrowEther' = escrowEther - escrows[e].amount
        /\ escrows[e].status = "LOCKED"
    BY <1>5 DEF refund, RefundAllowed, IsLocked, PayOut
  <2>2. /\ Stages' = [Stages EXCEPT ![e] = StageOf(e)']
        /\ Stakes' = Stakes /\ Pairs' = Pairs
        /\ escrows'[e].status = "REFUNDED"
        /\ escrows'[e].amount = escrows[e].amount
    BY <1>0, <2>1, StatusChanges DEF EscrowStatus
  <2>3. CASE escrows[e].amount = 0
    <3>1. Stages[e] = "open" /\ StageOf(e)' = "open"
      BY <2>2, <2>3 DEF Stages, StageOf
    <3>2. Stages' = Stages
      BY <2>2, <3>1 DEF Stages
    <3>3. escrowEther' = escrowEther
      BY <1>0, <2>1, <2>3
    <3>4. QED
      BY <1>1, <2>2, <3>2, <3>3
  <2>4. CASE escrows[e].amount # 0
    <3>1. Stages[e] = "held" /\ StageOf(e)' = "returned"
      BY <2>1, <2>2, <2>4 DEF Stages, StageOf
    <3>2. Payments!Return(e)
      BY <2>1, <2>2, <3>1 DEF Payments!Return, Payments!Move, Stages, Stakes,
         Pairs
    <3>3. QED
      BY <3>2 DEF Payments!Next
  <2>5. QED
    BY <2>3, <2>4
<1>6. ASSUME NEW e \in Escrows, verifyAndRelease(caller, e)
      PROVE  Payments!Next
  <2>1. /\ escrows' = [escrows EXCEPT ![e].status = "RELEASED"]
        /\ escrowEther' = escrowEther - escrows[e].amount
        /\ IsDelivered(e)
    BY <1>6 DEF verifyAndRelease, PayOut
  <2>2. /\ Stages' = [Stages EXCEPT ![e] = StageOf(e)']
        /\ Stakes' = Stakes /\ Pairs' = Pairs
        /\ escrows'[e].status = "RELEASED"
        /\ escrows'[e].amount = escrows[e].amount
    BY <1>0, <2>1, StatusChanges DEF EscrowStatus
  <2>3. escrows[e].amount # 0 /\ escrows[e].status = "DELIVERED"
    BY <1>0, <2>1 DEF EscrowInv, IsSound, IsDelivered
  <2>4. Stages[e] = "delivered" /\ StageOf(e)' = "paid"
    BY <2>2, <2>3 DEF Stages, StageOf
  <2>5. Payments!Pay(e)
    BY <2>1, <2>2, <2>4 DEF Payments!Pay, Payments!Move, Stages, Stakes, Pairs
  <2>6. QED
    BY <2>5 DEF Payments!Next
<1>7. QED
    BY <1>2, <1>3, <1>4, <1>5, <1>6 DEF EscrowCall

LEMMA PaymentsInit == TradeInit => Payments!Init
BY DEF TradeInit, EscrowInit, NoEscrow, Payments!Init, StageOf

LEMMA PaymentsStep ==
    TradeInv /\ [TradeNext]_tradeVars => [Payments!Next]_(Payments!vars)
<1> SUFFICES ASSUME TradeInv, [TradeNext]_tradeVars
             PROVE  [Payments!Next]_(Payments!vars)
    OBVIOUS
<1>1. CASE UNCHANGED escrowVars
  <2>1. escrows' = escrows /\ escrowEther' = escrowEther
    BY <1>1 DEF escrowVars
  <2>2. UNCHANGED Payments!vars
    BY <2>1 DEF Payments!vars, StageOf
  <2>3. QED
    BY <2>2
<1>2. ASSUME NEW caller \in Accounts, EscrowCall(caller)
      PROVE  [Payments!Next]_(Payments!vars)
    BY <1>2, EscrowCallPays DEF TradeInv, TradeTypeOK, EscrowsOK
<1>3. QED
    BY <1>1, <1>2 DEF TradeNext, Transaction, tradeVars

\* Every escrow is a conditional payment: held once with fixed terms, paid
\* after delivery or returned before, never both.
THEOREM EscrowImplementsPayments == TradeSpec => ImplementsPayments
<1>1. TradeInv /\ [TradeNext]_tradeVars => [Payments!Next]_(Payments!vars)
    BY PaymentsStep
<1>2. TradeInit => Payments!Init
    BY PaymentsInit
<1>3. QED
    BY <1>1, <1>2, TradeInvariant, PTL
       DEF TradeSpec, ImplementsPayments, Payments!Spec

-----------------------------------------------------------------------------
(* Objects move by right                                                   *)

\* A transfer moves the object it names, to whom it names.
LEMMA TransferMovesOne ==
    ASSUME ObjectTypeOK, NEW x, NEW y, ExecuteTransfer(x, y),
           NEW id \in Objects, OwnerOf(id)' # OwnerOf(id)
    PROVE  x = id /\ OwnerOf(id)' = y
<1>1. objects' = [objects EXCEPT ![x].owner = y]
    BY DEF ExecuteTransfer
<1>2. objects \in [Objects -> EconomicObject]
    BY DEF ObjectTypeOK
<1>3. x = id
    BY <1>1, <1>2 DEF OwnerOf
<1>4. OwnerOf(id)' = y
    BY <1>1, <1>2, <1>3 DEF OwnerOf, EconomicObject
<1>5. QED
    BY <1>3, <1>4

\* What a purchase does to the wallets of seller and buyer, either of whom may
\* be the fee recipient.
LEMMA PurchasePays ==
    ASSUME ChainTypeOK, MarketTypeOK, MarketKeepsNothing,
           NEW caller \in Accounts, NEW l \in Listings, NEW value \in Amounts,
           buyObject(caller, l, value), caller # listings[l].seller
    PROVE  LET price == listings[l].price
               from == listings[l].seller
               FeeTo(u) == IF u = feeRecipient THEN Fee(price) ELSE 0
           IN  /\ wallets'[from] = wallets[from] + SellerShare(price) + FeeTo(from)
               /\ wallets'[caller] + price = wallets[caller] + FeeTo(caller)
<1> DEFINE price == listings[l].price
           fee == Fee(price)
           excess == Excess(value, price)
           seller == listings[l].seller
           FeeTo(u) == IF u = feeRecipient THEN fee ELSE 0
           w1 == Charged(wallets, caller, value)
           w2 == Paid(w1, seller, price - fee)
           w3 == IF fee > 0 THEN Paid(w2, feeRecipient, fee) ELSE w2
           w4 == Paid(w3, caller, excess)
<1>1. /\ value >= price /\ CanAfford(caller, value)
      /\ Accepts(seller) /\ (fee > 0 => Accepts(feeRecipient))
      /\ wallets' = w4
    BY DEF buyObject
<1>2. /\ seller \in Accounts /\ (fee > 0 => feeRecipient \in Accounts)
      /\ price \in Nat /\ value \in Nat
      /\ wallets \in [Accounts -> Nat] /\ value <= wallets[caller]
    BY <1>1, ChainAssumption DEF MarketTypeOK, Listing, Accepts, CanAfford,
       ChainTypeOK
<1>3. fee \in Nat /\ price - fee \in Nat
    BY <1>2, FeeBound
<1>4. excess = value - price /\ excess \in Nat /\ SellerShare(price) = price - fee
    BY <1>1, <1>2 DEF Excess, SellerShare
<1>5. seller # caller
    OBVIOUS
<1> HIDE DEF price, fee, excess, seller
<1>6. /\ w1 \in [Accounts -> Nat] /\ w1[seller] = wallets[seller]
      /\ w1[caller] + value = wallets[caller]
    BY <1>2, <1>5 DEF Charged
<1> HIDE DEF w1
<1>7. /\ w2 \in [Accounts -> Nat] /\ w2[seller] = w1[seller] + (price - fee)
      /\ w2[caller] = w1[caller]
    BY <1>2, <1>3, <1>5, <1>6 DEF Paid
<1> HIDE DEF w2
<1>8. /\ w3 \in [Accounts -> Nat]
      /\ \A u \in Accounts : w3[u] = w2[u] + FeeTo(u)
  <2>1. CASE fee > 0
    BY <1>2, <1>3, <1>7, <2>1 DEF Paid
  <2>2. CASE fee = 0
    BY <1>7, <2>2
  <2>3. QED
    BY <1>3, <2>1, <2>2
<1> HIDE DEF w3
<1>9. w4[seller] = w3[seller] /\ w4[caller] = w3[caller] + excess
    BY <1>2, <1>4, <1>5, <1>8 DEF Paid
<1> HIDE DEF w4
<1>10. FeeTo(seller) \in Nat /\ FeeTo(caller) \in Nat
    BY <1>3
<1>11. w3[seller] = w2[seller] + FeeTo(seller) /\ w3[caller] = w2[caller] + FeeTo(caller)
    BY <1>2, <1>8
<1> HIDE DEF FeeTo
<1>12. /\ wallets'[seller] = wallets[seller] + SellerShare(price) + FeeTo(seller)
       /\ wallets'[caller] + price = wallets[caller] + FeeTo(caller)
  <2>1. /\ wallets[seller] \in Nat /\ wallets[caller] \in Nat /\ w1[caller] \in Nat
        /\ w1[seller] \in Nat
    BY <1>2, <1>6
  <2>2. QED
    BY <1>1, <1>2, <1>3, <1>4, <1>6, <1>7, <1>9, <1>10, <1>11, <2>1
<1>13. QED
    BY <1>12 DEF price, seller, fee, FeeTo

MovesByRight(id, to) ==
    \/ /\ \E spender \in Accounts : transferObject(spender, id, to)
       /\ UNCHANGED <<wallets, listings, escrows>>
    \/ Sold(id, OwnerOf(id), to)
    \/ \E e \in Escrows :
          /\ escrows[e].linkedObjectId = id
          /\ escrows[e].status = "DELIVERED"
          /\ escrows'[e].status = "RELEASED"
          /\ escrows[e].buyer = to
          /\ Exchanged(e)

LEMMA MovedStep ==
    ASSUME TradeInv, TradeNext, NEW id \in Objects, NEW to \in Addresses,
           OwnerOf(id) \notin {NoAddress, to}, OwnerOf(id)' = to
    PROVE  MovesByRight(id, to)
<1> USE ChainAssumption, ObjectAssumption, MarketAssumption, EscrowAssumption
<1>0. /\ ChainTypeOK /\ ObjectTypeOK /\ MarketTypeOK /\ EscrowTypeOK /\ EscrowInv
      /\ MarketKeepsNothing /\ OwnerOf(id)' # OwnerOf(id)
    BY DEF TradeInv, TradeTypeOK
<1>1. objects' # objects
    BY <1>0 DEF OwnerOf
<1>2. ASSUME NEW caller \in Accounts, ObjectCall(caller),
             UNCHANGED <<wallets, marketVars, escrowVars>>
      PROVE  MovesByRight(id, to)
  <2>1. ASSUME NEW x \in Objects, NEW y \in Addresses \cup {NoAddress},
               \/ transferObject(caller, x, y)
               \/ \E from \in Addresses : transferFrom(caller, from, y, x)
        PROVE  MovesByRight(id, to)
    <3>1. IsApprovedOrOwner(caller, x) /\ ExecuteTransfer(x, y)
      BY <2>1 DEF transferObject, transferFrom
    <3>2. x = id /\ y = to
      BY <1>0, <3>1, TransferMovesOne
    <3>3. transferObject(caller, id, to)
      BY <3>1, <3>2 DEF transferObject
    <3>4. UNCHANGED <<wallets, listings, escrows>>
      BY <1>2 DEF marketVars, escrowVars
    <3>5. QED
      BY <3>3, <3>4 DEF MovesByRight
  <2>2. ASSUME NEW x \in Objects, NEW expiry \in Expiries,
               NEW transferable \in BOOLEAN,
               createObject(caller, x, expiry, transferable)
        PROVE  FALSE
    <3>1. OwnerOf(x) = NoAddress /\ x # id
      BY <2>2 DEF createObject
    <3>2. OwnerOf(id)' = OwnerOf(id)
      BY <1>0, <2>2, <3>1 DEF createObject, OwnerOf, ObjectTypeOK
    <3>3. QED
      BY <1>0, <3>2
  <2>3. ASSUME NEW x \in Objects, NEW newStatus \in NewStatuses,
               setStatus(caller, x, newStatus)
        PROVE  FALSE
    <3>1. OwnerOf(id)' = OwnerOf(id)
      BY <1>0, <2>3 DEF setStatus, OwnerOf, ObjectTypeOK, EconomicObject
    <3>2. QED
      BY <1>0, <3>1
  <2>4. ASSUME NEW operator \in Operators, NEW approved \in BOOLEAN,
               setApprovalForAll(caller, operator, approved)
        PROVE  FALSE
    BY <1>1, <2>4 DEF setApprovalForAll
  <2>5. ASSUME NEW x \in Objects, NEW y \in Operators \cup {NoAddress},
               approve(caller, y, x)
        PROVE  FALSE
    BY <1>1, <2>5 DEF approve
  <2>6. QED
    BY <1>2, <2>1, <2>2, <2>3, <2>4, <2>5 DEF ObjectCall
<1>3. ASSUME NEW caller \in Accounts, MarketCall(caller)
      PROVE  MovesByRight(id, to)
  <2>1. PICK l \in Listings, value \in Amounts : buyObject(caller, l, value)
    BY <1>1, <1>3 DEF MarketCall, objectVars
  <2>2. /\ listings[l].active /\ listings' = [listings EXCEPT ![l].active = FALSE]
        /\ caller # listings[l].seller
        /\ OwnerOf(listings[l].objectId) = listings[l].seller
        /\ ExecuteTransfer(listings[l].objectId, caller)
    BY <2>1 DEF buyObject, transferFrom
  <2>3. listings[l].objectId = id /\ caller = to
    BY <1>0, <2>2, TransferMovesOne
  <2>4. ~listings'[l].active
    BY <1>0, <2>2 DEF MarketTypeOK, Listing
  <2>5. LET price == listings[l].price
            from == listings[l].seller
            FeeTo(u) == IF u = feeRecipient THEN Fee(price) ELSE 0
        IN  /\ wallets'[from] = wallets[from] + SellerShare(price) + FeeTo(from)
            /\ wallets'[caller] + price = wallets[caller] + FeeTo(caller)
    BY <1>0, <2>1, <2>2, PurchasePays
  <2>6. Sold(id, OwnerOf(id), to)
    BY <2>2, <2>3, <2>4, <2>5 DEF Sold
  <2>7. QED
    BY <2>6 DEF MovesByRight
<1>4. ASSUME NEW caller \in Accounts, EscrowCall(caller)
      PROVE  MovesByRight(id, to)
  <2>1. PICK e \in Escrows : verifyAndRelease(caller, e) /\ objects' # objects
    BY <1>1, <1>4 DEF EscrowCall, objectVars
  <2> DEFINE linked == escrows[e].linkedObjectId
             seller == escrows[e].seller
             buyer == escrows[e].buyer
  <2>2. /\ IsDelivered(e) /\ escrows' = [escrows EXCEPT ![e].status = "RELEASED"]
        /\ OwnerOf(linked) = seller /\ ExecuteTransfer(linked, buyer)
        /\ PayOut(e, seller)
    BY <2>1 DEF verifyAndRelease, transferFrom, objectVars
  <2>3. linked = id /\ buyer = to
    BY <1>0, <2>2, TransferMovesOne
  <2>4. escrows[e].status = "DELIVERED" /\ escrows'[e].status = "RELEASED"
    BY <1>0, <2>2 DEF IsDelivered, EscrowInv, IsSound, EscrowTypeOK, EscrowRecord
  <2>5. seller # NoAddress
    BY <2>2, <2>3
  <2>6. seller \in Accounts /\ wallets' = Paid(wallets, seller, escrows[e].amount)
    BY <2>2, <2>5 DEF PayOut, Accepts
  <2>7. wallets'[seller] = wallets[seller] + escrows[e].amount
    BY <1>0, <2>6 DEF Paid, ChainTypeOK
  <2>8. objects'[linked].owner = buyer
    BY <2>3 DEF OwnerOf
  <2>9. Exchanged(e)
    BY <2>2, <2>7, <2>8 DEF Exchanged
  <2>10. QED
    BY <2>3, <2>4, <2>9 DEF MovesByRight
<1>5. CASE Advance /\ UNCHANGED <<objectVars, marketVars, escrowVars>>
    BY <1>1, <1>5 DEF objectVars
<1>6. QED
    BY <1>2, <1>3, <1>4, <1>5 DEF TradeNext, Transaction

\* An object changes hands by a transfer of its owner or of whom the owner
\* approved, by a sale that pays this owner, or by an escrow that pays this
\* owner (ECONEconomicObject.sol, transferObject and transferFrom).
THEOREM ObjectsMoveByRight == TradeSpec => MovedByRight
<1>1. TradeInv /\ [TradeNext]_tradeVars =>
          [\A id \in Objects, to \in Addresses :
             OwnerOf(id) \notin {NoAddress, to} /\ OwnerOf(id)' = to =>
                 MovesByRight(id, to)]_tradeVars
    BY MovedStep
<1>2. QED
    BY <1>1, TradeInvariant, PTL DEF TradeSpec, MovedByRight, MovesByRight

-----------------------------------------------------------------------------
(* Listings                                                                *)

LEMMA ListingStep ==
    ASSUME TradeInv, TradeNext, NEW l \in Listings \ {ZeroId}, IsListed(l)
    PROVE  \/ listings'[l] = listings[l]
           \/ /\ listings[l].active
              /\ listings'[l] = [listings[l] EXCEPT !.active = FALSE]
<1>1. listings \in [Listings -> Listing]
    BY DEF TradeInv, TradeTypeOK, MarketTypeOK
<1>2. CASE UNCHANGED marketVars
    BY <1>2 DEF marketVars
<1>3. ASSUME NEW caller \in Accounts, MarketCall(caller)
      PROVE  \/ listings'[l] = listings[l]
             \/ /\ listings[l].active
                /\ listings'[l] = [listings[l] EXCEPT !.active = FALSE]
  <2>1. ASSUME NEW x \in Listings, listings[x].active,
               listings' = [listings EXCEPT ![x].active = FALSE]
        PROVE  \/ listings'[l] = listings[l]
               \/ /\ listings[l].active
                  /\ listings'[l] = [listings[l] EXCEPT !.active = FALSE]
      BY <1>1, <2>1
  <2>2. ASSUME NEW x \in Listings, NEW objectId \in Objects, NEW price \in Amounts,
               listObject(caller, x, objectId, price)
        PROVE  listings'[l] = listings[l]
      BY <1>1, <2>2 DEF listObject, Fresh
  <2>3. ASSUME NEW newRecipient \in FeeRecipients,
               setFeeRecipient(caller, newRecipient)
        PROVE  listings'[l] = listings[l]
      BY <2>3 DEF setFeeRecipient
  <2>4. ASSUME NEW x \in Listings, cancelListing(caller, x)
        PROVE  /\ listings[x].active
               /\ listings' = [listings EXCEPT ![x].active = FALSE]
      BY <2>4 DEF cancelListing
  <2>5. ASSUME NEW x \in Listings, NEW value \in Amounts,
               buyObject(caller, x, value)
        PROVE  /\ listings[x].active
               /\ listings' = [listings EXCEPT ![x].active = FALSE]
      BY <2>5 DEF buyObject
  <2>6. QED
      BY <1>3, <2>1, <2>2, <2>3, <2>4, <2>5 DEF MarketCall
<1>4. QED
    BY <1>2, <1>3 DEF TradeNext, Transaction

\* The terms of a listing never change and a closed one never opens again,
\* for every id but 0 (ECONMarketplace.sol, listObject).
THEOREM ListingsDoNotChange == TradeSpec => ListingsAreFinal
<1>1. TradeInv /\ [TradeNext]_tradeVars =>
          [\A l \in Listings \ {ZeroId} : IsListed(l) =>
             \/ listings'[l] = listings[l]
             \/ /\ listings[l].active
                /\ listings'[l] = [listings[l] EXCEPT !.active = FALSE]]_listings
    BY ListingStep DEF tradeVars, marketVars
<1>2. QED
    BY <1>1, TradeInvariant, PTL DEF TradeSpec, ListingsAreFinal
-----------------------------------------------------------------------------
(* The identity registry                                                   *)

RegistryInv == RegistryTypeOK /\ OneWalletOneAgent

LEMMA RegisterKeeps ==
    ASSUME RegistryInv, NEW caller \in Accounts, NEW a \in Ids,
           NEW metadataHash \in Metadata,
           registerAgentWithURI(caller, a, metadataHash)
    PROVE  RegistryInv'
<1> DEFINE new == [controller |-> caller, metadataHash |-> metadataHash,
                   active |-> TRUE]
<1>1. new \in Identity /\ new.controller = caller
    BY DEF Identity
<1>2. /\ identities[a].controller = NoAddress /\ walletToAgent[caller] = ZeroAgent
      /\ identities' = [identities EXCEPT ![a] = new]
      /\ walletToAgent' = [walletToAgent EXCEPT ![caller] = a]
    BY DEF registerAgentWithURI, MayRegister, IsRegistered
<1> HIDE DEF new
<1>3. RegistryTypeOK'
    BY <1>1, <1>2 DEF RegistryInv, RegistryTypeOK
<1>4. /\ identities'[a].controller = caller /\ walletToAgent'[caller] = a
      /\ \A b \in Ids \ {a} : identities'[b] = identities[b]
      /\ \A u \in Accounts \ {caller} : walletToAgent'[u] = walletToAgent[u]
      /\ \A u \in Accounts : walletToAgent[u] \in Ids
    BY <1>1, <1>2 DEF RegistryInv, RegistryTypeOK
<1>5. ASSUME NEW u \in Accounts, walletToAgent'[u] # ZeroAgent
      PROVE  identities'[walletToAgent'[u]].controller = u
  <2>1. CASE u = caller
    BY <1>4, <2>1
  <2>2. CASE u # caller
    <3>1. walletToAgent'[u] = walletToAgent[u]
      BY <1>4, <2>2
    <3>2. identities[walletToAgent[u]].controller = u
      BY <1>5, <3>1 DEF RegistryInv, OneWalletOneAgent
    <3>3. u # NoAddress
      BY ChainAssumption
    <3>4. walletToAgent[u] # a
      BY <1>2, <3>2, <3>3
    <3>5. QED
      BY <1>4, <3>1, <3>2, <3>4
  <2>3. QED
    BY <2>1, <2>2
<1>6. ASSUME NEW b \in AgentIds, identities'[b].controller # NoAddress
      PROVE  walletToAgent'[identities'[b].controller] = b
  <2>1. CASE b = a
    BY <1>4, <2>1
  <2>2. CASE b # a
    <3>1. identities'[b] = identities[b]
      BY <1>4, <2>2 DEF Ids
    <3>2. walletToAgent[identities[b].controller] = b
      BY <1>6, <3>1 DEF RegistryInv, OneWalletOneAgent, IsRegistered
    <3>3. identities[b].controller # caller
      BY <1>2, <3>2, RegistryAssumption
    <3>4. identities[b].controller \in Accounts
      BY <1>6, <3>1 DEF RegistryInv, RegistryTypeOK, Ids, Identity, NoIdentity
    <3>5. QED
      BY <1>4, <3>1, <3>2, <3>3, <3>4
  <2>3. QED
    BY <2>1, <2>2
<1>7. QED
    BY <1>3, <1>5, <1>6 DEF RegistryInv, OneWalletOneAgent, IsRegistered

\* Changing a registered identity's other fields keeps its controller.
LEMMA UpdateKeeps ==
    ASSUME RegistryInv, NEW a \in Ids, NEW new \in Identity,
           new.controller = identities[a].controller,
           identities' = [identities EXCEPT ![a] = new], UNCHANGED walletToAgent
    PROVE  RegistryInv'
<1>1. RegistryTypeOK'
    BY DEF RegistryInv, RegistryTypeOK
<1>2. \A b \in Ids : identities'[b].controller = identities[b].controller
    BY DEF RegistryInv, RegistryTypeOK
<1>3. \A u \in Accounts : walletToAgent[u] \in Ids
    BY DEF RegistryInv, RegistryTypeOK
<1>4. QED
    BY <1>1, <1>2, <1>3 DEF RegistryInv, OneWalletOneAgent, IsRegistered, Ids

LEMMA ControlledIdentity ==
    ASSUME RegistryTypeOK, NEW caller \in Accounts, NEW a \in Ids,
           OnlyController(caller, a)
    PROVE  identities[a] \in Identity
BY ChainAssumption DEF RegistryTypeOK, OnlyController, NoIdentity

LEMMA RegistryStep ==
    RegistryInv /\ [RegistryNext]_<<wallets, blockTime, registryVars>>
        => RegistryInv'
<1> SUFFICES ASSUME RegistryInv, [RegistryNext]_<<wallets, blockTime, registryVars>>
             PROVE  RegistryInv'
    OBVIOUS
<1>1. CASE UNCHANGED registryVars
    BY <1>1 DEF registryVars, RegistryInv, RegistryTypeOK, OneWalletOneAgent,
       IsRegistered
<1>2. ASSUME NEW caller \in Accounts, NEW a \in Ids, NEW active \in BOOLEAN,
             setStatusOf(caller, a, active)
      PROVE  RegistryInv'
  <2> DEFINE new == [identities[a] EXCEPT !.active = active]
  <2>1. identities[a] \in Identity
    BY <1>2, ControlledIdentity DEF setStatusOf, RegistryInv
  <2>2. new \in Identity /\ new.controller = identities[a].controller
    BY <2>1 DEF Identity
  <2>3. identities' = [identities EXCEPT ![a] = new] /\ UNCHANGED walletToAgent
    BY <1>2 DEF setStatusOf
  <2> HIDE DEF new
  <2>4. QED
    BY <2>2, <2>3, UpdateKeeps
<1>3. ASSUME NEW caller \in Accounts, NEW a \in Ids, NEW newHash \in Metadata,
             updateMetadata(caller, a, newHash)
      PROVE  RegistryInv'
  <2> DEFINE new == [identities[a] EXCEPT !.metadataHash = newHash]
  <2>1. identities[a] \in Identity
    BY <1>3, ControlledIdentity DEF updateMetadata, RegistryInv
  <2>2. new \in Identity /\ new.controller = identities[a].controller
    BY <2>1 DEF Identity
  <2>3. identities' = [identities EXCEPT ![a] = new] /\ UNCHANGED walletToAgent
    BY <1>3 DEF updateMetadata
  <2> HIDE DEF new
  <2>4. QED
    BY <2>2, <2>3, UpdateKeeps
<1>4. QED
    BY <1>1, <1>2, <1>3, RegisterKeeps DEF RegistryNext, registryVars

\* The two mappings are each other's inverse after any registrations
\* (ECONIdentityRegistry.sol, registerAgent).
THEOREM WalletsAndAgentsMatch == RegistrySpec => []OneWalletOneAgent
<1>1. ChainInit /\ RegistryInit => RegistryInv
    BY RegistryAssumption
       DEF RegistryInit, RegistryInv, RegistryTypeOK, OneWalletOneAgent,
           IsRegistered, NoIdentity, Ids
<1>2. RegistryInv => OneWalletOneAgent
    BY DEF RegistryInv
<1>3. QED
    BY <1>1, <1>2, RegistryStep, PTL DEF RegistrySpec

-----------------------------------------------------------------------------
(* The index: the inductive invariant                                      *)

Tables ==
    {"agents", "objects", "escrows", "listings", "reservations", "recoveries"}

\* The events that wait are a queue.
IsQueue(queue) == \E E : queue \in Seq(E)

\* The entities are a record of these tables.
AreEntities(en) == en = [table \in Tables |-> en[table]]

ObjectRowOK(id) ==
    LET row == CaughtUp.objects[id]
    IN  /\ {"owner", "status"} \subseteq DOMAIN row
        /\ row.owner = OwnerOf(id) /\ row.status = objects[id].status

\* An object that was recovered has its recovery.
RecoveryShown(id) ==
    objects[id].status = "RECOVERED" =>
        \E recovery \in CaughtUp.recoveries :
            recovery.of = id /\ recovery.agent = OwnerOf(id)

ObjectsShown ==
    /\ DOMAIN CaughtUp.objects = {id \in Objects : ObjectExists(id)}
    /\ \A id \in DOMAIN CaughtUp.objects : ObjectRowOK(id)
    /\ \A id \in Objects : RecoveryShown(id)

EscrowFields == {"buyer", "seller", "amount", "status", "linkedObjectId"}
EscrowRowOK(e) ==
    LET row == CaughtUp.escrows[e]
    IN  /\ EscrowFields \subseteq DOMAIN row
        /\ \A field \in EscrowFields : row[field] = escrows[e][field]

EscrowsShown ==
    /\ DOMAIN CaughtUp.escrows = {e \in Escrows : EscrowExists(e)}
    /\ \A e \in DOMAIN CaughtUp.escrows : EscrowRowOK(e)

ListingFields == {"objectId", "seller", "price", "active"}
ListingRowOK(l) ==
    LET row == CaughtUp.listings[l]
    IN  /\ ListingFields \subseteq DOMAIN row
        /\ \A field \in ListingFields : row[field] = listings[l][field]

\* A listing that can be bought is of an object; one that was never made
\* cannot.
ListingOK(l) == listings[l].active => listings[l].objectId \in Objects /\ IsListed(l)

ListingsShown ==
    /\ DOMAIN CaughtUp.listings = {l \in Listings : IsListed(l)}
    /\ \A l \in DOMAIN CaughtUp.listings : ListingRowOK(l)
    /\ \A l \in Listings : ListingOK(l)

AgentRowOK(a) ==
    LET row == CaughtUp.agents[a]
    IN  /\ {"controller", "active"} \subseteq DOMAIN row
        /\ row.controller = identities[a].controller
        /\ row.active = identities[a].active

AgentsShown ==
    /\ DOMAIN CaughtUp.agents = {a \in Ids : IsRegistered(a)}
    /\ \A a \in DOMAIN CaughtUp.agents : AgentRowOK(a)

\* What a reservation is recycled, by its row.
Recycled ==
    [id \in ReservationIds |->
        IF id \in DOMAIN CaughtUp.reservations
        THEN CaughtUp.reservations[id].recycled ELSE 0]

RowAccounted(id) ==
    LET row == CaughtUp.reservations[id]
    IN  /\ {"amount", "consumed", "refunded", "recycled", "status"}
              \subseteq DOMAIN row
        /\ row.consumed \in Nat /\ row.refunded \in Nat /\ row.recycled \in Nat
        /\ row.amount = reservations[id].amount
        /\ ReservationAccounted(id)

ReservationsShown ==
    /\ DOMAIN CaughtUp.reservations =
          {id \in ReservationIds : reservations[id].amount > 0}
    /\ \A id \in DOMAIN CaughtUp.reservations : RowAccounted(id)
    /\ recyclablePool = Total(Recycled)

VaultOK ==
    /\ reservations \in [ReservationIds -> Vault!Reservation]
    /\ recyclablePool \in Nat

ContractsOK ==
    /\ ChainTypeOK /\ ObjectsOK /\ MarketTypeOK /\ MarketKeepsNothing
    /\ EscrowsOK /\ RegistryInv /\ VaultOK

IndexInv ==
    /\ ContractsOK
    /\ IsQueue(pending) /\ AreEntities(CaughtUp)
    /\ ObjectsShown /\ EscrowsShown /\ ListingsShown /\ AgentsShown
    /\ ReservationsShown

-----------------------------------------------------------------------------
(* The fold of a queue                                                     *)

\* What the entities are once a queue is handled.
Caught(en, queue) == FoldLeft(Handled, en, queue)

\* What the recursion of that fold says of its function.
IsCatchUp(iter, en, queue) ==
    iter = [s \in SUBSET (DOMAIN queue) |->
              IF s = {} THEN en
              ELSE Handled(iter[s \ {Max(s)}], queue[Max(s)])]

LEMMA CaughtIsIter ==
    ASSUME NEW en, NEW queue
    PROVE  Caught(en, queue) =
             (CHOOSE iter : IsCatchUp(iter, en, queue))[DOMAIN queue]
BY DEF Caught, FoldLeft, MapThenFoldSet, IsCatchUp

\* The same recursion on the subsets of the first n places.
IsCatchUpTo(n, iter, en, queue) ==
    iter = [s \in SUBSET (1..n) |->
              IF s = {} THEN en
              ELSE Handled(iter[s \ {Max(s)}], queue[Max(s)])]

LEMMA MaxOfPlaces ==
    ASSUME NEW n \in Nat, NEW s \in SUBSET (1..n), n \in s
    PROVE  Max(s) = n
<1>1. \A y \in s : y \in Int /\ n >= y
    OBVIOUS
<1>2. \A x \in s : (\A y \in s : x >= y) => x = n
    BY <1>1
<1>3. QED
    BY <1>1, <1>2, Zenon DEF Max

LEMMA CatchUpGrows ==
    ASSUME NEW n \in Nat, NEW en, NEW queue, NEW g, IsCatchUpTo(n, g, en, queue)
    PROVE  \E h : IsCatchUpTo(n + 1, h, en, queue)
<1> DEFINE m == n + 1
           h == [s \in SUBSET (1..m) |->
                   IF m \notin s THEN g[s] ELSE Handled(g[s \ {m}], queue[m])]
<1>1. ASSUME NEW s \in SUBSET (1..m), m \notin s
      PROVE  s \in SUBSET (1..n)
    BY <1>1
<1>2. ASSUME NEW s \in SUBSET (1..n)
      PROVE  g[s] = IF s = {} THEN en
                    ELSE Handled(g[s \ {Max(s)}], queue[Max(s)])
    BY <1>2 DEF IsCatchUpTo
<1>3. m \in Nat /\ m \notin 1..n /\ 1..n \subseteq 1..m
    OBVIOUS
<1> HIDE DEF m
<1>4. ASSUME NEW s \in SUBSET (1..m)
      PROVE  h[s] = IF s = {} THEN en
                    ELSE Handled(h[s \ {Max(s)}], queue[Max(s)])
  <2>1. CASE m \notin s
    <3>1. s \in SUBSET (1..n) /\ s \ {Max(s)} \in SUBSET (1..n)
      BY <1>1, <2>1
    <3>2. h[s] = g[s]
      BY <2>1
    <3>3. h[s \ {Max(s)}] = g[s \ {Max(s)}]
      BY <2>1
    <3> HIDE DEF h
    <3>4. QED
      BY <1>2, <3>1, <3>2, <3>3
  <2>2. CASE m \in s
    <3>1. Max(s) = m
      BY <1>3, <2>2, MaxOfPlaces
    <3>2. h[s] = Handled(g[s \ {m}], queue[m])
      BY <2>2
    <3>3. h[s \ {m}] = g[s \ {m}]
      OBVIOUS
    <3> HIDE DEF h
    <3>4. QED
      BY <2>2, <3>1, <3>2, <3>3
  <2>3. QED
    BY <2>1, <2>2
<1>5. h = [s \in SUBSET (1..m) |-> h[s]]
    OBVIOUS
<1> HIDE DEF h
<1>6. IsCatchUpTo(m, h, en, queue)
    BY <1>4, <1>5 DEF IsCatchUpTo
<1>7. QED
    BY <1>6 DEF m

\* So there is such a function, for a queue of any length.
LEMMA CatchUpExists ==
    ASSUME NEW n \in Nat, NEW en, NEW queue
    PROVE  \E h : IsCatchUpTo(n, h, en, queue)
<1> DEFINE without == {k \in Nat : ~ \E h : IsCatchUpTo(k, h, en, queue)}
<1>1. SUFFICES ASSUME without # {} PROVE FALSE
    OBVIOUS
<1>2. PICK k \in without : \A j \in without : k <= j
    BY <1>1, LeastNumber
<1>3. k # 0
  <2> DEFINE h == [s \in SUBSET (1..0) |-> en]
  <2>1. \A s \in SUBSET (1..0) : s = {}
    OBVIOUS
  <2>2. h = [s \in SUBSET (1..0) |->
               IF s = {} THEN en
               ELSE Handled(h[s \ {Max(s)}], queue[Max(s)])]
    BY <2>1
  <2>3. IsCatchUpTo(0, h, en, queue)
    BY <2>2 DEF IsCatchUpTo
  <2>4. QED
    BY <1>2, <2>3
<1>4. k - 1 \in Nat /\ k - 1 \notin without
    BY <1>2, <1>3
<1>5. PICK g : IsCatchUpTo(k - 1, g, en, queue)
    BY <1>4
<1>6. \E h : IsCatchUpTo(k - 1 + 1, h, en, queue)
    BY <1>4, <1>5, CatchUpGrows
<1>7. k - 1 + 1 = k
    BY <1>4
<1>8. QED
    BY <1>2, <1>6, <1>7

-----------------------------------------------------------------------------
\* The entities after each event of a queue.
IsPath(path, en, queue) ==
    /\ path[0] = en
    /\ \A k \in 1..Len(queue) : path[k] = Handled(path[k - 1], queue[k])

LEMMA CaughtIsPath ==
    ASSUME NEW E, NEW queue \in Seq(E), NEW en
    PROVE  \E path : IsPath(path, en, queue) /\ Caught(en, queue) = path[Len(queue)]
<1> DEFINE n == Len(queue)
           iter == CHOOSE iter : IsCatchUp(iter, en, queue)
           path == [k \in 0..n |-> iter[1..k]]
<1>1. n \in Nat /\ DOMAIN queue = 1..n
    OBVIOUS
<1>2. IsCatchUp(iter, en, queue)
  <2>1. \E h : IsCatchUpTo(n, h, en, queue)
    BY <1>1, CatchUpExists
  <2>2. \E h : IsCatchUp(h, en, queue)
    BY <1>1, <2>1 DEF IsCatchUp, IsCatchUpTo
  <2>3. QED
    BY <2>2
<1>3. Caught(en, queue) = iter[1..n]
    BY <1>1, CaughtIsIter
<1> HIDE DEF iter
<1>4. \A s \in SUBSET (1..n) : iter[s] = IF s = {} THEN en
                    ELSE Handled(iter[s \ {Max(s)}], queue[Max(s)])
    BY <1>1, <1>2 DEF IsCatchUp
<1>5. path[0] = en
  <2>1. 1..0 = {} /\ 0 \in 0..n
    BY <1>1
  <2>2. QED
    BY <1>4, <2>1
<1>6. ASSUME NEW k \in 1..n
      PROVE  path[k] = Handled(path[k - 1], queue[k])
  <2>1. /\ k \in Nat /\ k \in 0..n /\ k - 1 \in 0..n
        /\ 1..k \in SUBSET (1..n) /\ k \in 1..k
        /\ (1..k) \ {k} = 1..(k - 1)
    BY <1>1
  <2>2. Max(1..k) = k
    BY <2>1, MaxOfPlaces
  <2>3. path[k] = iter[1..k] /\ path[k - 1] = iter[1..(k - 1)]
    BY <2>1
  <2> HIDE DEF path, n
  <2>4. 1..k # {}
    BY <2>1
  <2>5. iter[1..k] = Handled(iter[(1..k) \ {k}], queue[k])
    BY <1>4, <2>1, <2>2, <2>4
  <2>6. QED
    BY <2>1, <2>3, <2>5
<1>7. path[n] = iter[1..n]
    BY <1>1
<1>8. IsPath(path, en, queue)
    BY <1>5, <1>6 DEF IsPath
<1>9. QED
    BY <1>3, <1>7, <1>8

\* There is one path only.
LEMMA PathEnds ==
    ASSUME NEW E, NEW queue \in Seq(E), NEW en, NEW path, IsPath(path, en, queue)
    PROVE  Caught(en, queue) = path[Len(queue)]
<1> DEFINE n == Len(queue)
<1>1. n \in Nat
    OBVIOUS
<1>2. PICK way : IsPath(way, en, queue) /\ Caught(en, queue) = way[n]
    BY CaughtIsPath
<1>3. /\ path[0] = en /\ way[0] = en
      /\ \A k \in 1..n : /\ path[k] = Handled(path[k - 1], queue[k])
                         /\ way[k] = Handled(way[k - 1], queue[k])
    BY <1>2 DEF IsPath
<1> HIDE DEF n
<1> DEFINE apart == {k \in 0..n : path[k] # way[k]}
<1>4. apart = {}
  <2>1. SUFFICES ASSUME apart # {} PROVE FALSE
    OBVIOUS
  <2>2. PICK k \in apart : \A j \in apart : k <= j
    <3>1. apart \in SUBSET Nat
      BY <1>1
    <3> HIDE DEF apart
    <3>2. QED
      BY <2>1, <3>1, LeastNumber
  <2>3. k # 0
    BY <1>3, <2>2
  <2>4. k \in 1..n /\ k - 1 \in 0..n /\ ~(k <= k - 1)
    BY <1>1, <2>2, <2>3
  <2>5. path[k - 1] = way[k - 1]
    BY <2>2, <2>4
  <2>6. path[k] = way[k]
    BY <1>3, <2>4, <2>5
  <2>7. QED
    BY <2>2, <2>6
<1>5. path[n] = way[n]
    BY <1>1, <1>4
<1>6. QED
    BY <1>2, <1>5 DEF n

\* Handling the oldest event brings no news.
LEMMA HandledFirst ==
    ASSUME NEW E, NEW queue \in Seq(E), NEW en, queue # <<>>
    PROVE  Caught(Handled(en, Head(queue)), Tail(queue)) = Caught(en, queue)
<1> DEFINE n == Len(queue)
<1>1. /\ n \in Nat /\ n # 0
      /\ Tail(queue) \in Seq(E) /\ Len(Tail(queue)) = n - 1
      /\ \A k \in 1..(n - 1) : Tail(queue)[k] = queue[k + 1]
      /\ Head(queue) = queue[1]
    OBVIOUS
<1>2. PICK path : IsPath(path, en, queue) /\ Caught(en, queue) = path[n]
    BY CaughtIsPath
<1>3. path[0] = en /\ \A k \in 1..n : path[k] = Handled(path[k - 1], queue[k])
    BY <1>2 DEF IsPath
<1> HIDE DEF n
<1> DEFINE rest == [k \in 0..(n - 1) |-> path[k + 1]]
<1>4. rest[0] = Handled(en, Head(queue))
  <2>1. 0 \in 0..(n - 1) /\ 1 \in 1..n
    BY <1>1
  <2>2. rest[0] = path[1] /\ path[1] = Handled(path[0], queue[1])
    BY <1>3, <2>1
  <2>3. QED
    BY <1>1, <1>3, <2>2
<1>5. ASSUME NEW k \in 1..(n - 1)
      PROVE  rest[k] = Handled(rest[k - 1], Tail(queue)[k])
  <2>1. k \in 0..(n - 1) /\ k - 1 \in 0..(n - 1) /\ k + 1 \in 1..n
        /\ k - 1 + 1 = k /\ k + 1 - 1 = k
    BY <1>1
  <2>2. rest[k] = path[k + 1] /\ rest[k - 1] = path[k]
    BY <2>1
  <2>3. path[k + 1] = Handled(path[k], queue[k + 1])
    BY <1>3, <2>1
  <2>4. QED
    BY <1>1, <2>2, <2>3
<1>6. rest[n - 1] = path[n]
    BY <1>1
<1> HIDE DEF rest
<1>7. IsPath(rest, Handled(en, Head(queue)), Tail(queue))
    BY <1>1, <1>4, <1>5 DEF IsPath
<1>8. Caught(Handled(en, Head(queue)), Tail(queue)) = rest[n - 1]
    BY <1>1, <1>7, PathEnds
<1>9. QED
    BY <1>2, <1>6, <1>8

\* An event that is added to the queue is handled last.
LEMMA HandledLast ==
    ASSUME NEW E, NEW queue \in Seq(E), NEW en, NEW e \in E
    PROVE  Caught(en, queue \o <<e>>) = Handled(Caught(en, queue), e)
<1> DEFINE n == Len(queue)
           longer == queue \o <<e>>
<1>1. /\ n \in Nat /\ longer \in Seq(E) /\ Len(longer) = n + 1
      /\ \A k \in 1..n : longer[k] = queue[k]
      /\ longer[n + 1] = e
    OBVIOUS
<1>2. PICK path : IsPath(path, en, queue) /\ Caught(en, queue) = path[n]
    BY CaughtIsPath
<1>3. path[0] = en /\ \A k \in 1..n : path[k] = Handled(path[k - 1], queue[k])
    BY <1>2 DEF IsPath
<1> HIDE DEF n, longer
<1> DEFINE way == [k \in 0..(n + 1) |->
                     IF k = n + 1 THEN Handled(path[n], e) ELSE path[k]]
<1>4. way[0] = en
    BY <1>1, <1>3
<1>5. ASSUME NEW k \in 1..(n + 1)
      PROVE  way[k] = Handled(way[k - 1], longer[k])
  <2>1. k \in 0..(n + 1) /\ k - 1 \in 0..(n + 1) /\ k - 1 # n + 1
    BY <1>1
  <2>2. way[k - 1] = path[k - 1]
    BY <2>1
  <2>3. CASE k = n + 1
    <3>1. way[k] = Handled(path[n], e) /\ k - 1 = n
      BY <1>1, <2>1, <2>3
    <3>2. QED
      BY <1>1, <2>2, <2>3, <3>1
  <2>4. CASE k # n + 1
    <3>1. k \in 1..n /\ way[k] = path[k]
      BY <1>1, <2>1, <2>4
    <3>2. QED
      BY <1>1, <1>3, <2>2, <3>1
  <2>5. QED
    BY <2>3, <2>4
<1>6. way[n + 1] = Handled(path[n], e)
    BY <1>1
<1> HIDE DEF way
<1>7. IsPath(way, en, longer)
    BY <1>1, <1>4, <1>5 DEF IsPath
<1>8. Caught(en, longer) = way[n + 1]
    BY <1>1, <1>7, PathEnds
<1>9. QED
    BY <1>2, <1>6, <1>8 DEF longer

-----------------------------------------------------------------------------
(* The events of a transaction                                             *)

LEMMA Joined ==
    ASSUME NEW e, NEW f
    PROVE  <<e>> \o <<f>> = <<e, f>> /\ <<>> \o <<f>> = <<f>>
<1> DEFINE F == {e, f}
           two == <<e>> \o <<f>>
           one == <<>> \o <<f>>
<1>1. <<e>> \in Seq(F) /\ <<f>> \in Seq(F) /\ <<e, f>> \in Seq(F) /\ <<>> \in Seq(F)
    OBVIOUS
<1>2. two \in Seq(F) /\ Len(two) = 2 /\ two[1] = e /\ two[2] = f
    BY <1>1
<1>3. one \in Seq(F) /\ Len(one) = 1 /\ one[1] = f
    BY <1>1
<1> HIDE DEF two, one
<1>4. two = <<e, f>> /\ one = <<f>>
    BY <1>1, <1>2, <1>3
<1>5. QED
    BY <1>4 DEF two, one

LEMMA CaughtUpIsCaught == CaughtUp = Caught(entities, pending)
BY DEF CaughtUp, Caught

\* Nothing is emitted, and nothing changes.
LEMMA NothingEmitted ==
    ASSUME IsQueue(pending), Emit(<<>>)
    PROVE  IsQueue(pending)' /\ CaughtUp' = CaughtUp
<1>1. PICK E : pending \in Seq(E)
    BY DEF IsQueue
<1>2. pending' = pending /\ entities' = entities
    BY <1>1 DEF Emit
<1>3. QED
    BY <1>1, <1>2 DEF IsQueue, CaughtUp

LEMMA OneEmitted ==
    ASSUME IsQueue(pending), NEW e, Emit(<<e>>)
    PROVE  IsQueue(pending)' /\ CaughtUp' = Handled(CaughtUp, e)
<1>1. PICK E : pending \in Seq(E)
    BY DEF IsQueue
<1>2. pending \in Seq(E \cup {e}) /\ e \in E \cup {e}
    BY <1>1
<1>3. pending' = pending \o <<e>> /\ entities' = entities
    BY DEF Emit
<1>4. pending' \in Seq(E \cup {e})
    BY <1>2, <1>3
<1>5. Caught(entities, pending \o <<e>>) = Handled(Caught(entities, pending), e)
    BY <1>2, HandledLast
<1>6. CaughtUp' = Caught(entities', pending')
    BY DEF CaughtUp, Caught
<1>7. QED
    BY <1>3, <1>4, <1>5, <1>6, CaughtUpIsCaught DEF IsQueue

LEMMA TwoEmitted ==
    ASSUME IsQueue(pending), NEW e, NEW f, Emit(<<e, f>>)
    PROVE  IsQueue(pending)' /\ CaughtUp' = Handled(Handled(CaughtUp, e), f)
<1>1. PICK E : pending \in Seq(E)
    BY DEF IsQueue
<1> DEFINE F == E \cup {e, f}
<1>2. pending \in Seq(F) /\ e \in F /\ f \in F
    BY <1>1
<1>3. pending' = pending \o <<e, f>> /\ entities' = entities
    BY DEF Emit
<1> HIDE DEF F
<1>4. /\ pending \o <<e>> \in Seq(F) /\ pending' \in Seq(F)
      /\ pending' = (pending \o <<e>>) \o <<f>>
  <2>1. <<e>> \in Seq(F) /\ <<f>> \in Seq(F)
    BY <1>2
  <2>2. <<e>> \o <<f>> = <<e, f>>
    BY Joined
  <2>3. (pending \o <<e>>) \o <<f>> = pending \o (<<e>> \o <<f>>)
    BY <1>2, <2>1, ConcatAssociative
  <2>4. pending \o <<e>> \in Seq(F)
    BY <1>2, <2>1
  <2>5. (pending \o <<e>>) \o <<f>> \in Seq(F)
    BY <2>1, <2>4
  <2>6. QED
    BY <1>3, <2>2, <2>3, <2>4, <2>5
<1>5. Caught(entities, (pending \o <<e>>) \o <<f>>) =
         Handled(Caught(entities, pending \o <<e>>), f)
    BY <1>2, <1>4, HandledLast
<1>6. Caught(entities, pending \o <<e>>) = Handled(Caught(entities, pending), e)
    BY <1>2, HandledLast
<1>7. CaughtUp' = Caught(entities', pending')
    BY DEF CaughtUp, Caught
<1>8. QED
    BY <1>3, <1>4, <1>5, <1>6, <1>7, CaughtUpIsCaught DEF IsQueue

LEMMA HandleKeeps ==
    ASSUME IsQueue(pending), Handle
    PROVE  IsQueue(pending)' /\ CaughtUp' = CaughtUp
<1>1. PICK E : pending \in Seq(E)
    BY DEF IsQueue
<1>2. /\ pending # <<>> /\ entities' = Handled(entities, Head(pending))
      /\ pending' = Tail(pending)
    BY DEF Handle
<1>3. pending' \in Seq(E)
    BY <1>1, <1>2
<1>4. Caught(Handled(entities, Head(pending)), Tail(pending)) =
         Caught(entities, pending)
    BY <1>1, <1>2, HandledFirst
<1>5. CaughtUp' = Caught(entities', pending')
    BY DEF CaughtUp, Caught
<1>6. QED
    BY <1>2, <1>3, <1>4, <1>5, CaughtUpIsCaught DEF IsQueue

-----------------------------------------------------------------------------
(* What a handler does to the tables                                       *)

\* The same tables but for those that are named.
SameBut(en, new, names) ==
    /\ AreEntities(new)
    /\ \A name \in Tables \ names : new[name] = en[name]

LEMMA ObjectEvents ==
    ASSUME NEW en, AreEntities(en), NEW e
    PROVE  /\ e.type = "ObjectCreated" =>
                /\ SameBut(en, Handled(en, e), {"objects"})
                /\ Handled(en, e).objects =
                     Put(en.objects, e.id,
                         [owner |-> e.owner, expiry |-> 0, transferable |-> TRUE,
                          status |-> "ACTIVE"])
           /\ e.type = "ObjectTransferred" =>
                /\ SameBut(en, Handled(en, e), {"objects"})
                /\ Handled(en, e).objects =
                     Merge(en.objects, e.id, [owner |-> e.newOwner])
           /\ e.type = "ObjectStatusUpdated" =>
                /\ SameBut(en, Handled(en, e), {"objects", "recoveries"})
                /\ Handled(en, e).objects =
                     Merge(en.objects, e.id, [status |-> e.status])
                /\ Handled(en, e).recoveries =
                     IF e.status = "RECOVERED"
                     THEN en.recoveries \cup {Recovery(en, e)} ELSE en.recoveries
<1>1. ASSUME e.type = "ObjectCreated"
      PROVE  Handled(en, e) = handleObjectCreated(en, e)
    BY <1>1 DEF Handled
<1>2. ASSUME e.type = "ObjectTransferred"
      PROVE  Handled(en, e) = handleObjectTransferred(en, e)
    BY <1>2 DEF Handled
<1>3. ASSUME e.type = "ObjectStatusUpdated"
      PROVE  Handled(en, e) = handleObjectStatusUpdated(en, e)
    BY <1>3 DEF Handled
<1>4. QED
    BY <1>1, <1>2, <1>3
       DEF handleObjectCreated, handleObjectTransferred, handleObjectStatusUpdated,
           SameBut, AreEntities, Tables

LEMMA EscrowEvents ==
    ASSUME NEW en, AreEntities(en), NEW e
    PROVE  /\ e.type = "EscrowLocked" =>
                /\ SameBut(en, Handled(en, e), {"escrows"})
                /\ Handled(en, e).escrows =
                     Put(en.escrows, e.id,
                         [buyer |-> e.buyer, seller |-> e.seller,
                          amount |-> e.amount, status |-> "LOCKED",
                          linkedObjectId |-> e.linkedObjectId,
                          createdAt |-> e.timestamp])
           /\ e.type = "DeliverySubmitted" =>
                /\ SameBut(en, Handled(en, e), {"escrows"})
                /\ Handled(en, e).escrows =
                     Merge(en.escrows, e.id, [status |-> "DELIVERED"])
           /\ e.type = "EscrowReleased" =>
                /\ SameBut(en, Handled(en, e), {"escrows"})
                /\ Handled(en, e).escrows =
                     Merge(en.escrows, e.id, [status |-> "RELEASED"])
           /\ e.type = "EscrowRefunded" =>
                /\ SameBut(en, Handled(en, e), {"escrows"})
                /\ Handled(en, e).escrows =
                     Merge(en.escrows, e.id, [status |-> "REFUNDED"])
<1>1. ASSUME e.type = "EscrowLocked"
      PROVE  Handled(en, e) = handleEscrowLocked(en, e)
    BY <1>1 DEF Handled
<1>2. ASSUME e.type = "DeliverySubmitted"
      PROVE  Handled(en, e) = handleDeliverySubmitted(en, e)
    BY <1>2 DEF Handled
<1>3. ASSUME e.type = "EscrowReleased"
      PROVE  Handled(en, e) = handleEscrowReleased(en, e)
    BY <1>3 DEF Handled
<1>4. ASSUME e.type = "EscrowRefunded"
      PROVE  Handled(en, e) = handleEscrowRefunded(en, e)
    BY <1>4 DEF Handled
<1>5. QED
    BY <1>1, <1>2, <1>3, <1>4
       DEF handleEscrowLocked, handleDeliverySubmitted, handleEscrowReleased, handleEscrowRefunded, SameBut, AreEntities, Tables

LEMMA ListingEvents ==
    ASSUME NEW en, AreEntities(en), NEW e
    PROVE  /\ e.type = "ObjectListed" =>
                /\ SameBut(en, Handled(en, e), {"listings"})
                /\ Handled(en, e).listings =
                     Put(en.listings, e.id,
                         [objectId |-> e.objectId, seller |-> e.seller,
                          price |-> e.price, active |-> TRUE])
           /\ e.type = "ListingCancelled" =>
                /\ SameBut(en, Handled(en, e), {"listings"})
                /\ Handled(en, e).listings =
                     Merge(en.listings, e.id, [active |-> FALSE])
           /\ e.type = "ObjectPurchased" =>
                /\ SameBut(en, Handled(en, e), {"listings"})
                /\ Handled(en, e).listings =
                     Merge(en.listings, e.id, [active |-> FALSE])
<1>1. ASSUME e.type = "ObjectListed"
      PROVE  Handled(en, e) = handleObjectListed(en, e)
    BY <1>1 DEF Handled
<1>2. ASSUME e.type = "ListingCancelled"
      PROVE  Handled(en, e) = handleListingCancelled(en, e)
    BY <1>2 DEF Handled
<1>3. ASSUME e.type = "ObjectPurchased"
      PROVE  Handled(en, e) = handleObjectPurchased(en, e)
    BY <1>3 DEF Handled
<1>4. QED
    BY <1>1, <1>2, <1>3
       DEF handleObjectListed, handleListingCancelled, handleObjectPurchased,
           SameBut, AreEntities, Tables

LEMMA AgentEvents ==
    ASSUME NEW en, AreEntities(en), NEW e
    PROVE  /\ e.type = "AgentRegistered" =>
                /\ SameBut(en, Handled(en, e), {"agents"})
                /\ Handled(en, e).agents =
                     Put(en.agents, e.id, [controller |-> e.controller, active |-> TRUE])
           /\ e.type = "AgentStatusChanged" =>
                /\ SameBut(en, Handled(en, e), {"agents"})
                /\ Handled(en, e).agents =
                     Merge(en.agents, e.id, [active |-> e.active])
<1>1. ASSUME e.type = "AgentRegistered"
      PROVE  Handled(en, e) = handleAgentRegistered(en, e)
    BY <1>1 DEF Handled
<1>2. ASSUME e.type = "AgentStatusChanged"
      PROVE  Handled(en, e) = handleAgentStatusChanged(en, e)
    BY <1>2 DEF Handled
<1>3. QED
    BY <1>1, <1>2
       DEF handleAgentRegistered, handleAgentStatusChanged, SameBut, AreEntities, Tables

LEMMA ReservationEvents ==
    ASSUME NEW en, AreEntities(en), NEW e
    PROVE  /\ e.type = "CreditsReserved" =>
                /\ SameBut(en, Handled(en, e), {"reservations"})
                /\ Handled(en, e).reservations =
                     Put(en.reservations, e.id,
                         [requester |-> e.requester, amount |-> e.amount,
                          consumed |-> 0, refunded |-> 0, recycled |-> 0,
                          status |-> "RESERVED"])
           /\ e.type = "ReservationSettled" =>
                /\ SameBut(en, Handled(en, e), {"reservations"})
                /\ Handled(en, e).reservations =
                     Merge(en.reservations, e.id,
                           [consumed |-> e.consumed, refunded |-> e.refunded,
                            status |-> "SETTLED"])
           /\ e.type = "ReservationReleased" =>
                /\ SameBut(en, Handled(en, e), {"reservations"})
                /\ Handled(en, e).reservations =
                     Merge(en.reservations, e.id,
                           [refunded |-> e.refunded, status |-> "RELEASED"])
           /\ e.type = "ReservationRecycled" =>
                /\ SameBut(en, Handled(en, e), {"reservations", "recoveries"})
                /\ Handled(en, e).reservations =
                     Merge(en.reservations, e.id,
                           [recycled |-> e.recycled, status |-> "RECYCLED"])
                /\ en.recoveries \subseteq Handled(en, e).recoveries
<1>1. ASSUME e.type = "CreditsReserved"
      PROVE  Handled(en, e) = handleCreditsReserved(en, e)
    BY <1>1 DEF Handled
<1>2. ASSUME e.type = "ReservationSettled"
      PROVE  Handled(en, e) = handleReservationSettled(en, e)
    BY <1>2 DEF Handled
<1>3. ASSUME e.type = "ReservationReleased"
      PROVE  Handled(en, e) = handleReservationReleased(en, e)
    BY <1>3 DEF Handled
<1>4. ASSUME e.type = "ReservationRecycled"
      PROVE  Handled(en, e) = handleReservationRecycled(en, e)
    BY <1>4 DEF Handled
<1>5. QED
    BY <1>1, <1>2, <1>3, <1>4
       DEF handleCreditsReserved, handleReservationSettled, handleReservationReleased, handleReservationRecycled, SameBut, AreEntities, Tables

-----------------------------------------------------------------------------
(* Objects and their table                                                 *)

\* One object changes, and its row with it.
LEMMA ObjectRowChanges ==
    ASSUME ObjectsShown, NEW id \in Objects,
           \A x \in Objects \ {id} : objects'[x] = objects[x],
           DOMAIN CaughtUp'.objects = DOMAIN CaughtUp.objects \cup {id},
           \A x \in DOMAIN CaughtUp.objects \ {id} :
              CaughtUp'.objects[x] = CaughtUp.objects[x],
           \A recovery \in CaughtUp.recoveries : recovery \in CaughtUp'.recoveries,
           ObjectExists(id)', ObjectRowOK(id)', RecoveryShown(id)'
    PROVE  ObjectsShown'
<1>1. DOMAIN CaughtUp'.objects = {x \in Objects : ObjectExists(x)'}
    BY DEF ObjectsShown, ObjectExists, OwnerOf
<1>2. ASSUME NEW x \in DOMAIN CaughtUp'.objects
      PROVE  ObjectRowOK(x)'
  <2>1. CASE x = id
    BY <2>1
  <2>2. CASE x # id
    <3>1. x \in DOMAIN CaughtUp.objects /\ x \in Objects
      BY <1>2, <2>2 DEF ObjectsShown
    <3>2. ObjectRowOK(x) /\ CaughtUp'.objects[x] = CaughtUp.objects[x]
          /\ objects'[x] = objects[x]
      BY <2>2, <3>1 DEF ObjectsShown
    <3>3. QED
      BY <3>2 DEF ObjectRowOK, OwnerOf
  <2>3. QED
    BY <2>1, <2>2
<1>3. ASSUME NEW x \in Objects
      PROVE  RecoveryShown(x)'
  <2>1. CASE x = id
    BY <2>1
  <2>2. CASE x # id
    <3>1. RecoveryShown(x) /\ objects'[x] = objects[x]
      BY <2>2 DEF ObjectsShown
    <3>2. QED
      BY <3>1 DEF RecoveryShown, OwnerOf
  <2>3. QED
    BY <2>1, <2>2
<1>4. QED
    BY <1>1, <1>2, <1>3 DEF ObjectsShown

LEMMA TransferShown ==
    ASSUME ObjectTypeOK, ObjectsShown, NEW id \in Objects, NEW to,
           ObjectExists(id), ExecuteTransfer(id, to),
           CaughtUp'.objects = Merge(CaughtUp.objects, id, [owner |-> to]),
           CaughtUp'.recoveries = CaughtUp.recoveries
    PROVE  ObjectsShown'
<1>1. /\ objects[id].status = "ACTIVE" /\ to # NoAddress
      /\ objects' = [objects EXCEPT ![id].owner = to]
      /\ objects \in [Objects -> EconomicObject]
    BY DEF ExecuteTransfer, ObjectTypeOK
<1>2. /\ objects'[id].owner = to /\ objects'[id].status = "ACTIVE"
      /\ \A x \in Objects \ {id} : objects'[x] = objects[x]
    BY <1>1 DEF EconomicObject
<1>3. id \in DOMAIN CaughtUp.objects /\ ObjectRowOK(id)
    BY DEF ObjectsShown
<1> DEFINE changes == [owner |-> to]
           row == CaughtUp.objects[id]
<1>4. /\ DOMAIN CaughtUp'.objects = DOMAIN CaughtUp.objects \cup {id}
      /\ \A x \in DOMAIN CaughtUp.objects \ {id} :
            CaughtUp'.objects[x] = CaughtUp.objects[x]
      /\ CaughtUp'.objects[id] = Spread(changes, row)
    BY <1>3 DEF Merge, Put, Spread
<1>5. /\ DOMAIN Spread(changes, row) = {"owner"} \cup DOMAIN row
      /\ Spread(changes, row).owner = to
      /\ "status" \in DOMAIN row => Spread(changes, row).status = row.status
    BY DEF Spread
<1>6. ObjectRowOK(id)'
    BY <1>1, <1>2, <1>3, <1>4, <1>5 DEF ObjectRowOK, OwnerOf
<1>7. ObjectExists(id)' /\ RecoveryShown(id)'
    BY <1>1, <1>2 DEF ObjectExists, OwnerOf, RecoveryShown
<1>8. QED
    BY <1>2, <1>4, <1>6, <1>7, ObjectRowChanges

LEMMA CreateShown ==
    ASSUME ObjectTypeOK, ObjectsShown, NEW caller \in Accounts, NEW id \in Objects,
           NEW expiry, NEW transferable,
           createObject(caller, id, expiry, transferable),
           CaughtUp'.objects =
             Put(CaughtUp.objects, id,
                 [owner |-> caller, expiry |-> 0, transferable |-> TRUE,
                  status |-> "ACTIVE"]),
           CaughtUp'.recoveries = CaughtUp.recoveries
    PROVE  ObjectsShown'
<1>1. /\ objects' = [objects EXCEPT
            ![id] = [owner |-> caller, expiry |-> expiry,
                     transferable |-> transferable, status |-> "ACTIVE"]]
      /\ objects \in [Objects -> EconomicObject] /\ caller # NoAddress
    BY ChainAssumption DEF createObject, ObjectTypeOK
<1>2. /\ objects'[id].owner = caller /\ objects'[id].status = "ACTIVE"
      /\ \A x \in Objects \ {id} : objects'[x] = objects[x]
    BY <1>1
<1> DEFINE row == [owner |-> caller, expiry |-> 0, transferable |-> TRUE,
                   status |-> "ACTIVE"]
<1>3. /\ DOMAIN CaughtUp'.objects = DOMAIN CaughtUp.objects \cup {id}
      /\ \A x \in DOMAIN CaughtUp.objects \ {id} :
            CaughtUp'.objects[x] = CaughtUp.objects[x]
      /\ CaughtUp'.objects[id] = row
    BY DEF Put, Spread
<1>4. ObjectRowOK(id)'
    BY <1>2, <1>3 DEF ObjectRowOK, OwnerOf
<1>5. ObjectExists(id)' /\ RecoveryShown(id)'
    BY <1>1, <1>2 DEF ObjectExists, OwnerOf, RecoveryShown
<1>6. QED
    BY <1>2, <1>3, <1>4, <1>5, ObjectRowChanges

LEMMA StatusShown ==
    ASSUME ObjectTypeOK, ObjectsShown, NEW caller, NEW id \in Objects, NEW status,
           setStatus(caller, id, status), NEW block,
           LET e == [type |-> "ObjectStatusUpdated", id |-> id,
                     status |-> status, block |-> block]
           IN  /\ CaughtUp'.objects =
                     Merge(CaughtUp.objects, id, [status |-> status])
               /\ CaughtUp'.recoveries =
                     IF status = "RECOVERED"
                     THEN CaughtUp.recoveries \cup {Recovery(CaughtUp, e)}
                     ELSE CaughtUp.recoveries
    PROVE  ObjectsShown'
<1> DEFINE e == [type |-> "ObjectStatusUpdated", id |-> id,
                 status |-> status, block |-> block]
<1>1. /\ ObjectExists(id)
      /\ objects' = [objects EXCEPT ![id].status = status]
      /\ objects \in [Objects -> EconomicObject]
    BY DEF setStatus, IsApprovedOrOwner, ObjectExists, ObjectTypeOK
<1>2. /\ objects'[id].owner = objects[id].owner /\ objects'[id].status = status
      /\ \A x \in Objects \ {id} : objects'[x] = objects[x]
    BY <1>1 DEF EconomicObject
<1>3. id \in DOMAIN CaughtUp.objects /\ ObjectRowOK(id)
    BY <1>1 DEF ObjectsShown
<1> DEFINE changes == [status |-> status]
           row == CaughtUp.objects[id]
<1>4. /\ DOMAIN CaughtUp'.objects = DOMAIN CaughtUp.objects \cup {id}
      /\ \A x \in DOMAIN CaughtUp.objects \ {id} :
            CaughtUp'.objects[x] = CaughtUp.objects[x]
      /\ CaughtUp'.objects[id] = Spread(changes, row)
    BY <1>3 DEF Merge, Put, Spread
<1>5. /\ DOMAIN Spread(changes, row) = {"status"} \cup DOMAIN row
      /\ Spread(changes, row).status = status
      /\ "owner" \in DOMAIN row => Spread(changes, row).owner = row.owner
    BY DEF Spread
<1>6. ObjectRowOK(id)'
    BY <1>1, <1>2, <1>3, <1>4, <1>5 DEF ObjectRowOK, OwnerOf
<1>7. ObjectExists(id)'
    BY <1>1, <1>2 DEF ObjectExists, OwnerOf
<1>8. RecoveryShown(id)'
  <2>1. Recovery(CaughtUp, e).of = id
        /\ Recovery(CaughtUp, e).agent = OwnerOf(id)
    BY <1>3 DEF Recovery, ObjectRowOK
  <2>2. objects'[id].status = "RECOVERED" =>
           Recovery(CaughtUp, e) \in CaughtUp'.recoveries
    BY <1>2
  <2>3. QED
    BY <1>2, <2>1, <2>2 DEF RecoveryShown, OwnerOf
<1>9. \A recovery \in CaughtUp.recoveries : recovery \in CaughtUp'.recoveries
    OBVIOUS
<1>10. QED
    BY <1>2, <1>4, <1>6, <1>7, <1>8, <1>9, ObjectRowChanges

-----------------------------------------------------------------------------
(* Escrows and their table                                                 *)

\* One escrow changes, and its row with it, if it has one.
LEMMA EscrowRowChanges ==
    ASSUME EscrowsShown, NEW e \in Escrows,
           \A x \in Escrows \ {e} : escrows'[x] = escrows[x],
           DOMAIN CaughtUp'.escrows =
              DOMAIN CaughtUp.escrows \cup (IF EscrowExists(e)' THEN {e} ELSE {}),
           EscrowExists(e) => EscrowExists(e)',
           \A x \in DOMAIN CaughtUp.escrows \ {e} :
              CaughtUp'.escrows[x] = CaughtUp.escrows[x],
           EscrowExists(e)' => EscrowRowOK(e)'
    PROVE  EscrowsShown'
<1>1. DOMAIN CaughtUp'.escrows = {x \in Escrows : EscrowExists(x)'}
    BY DEF EscrowsShown, EscrowExists
<1>2. ASSUME NEW x \in DOMAIN CaughtUp'.escrows
      PROVE  EscrowRowOK(x)'
  <2>1. CASE x = e
    BY <1>1, <1>2, <2>1
  <2>2. CASE x # e
    <3>1. x \in DOMAIN CaughtUp.escrows /\ x \in Escrows
      BY <1>2, <2>2 DEF EscrowsShown
    <3>2. EscrowRowOK(x) /\ CaughtUp'.escrows[x] = CaughtUp.escrows[x]
          /\ escrows'[x] = escrows[x]
      BY <2>2, <3>1 DEF EscrowsShown
    <3>3. QED
      BY <3>2 DEF EscrowRowOK
  <2>3. QED
    BY <2>1, <2>2
<1>3. QED
    BY <1>1, <1>2 DEF EscrowsShown

LEMMA LockShown ==
    ASSUME EscrowTypeOK, EscrowsShown, NEW caller \in Accounts, NEW e \in Escrows,
           NEW seller, NEW deadline, NEW linked, NEW value \in Amounts,
           NEW timestamp,
           lockEscrow(caller, e, seller, deadline, linked, value),
           CaughtUp'.escrows =
             Put(CaughtUp.escrows, e,
                 [buyer |-> caller, seller |-> seller, amount |-> value,
                  status |-> "LOCKED", linkedObjectId |-> linked,
                  createdAt |-> timestamp])
    PROVE  EscrowsShown'
<1> DEFINE new == [buyer |-> caller, seller |-> seller, amount |-> value,
                   deadline |-> deadline, status |-> "LOCKED",
                   linkedObjectId |-> linked]
           row == [buyer |-> caller, seller |-> seller, amount |-> value,
                   status |-> "LOCKED", linkedObjectId |-> linked,
                   createdAt |-> timestamp]
<1>1. /\ value > 0 /\ IsUnused(e)
      /\ escrows' = [escrows EXCEPT ![e] = new]
      /\ escrows \in [Escrows -> EscrowRecord]
    BY DEF lockEscrow, EscrowTypeOK
<1>2. escrows'[e] = new /\ \A x \in Escrows \ {e} : escrows'[x] = escrows[x]
    BY <1>1
<1>3. /\ DOMAIN CaughtUp'.escrows = DOMAIN CaughtUp.escrows \cup {e}
      /\ \A x \in DOMAIN CaughtUp.escrows \ {e} :
            CaughtUp'.escrows[x] = CaughtUp.escrows[x]
      /\ CaughtUp'.escrows[e] = row
    BY DEF Put, Spread
<1>4. EscrowRowOK(e)'
    BY <1>2, <1>3 DEF EscrowRowOK, EscrowFields
<1>5. EscrowExists(e)'
    BY <1>1, <1>2 DEF EscrowExists
<1> HIDE DEF new, row
<1>6. QED
    BY <1>2, <1>3, <1>4, <1>5, EscrowRowChanges

\* A new status; an escrow that was never locked has no row to change.
LEMMA EscrowStatusShown ==
    ASSUME EscrowTypeOK, EscrowsShown, NEW e \in Escrows, NEW status,
           escrows' = [escrows EXCEPT ![e].status = status],
           CaughtUp'.escrows = Merge(CaughtUp.escrows, e, [status |-> status])
    PROVE  EscrowsShown'
<1>1. /\ escrows \in [Escrows -> EscrowRecord]
      /\ escrows'[e] = [escrows[e] EXCEPT !.status = status]
      /\ \A x \in Escrows \ {e} : escrows'[x] = escrows[x]
    BY DEF EscrowTypeOK
<1>2. /\ escrows'[e].buyer = escrows[e].buyer
      /\ escrows'[e].seller = escrows[e].seller
      /\ escrows'[e].amount = escrows[e].amount
      /\ escrows'[e].status = status
      /\ escrows'[e].linkedObjectId = escrows[e].linkedObjectId
    BY <1>1 DEF EscrowRecord
<1>3. EscrowExists(e)' <=> EscrowExists(e)
    BY <1>2 DEF EscrowExists
<1>4. EscrowExists(e) <=> e \in DOMAIN CaughtUp.escrows
    BY DEF EscrowsShown
<1> DEFINE changes == [status |-> status]
           row == CaughtUp.escrows[e]
<1>5. CASE EscrowExists(e)
  <2>1. e \in DOMAIN CaughtUp.escrows /\ EscrowRowOK(e)
    BY <1>4, <1>5 DEF EscrowsShown
  <2>2. /\ DOMAIN CaughtUp'.escrows = DOMAIN CaughtUp.escrows \cup {e}
        /\ \A x \in DOMAIN CaughtUp.escrows \ {e} :
              CaughtUp'.escrows[x] = CaughtUp.escrows[x]
        /\ CaughtUp'.escrows[e] = Spread(changes, row)
    BY <2>1 DEF Merge, Put, Spread
  <2>3. /\ DOMAIN Spread(changes, row) = {"status"} \cup DOMAIN row
        /\ Spread(changes, row).status = status
        /\ \A field \in DOMAIN row \ {"status"} :
              Spread(changes, row)[field] = row[field]
    BY DEF Spread
  <2>4. EscrowRowOK(e)'
    <3> DEFINE after == CaughtUp'.escrows[e]
    <3>1. EscrowFields \subseteq DOMAIN after
      BY <2>1, <2>2, <2>3 DEF EscrowRowOK
    <3>2. \A field \in EscrowFields \ {"status"} :
             after[field] = escrows'[e][field]
      BY <1>2, <2>1, <2>2, <2>3 DEF EscrowRowOK, EscrowFields
    <3>3. after["status"] = escrows'[e]["status"]
      BY <1>2, <2>2, <2>3
    <3>4. QED
      BY <3>1, <3>2, <3>3 DEF EscrowRowOK
  <2>5. QED
    BY <1>1, <1>3, <1>5, <2>2, <2>4, EscrowRowChanges
<1>6. CASE ~EscrowExists(e)
  <2>1. CaughtUp'.escrows = CaughtUp.escrows
    BY <1>4, <1>6 DEF Merge
  <2>2. QED
    BY <1>1, <1>3, <1>6, <2>1, EscrowRowChanges
<1>7. QED
    BY <1>5, <1>6

-----------------------------------------------------------------------------
(* Listings and their table                                                *)

LEMMA ListingRowChanges ==
    ASSUME ListingsShown, NEW l \in Listings,
           \A x \in Listings \ {l} : listings'[x] = listings[x],
           DOMAIN CaughtUp'.listings = DOMAIN CaughtUp.listings \cup {l},
           \A x \in DOMAIN CaughtUp.listings \ {l} :
              CaughtUp'.listings[x] = CaughtUp.listings[x],
           IsListed(l)', ListingRowOK(l)', ListingOK(l)'
    PROVE  ListingsShown'
<1>1. DOMAIN CaughtUp'.listings = {x \in Listings : IsListed(x)'}
    BY DEF ListingsShown, IsListed
<1>2. ASSUME NEW x \in DOMAIN CaughtUp'.listings
      PROVE  ListingRowOK(x)'
  <2>1. CASE x = l
    BY <2>1
  <2>2. CASE x # l
    <3>1. x \in DOMAIN CaughtUp.listings /\ x \in Listings
      BY <1>2, <2>2 DEF ListingsShown
    <3>2. ListingRowOK(x) /\ CaughtUp'.listings[x] = CaughtUp.listings[x]
          /\ listings'[x] = listings[x]
      BY <2>2, <3>1 DEF ListingsShown
    <3>3. QED
      BY <3>2 DEF ListingRowOK
  <2>3. QED
    BY <2>1, <2>2
<1>3. ASSUME NEW x \in Listings
      PROVE  ListingOK(x)'
  <2>1. CASE x = l
    BY <2>1
  <2>2. CASE x # l
    <3>1. ListingOK(x) /\ listings'[x] = listings[x]
      BY <2>2 DEF ListingsShown
    <3>2. QED
      BY <3>1 DEF ListingOK, IsListed
  <2>3. QED
    BY <2>1, <2>2
<1>4. QED
    BY <1>1, <1>2, <1>3 DEF ListingsShown

LEMMA ListShown ==
    ASSUME MarketTypeOK, ListingsShown, NEW caller \in Accounts,
           NEW l \in Listings, NEW id \in Objects, NEW price,
           listObject(caller, l, id, price),
           CaughtUp'.listings =
             Put(CaughtUp.listings, l,
                 [objectId |-> id, seller |-> caller, price |-> price,
                  active |-> TRUE])
    PROVE  ListingsShown'
<1> DEFINE row == [objectId |-> id, seller |-> caller, price |-> price,
                   active |-> TRUE]
<1>1. /\ listings' = [listings EXCEPT ![l] = row]
      /\ listings \in [Listings -> Listing] /\ caller # NoAddress
    BY ChainAssumption DEF listObject, MarketTypeOK
<1>2. listings'[l] = row /\ \A x \in Listings \ {l} : listings'[x] = listings[x]
    BY <1>1
<1>3. /\ DOMAIN CaughtUp'.listings = DOMAIN CaughtUp.listings \cup {l}
      /\ \A x \in DOMAIN CaughtUp.listings \ {l} :
            CaughtUp'.listings[x] = CaughtUp.listings[x]
      /\ CaughtUp'.listings[l] = row
    BY DEF Put, Spread
<1>4. ListingRowOK(l)'
    BY <1>2, <1>3 DEF ListingRowOK, ListingFields
<1>5. IsListed(l)' /\ ListingOK(l)'
    BY <1>1, <1>2 DEF IsListed, ListingOK
<1> HIDE DEF row
<1>6. QED
    BY <1>2, <1>3, <1>4, <1>5, ListingRowChanges

LEMMA CloseShown ==
    ASSUME MarketTypeOK, ListingsShown, NEW l \in Listings, listings[l].active,
           listings' = [listings EXCEPT ![l].active = FALSE],
           CaughtUp'.listings = Merge(CaughtUp.listings, l, [active |-> FALSE])
    PROVE  ListingsShown'
<1>1. /\ listings \in [Listings -> Listing]
      /\ listings'[l] = [listings[l] EXCEPT !.active = FALSE]
      /\ \A x \in Listings \ {l} : listings'[x] = listings[x]
    BY DEF MarketTypeOK
<1>2. /\ listings'[l].objectId = listings[l].objectId
      /\ listings'[l].seller = listings[l].seller
      /\ listings'[l].price = listings[l].price
      /\ listings'[l].active = FALSE
    BY <1>1 DEF Listing
<1>3. IsListed(l)
    BY DEF ListingsShown, ListingOK
<1>4. l \in DOMAIN CaughtUp.listings /\ ListingRowOK(l)
    BY <1>3 DEF ListingsShown
<1> DEFINE changes == [active |-> FALSE]
           row == CaughtUp.listings[l]
<1>5. /\ DOMAIN CaughtUp'.listings = DOMAIN CaughtUp.listings \cup {l}
      /\ \A x \in DOMAIN CaughtUp.listings \ {l} :
            CaughtUp'.listings[x] = CaughtUp.listings[x]
      /\ CaughtUp'.listings[l] = Spread(changes, row)
    BY <1>4 DEF Merge, Put, Spread
<1>6. /\ DOMAIN Spread(changes, row) = {"active"} \cup DOMAIN row
      /\ Spread(changes, row).active = FALSE
      /\ \A field \in DOMAIN row \ {"active"} :
            Spread(changes, row)[field] = row[field]
    BY DEF Spread
<1>7. ListingRowOK(l)'
    <2> DEFINE after == CaughtUp'.listings[l]
    <2>1. ListingFields \subseteq DOMAIN after
      BY <1>4, <1>5, <1>6 DEF ListingRowOK
    <2>2. \A field \in ListingFields \ {"active"} :
             after[field] = listings'[l][field]
      <3>1. \A field \in ListingFields \ {"active"} :
               after[field] = row[field] /\ row[field] = listings[l][field]
        BY <1>4, <1>5, <1>6 DEF ListingRowOK
      <3>2. \A field \in ListingFields \ {"active"} :
               listings[l][field] = listings'[l][field]
        BY <1>2 DEF ListingFields
      <3> HIDE DEF after, row
      <3>3. QED
        BY <3>1, <3>2
    <2>3. after["active"] = listings'[l]["active"]
      BY <1>2, <1>5, <1>6
    <2>4. QED
      BY <2>1, <2>2, <2>3 DEF ListingRowOK
<1>8. IsListed(l)' /\ ListingOK(l)'
    BY <1>2, <1>3 DEF IsListed, ListingOK
<1>9. QED
    BY <1>1, <1>5, <1>7, <1>8, ListingRowChanges

-----------------------------------------------------------------------------
(* Agents and their table                                                  *)

LEMMA AgentRowChanges ==
    ASSUME AgentsShown, NEW a \in Ids,
           \A x \in Ids \ {a} : identities'[x] = identities[x],
           DOMAIN CaughtUp'.agents = DOMAIN CaughtUp.agents \cup {a},
           \A x \in DOMAIN CaughtUp.agents \ {a} :
              CaughtUp'.agents[x] = CaughtUp.agents[x],
           IsRegistered(a)', AgentRowOK(a)'
    PROVE  AgentsShown'
<1>1. DOMAIN CaughtUp'.agents = {x \in Ids : IsRegistered(x)'}
    BY DEF AgentsShown, IsRegistered
<1>2. ASSUME NEW x \in DOMAIN CaughtUp'.agents
      PROVE  AgentRowOK(x)'
  <2>1. CASE x = a
    BY <2>1
  <2>2. CASE x # a
    <3>1. x \in DOMAIN CaughtUp.agents /\ x \in Ids
      BY <1>2, <2>2 DEF AgentsShown
    <3>2. AgentRowOK(x) /\ CaughtUp'.agents[x] = CaughtUp.agents[x]
          /\ identities'[x] = identities[x]
      BY <2>2, <3>1 DEF AgentsShown
    <3>3. QED
      BY <3>2 DEF AgentRowOK
  <2>3. QED
    BY <2>1, <2>2
<1>3. QED
    BY <1>1, <1>2 DEF AgentsShown

LEMMA RegisterShown ==
    ASSUME RegistryTypeOK, AgentsShown, NEW caller \in Accounts, NEW a \in Ids,
           NEW hash, registerAgentWithURI(caller, a, hash),
           CaughtUp'.agents =
             Put(CaughtUp.agents, a, [controller |-> caller, active |-> TRUE])
    PROVE  AgentsShown'
<1> DEFINE new == [controller |-> caller, metadataHash |-> hash, active |-> TRUE]
           row == [controller |-> caller, active |-> TRUE]
<1>1. /\ identities' = [identities EXCEPT ![a] = new]
      /\ DOMAIN identities = Ids /\ caller # NoAddress
    BY ChainAssumption DEF registerAgentWithURI, RegistryTypeOK
<1>2. identities'[a] = new /\ \A x \in Ids \ {a} : identities'[x] = identities[x]
    BY <1>1
<1>3. /\ DOMAIN CaughtUp'.agents = DOMAIN CaughtUp.agents \cup {a}
      /\ \A x \in DOMAIN CaughtUp.agents \ {a} :
            CaughtUp'.agents[x] = CaughtUp.agents[x]
      /\ CaughtUp'.agents[a] = row
    BY DEF Put, Spread
<1>4. identities'[a].controller = caller /\ identities'[a].active = TRUE
    BY <1>2
<1>5. /\ CaughtUp'.agents[a].controller = caller
      /\ CaughtUp'.agents[a].active = TRUE
      /\ {"controller", "active"} \subseteq DOMAIN CaughtUp'.agents[a]
    BY <1>3
<1>6. AgentRowOK(a)' /\ IsRegistered(a)'
    BY <1>1, <1>4, <1>5 DEF AgentRowOK, IsRegistered
<1> HIDE DEF new, row
<1>7. QED
    BY <1>2, <1>3, <1>6, AgentRowChanges

LEMMA ActivityShown ==
    ASSUME RegistryTypeOK, AgentsShown, NEW caller \in Accounts, NEW a \in Ids,
           NEW active, setStatusOf(caller, a, active),
           CaughtUp'.agents = Merge(CaughtUp.agents, a, [active |-> active])
    PROVE  AgentsShown'
<1>1. /\ identities' = [identities EXCEPT ![a].active = active]
      /\ DOMAIN identities = Ids /\ OnlyController(caller, a)
      /\ caller # NoAddress
    BY ChainAssumption DEF setStatusOf, RegistryTypeOK
<1>2. identities[a] \in Identity /\ IsRegistered(a)
    BY <1>1, ControlledIdentity DEF OnlyController, IsRegistered
<1>3. /\ identities'[a].controller = identities[a].controller
      /\ identities'[a].active = active
      /\ \A x \in Ids \ {a} : identities'[x] = identities[x]
    BY <1>1, <1>2 DEF Identity
<1>4. a \in DOMAIN CaughtUp.agents /\ AgentRowOK(a)
    BY <1>2 DEF AgentsShown
<1> DEFINE changes == [active |-> active]
           row == CaughtUp.agents[a]
<1>5. /\ DOMAIN CaughtUp'.agents = DOMAIN CaughtUp.agents \cup {a}
      /\ \A x \in DOMAIN CaughtUp.agents \ {a} :
            CaughtUp'.agents[x] = CaughtUp.agents[x]
      /\ CaughtUp'.agents[a] = Spread(changes, row)
    BY <1>4 DEF Merge, Put, Spread
<1>6. /\ DOMAIN Spread(changes, row) = {"active"} \cup DOMAIN row
      /\ Spread(changes, row).active = active
      /\ "controller" \in DOMAIN row =>
            Spread(changes, row).controller = row.controller
    BY DEF Spread
<1>7. AgentRowOK(a)' /\ IsRegistered(a)'
    BY <1>2, <1>3, <1>4, <1>5, <1>6 DEF AgentRowOK, IsRegistered
<1>8. QED
    BY <1>3, <1>5, <1>7, AgentRowChanges

\* Its metadata is not in the table.
LEMMA MetadataShown ==
    ASSUME RegistryTypeOK, AgentsShown, NEW caller \in Accounts, NEW a \in Ids,
           NEW hash, updateMetadata(caller, a, hash),
           CaughtUp'.agents = CaughtUp.agents
    PROVE  AgentsShown'
<1>1. /\ identities' = [identities EXCEPT ![a].metadataHash = hash]
      /\ DOMAIN identities = Ids /\ OnlyController(caller, a)
      /\ caller # NoAddress
    BY ChainAssumption DEF updateMetadata, RegistryTypeOK
<1>2. identities[a] \in Identity /\ IsRegistered(a)
    BY <1>1, ControlledIdentity DEF OnlyController, IsRegistered
<1>3. /\ identities'[a].controller = identities[a].controller
      /\ identities'[a].active = identities[a].active
      /\ \A x \in Ids \ {a} : identities'[x] = identities[x]
    BY <1>1, <1>2 DEF Identity
<1>4. a \in DOMAIN CaughtUp.agents /\ AgentRowOK(a)
    BY <1>2 DEF AgentsShown
<1>5. AgentRowOK(a)' /\ IsRegistered(a)'
    BY <1>2, <1>3, <1>4 DEF AgentRowOK, IsRegistered
<1>6. QED
    BY <1>3, <1>4, <1>5, AgentRowChanges

-----------------------------------------------------------------------------
(* Reservations and their table                                            *)

LEMMA RecycledType ==
    ASSUME ReservationsShown
    PROVE  Recycled \in [ReservationIds -> Nat]
BY DEF Recycled, ReservationsShown, RowAccounted

\* One reservation changes, and its row with it; the pool by what its row has
\* more of.
LEMMA ReservationRowChanges ==
    ASSUME VaultOK, ReservationsShown, NEW id \in ReservationIds,
           \A x \in ReservationIds \ {id} : reservations'[x] = reservations[x],
           DOMAIN CaughtUp'.reservations = DOMAIN CaughtUp.reservations \cup {id},
           \A x \in DOMAIN CaughtUp.reservations \ {id} :
              CaughtUp'.reservations[x] = CaughtUp.reservations[x],
           reservations'[id].amount > 0, RowAccounted(id)',
           recyclablePool' = recyclablePool
                             + (CaughtUp'.reservations[id].recycled - Recycled[id])
    PROVE  ReservationsShown'
<1>1. DOMAIN CaughtUp'.reservations =
         {x \in ReservationIds : reservations'[x].amount > 0}
    BY DEF ReservationsShown
<1>2. ASSUME NEW x \in DOMAIN CaughtUp'.reservations
      PROVE  RowAccounted(x)'
  <2>1. CASE x = id
    BY <2>1
  <2>2. CASE x # id
    <3>1. x \in DOMAIN CaughtUp.reservations /\ x \in ReservationIds
      BY <1>2, <2>2 DEF ReservationsShown
    <3>2. RowAccounted(x)
          /\ CaughtUp'.reservations[x] = CaughtUp.reservations[x]
          /\ reservations'[x] = reservations[x]
      BY <2>2, <3>1 DEF ReservationsShown
    <3>3. QED
      BY <3>2 DEF RowAccounted, ReservationAccounted
  <2>3. QED
    BY <2>1, <2>2
<1> DEFINE f == Recycled
           g == [x \in ReservationIds |->
                    IF x \in DOMAIN CaughtUp'.reservations
                    THEN CaughtUp'.reservations[x].recycled ELSE 0]
<1>3. f \in [ReservationIds -> Nat]
    BY RecycledType
<1>4. g \in [ReservationIds -> Nat]
    BY <1>2 DEF RowAccounted
<1>5. \A x \in ReservationIds \ {id} : f[x] = g[x]
    BY DEF Recycled
<1>6. g[id] = CaughtUp'.reservations[id].recycled
    OBVIOUS
<1>7. Recycled' = g /\ recyclablePool = Total(f) /\ recyclablePool \in Nat
    BY DEF Recycled, ReservationsShown, VaultOK
<1>8. recyclablePool' = recyclablePool + (g[id] - f[id])
    BY <1>6
<1> HIDE DEF f, g
<1>9. Total(g) + f[id] = Total(f) + g[id] /\ Total(g) \in Nat
    BY <1>3, <1>4, <1>5, IndexAssumption, TotalPoint, TotalIsNat
<1>10. f[id] \in Nat /\ g[id] \in Nat
    BY <1>3, <1>4
<1>11. recyclablePool' = Total(g)
    BY <1>7, <1>8, <1>9, <1>10
<1>12. QED
    BY <1>1, <1>2, <1>7, <1>11 DEF ReservationsShown

LEMMA ReserveShown ==
    ASSUME VaultOK, ReservationsShown, NEW id \in ReservationIds, NEW caller,
           NEW agent, NEW amount \in Nat, NEW expiresAt,
           Vault!IsFresh(id), amount > 0, UNCHANGED recyclablePool,
           reservations' = [reservations EXCEPT
               ![id] = Vault!NewReservation(caller, agent, amount, expiresAt)],
           CaughtUp'.reservations =
             Put(CaughtUp.reservations, id,
                 [requester |-> caller, amount |-> amount, consumed |-> 0,
                  refunded |-> 0, recycled |-> 0, status |-> "RESERVED"])
    PROVE  ReservationsShown'
<1> DEFINE new == Vault!NewReservation(caller, agent, amount, expiresAt)
           row == [requester |-> caller, amount |-> amount, consumed |-> 0,
                   refunded |-> 0, recycled |-> 0, status |-> "RESERVED"]
<1>1. /\ reservations'[id] = new
      /\ \A x \in ReservationIds \ {id} : reservations'[x] = reservations[x]
    BY DEF VaultOK
<1>2. new.amount = amount /\ ~new.consumed /\ ~new.released
    BY DEF Vault!NewReservation
<1>3. /\ DOMAIN CaughtUp'.reservations = DOMAIN CaughtUp.reservations \cup {id}
      /\ \A x \in DOMAIN CaughtUp.reservations \ {id} :
            CaughtUp'.reservations[x] = CaughtUp.reservations[x]
      /\ CaughtUp'.reservations[id] = row
    BY DEF Put, Spread
<1>4. id \notin DOMAIN CaughtUp.reservations
    BY DEF ReservationsShown, Vault!IsFresh
<1>5. Recycled[id] = 0 /\ CaughtUp'.reservations[id].recycled = 0
    BY <1>3, <1>4 DEF Recycled
<1>6. recyclablePool' = recyclablePool
                        + (CaughtUp'.reservations[id].recycled - Recycled[id])
    BY <1>5 DEF VaultOK
<1>7. RowAccounted(id)'
    BY <1>1, <1>2, <1>3 DEF RowAccounted, ReservationAccounted, Vault!IsOpen
<1>8. reservations'[id].amount > 0
    BY <1>1, <1>2
<1> HIDE DEF new, row
<1>9. QED
    BY <1>1, <1>3, <1>6, <1>7, <1>8, ReservationRowChanges

\* An open reservation closes, and its row says where its amount went.
LEMMA CloseReservationShown ==
    ASSUME VaultOK, ReservationsShown, NEW id \in ReservationIds,
           Vault!IsOpen(reservations[id]),
           NEW new, reservations' = [reservations EXCEPT ![id] = new],
           new.amount = reservations[id].amount, ~Vault!IsOpen(new),
           NEW changes,
           DOMAIN changes \subseteq {"consumed", "refunded", "recycled", "status"},
           CaughtUp'.reservations = Merge(CaughtUp.reservations, id, changes),
           "status" \in DOMAIN changes, changes.status # "RESERVED",
           NEW consumed \in Nat, NEW refunded \in Nat, NEW recycled \in Nat,
           consumed + refunded + recycled = reservations[id].amount,
           consumed = IF "consumed" \in DOMAIN changes THEN changes.consumed ELSE 0,
           refunded = IF "refunded" \in DOMAIN changes THEN changes.refunded ELSE 0,
           recycled = IF "recycled" \in DOMAIN changes THEN changes.recycled ELSE 0,
           recyclablePool' = recyclablePool + recycled
    PROVE  ReservationsShown'
<1>1. /\ reservations'[id] = new
      /\ \A x \in ReservationIds \ {id} : reservations'[x] = reservations[x]
    BY DEF VaultOK
<1>2. reservations[id].amount > 0
    BY DEF Vault!IsOpen
<1>3. id \in DOMAIN CaughtUp.reservations /\ RowAccounted(id)
    BY <1>2 DEF ReservationsShown
<1> DEFINE row == CaughtUp.reservations[id]
           after == Spread(changes, row)
           fields == {"amount", "consumed", "refunded", "recycled", "status"}
<1>4. /\ row.consumed \in Nat /\ row.refunded \in Nat /\ row.recycled \in Nat
      /\ row.consumed + row.refunded + row.recycled = 0
      /\ row.amount = reservations[id].amount
      /\ fields \subseteq DOMAIN row
    BY <1>3 DEF RowAccounted, ReservationAccounted
<1> HIDE DEF row
<1>5. row.consumed = 0 /\ row.refunded = 0 /\ row.recycled = 0
    BY <1>4
<1>6. /\ DOMAIN after = DOMAIN changes \cup DOMAIN row
      /\ \A x \in fields :
            after[x] = IF x \in DOMAIN changes THEN changes[x] ELSE row[x]
    BY <1>4 DEF Spread
<1> HIDE DEF after
<1>7. /\ after.consumed = consumed /\ after.refunded = refunded
      /\ after.recycled = recycled /\ after.amount = reservations[id].amount
      /\ after.status # "RESERVED"
      /\ fields \subseteq DOMAIN after
    BY <1>4, <1>5, <1>6
<1>8. /\ DOMAIN CaughtUp'.reservations = DOMAIN CaughtUp.reservations \cup {id}
      /\ \A x \in DOMAIN CaughtUp.reservations \ {id} :
            CaughtUp'.reservations[x] = CaughtUp.reservations[x]
      /\ CaughtUp'.reservations[id] = after
  <2>1. CaughtUp'.reservations = Put(CaughtUp.reservations, id, after)
    BY <1>3 DEF Merge, after, row
  <2>2. QED
    BY <1>3, <2>1 DEF Put, Spread
<1>9. Recycled[id] = 0 /\ CaughtUp'.reservations[id].recycled = recycled
    BY <1>3, <1>5, <1>7, <1>8 DEF Recycled, row
<1>10. recyclablePool' = recyclablePool
                         + (CaughtUp'.reservations[id].recycled - Recycled[id])
    BY <1>9 DEF VaultOK
<1>11. RowAccounted(id)'
    BY <1>1, <1>7, <1>8 DEF RowAccounted, ReservationAccounted
<1>12. reservations'[id].amount > 0
    BY <1>1, <1>2
<1>13. QED
    BY <1>1, <1>8, <1>10, <1>11, <1>12, ReservationRowChanges

-----------------------------------------------------------------------------
(* What stays as it was                                                    *)

LEMMA ObjectsStay ==
    ASSUME ObjectsShown, UNCHANGED objects, CaughtUp'.objects = CaughtUp.objects,
           CaughtUp.recoveries \subseteq CaughtUp'.recoveries
    PROVE  ObjectsShown'
<1>1. \A id \in Objects : RecoveryShown(id)'
    BY DEF ObjectsShown, RecoveryShown, OwnerOf
<1>2. \A id \in DOMAIN CaughtUp'.objects : ObjectRowOK(id)'
    BY DEF ObjectsShown, ObjectRowOK, OwnerOf
<1>3. QED
    BY <1>1, <1>2 DEF ObjectsShown, ObjectExists, OwnerOf

LEMMA EscrowsStay ==
    ASSUME EscrowsShown, UNCHANGED escrows, CaughtUp'.escrows = CaughtUp.escrows
    PROVE  EscrowsShown'
BY DEF EscrowsShown, EscrowExists, EscrowRowOK

LEMMA ListingsStay ==
    ASSUME ListingsShown, UNCHANGED listings,
           CaughtUp'.listings = CaughtUp.listings
    PROVE  ListingsShown'
BY DEF ListingsShown, IsListed, ListingRowOK, ListingOK

LEMMA AgentsStay ==
    ASSUME AgentsShown, UNCHANGED identities, CaughtUp'.agents = CaughtUp.agents
    PROVE  AgentsShown'
BY DEF AgentsShown, IsRegistered, AgentRowOK

LEMMA ReservationsStay ==
    ASSUME ReservationsShown, UNCHANGED <<reservations, recyclablePool>>,
           CaughtUp'.reservations = CaughtUp.reservations
    PROVE  ReservationsShown'
<1>1. Recycled' = Recycled
    BY DEF Recycled
<1>2. QED
    BY <1>1 DEF ReservationsShown, RowAccounted, ReservationAccounted

LEMMA TablesStay ==
    ASSUME NEW en, NEW new, NEW names, SameBut(en, new, names)
    PROVE  /\ AreEntities(new)
           /\ "agents" \notin names => new.agents = en.agents
           /\ "objects" \notin names => new.objects = en.objects
           /\ "escrows" \notin names => new.escrows = en.escrows
           /\ "listings" \notin names => new.listings = en.listings
           /\ "reservations" \notin names => new.reservations = en.reservations
           /\ "recoveries" \notin names => new.recoveries = en.recoveries
BY DEF SameBut, Tables

-----------------------------------------------------------------------------
(* The transactions                                                        *)

LEMMA ObjectStep ==
    ASSUME IndexInv, NEW caller \in Accounts, ObjectTransaction(caller)
    PROVE  IndexInv'
<1>1. ObjectCall(caller)
    BY DEF ObjectTransaction, ObjectCall, Addresses
<1>2. UNCHANGED <<wallets, blockTime, marketVars, escrowVars, registryVars,
                  vaultVars>>
    BY DEF ObjectTransaction
<1>3. ContractsOK'
  <2>1. ObjectsOK'
    BY <1>1, ObjectCallKeeps DEF IndexInv, ContractsOK, ObjectsOK
  <2>2. /\ ChainTypeOK' /\ MarketTypeOK' /\ MarketKeepsNothing' /\ RegistryInv'
        /\ VaultOK'
    BY <1>2 DEF IndexInv, ContractsOK, ChainTypeOK, MarketTypeOK,
       MarketKeepsNothing, RegistryInv, RegistryTypeOK, OneWalletOneAgent,
       IsRegistered, VaultOK, marketVars, registryVars, vaultVars
  <2>3. EscrowsOK'
    BY <1>2 DEF IndexInv, ContractsOK, EscrowsOK, EscrowTypeOK, EscrowInv,
       EscrowSolvent, Locked, escrowVars
  <2>4. QED
    BY <2>1, <2>2, <2>3 DEF ContractsOK
<1>4. ASSUME CaughtUp'.agents = CaughtUp.agents,
             CaughtUp'.escrows = CaughtUp.escrows,
             CaughtUp'.listings = CaughtUp.listings,
             CaughtUp'.reservations = CaughtUp.reservations
      PROVE  EscrowsShown' /\ ListingsShown' /\ AgentsShown' /\ ReservationsShown'
  <2>1. UNCHANGED <<escrows, listings, identities, reservations, recyclablePool>>
    BY <1>2 DEF marketVars, escrowVars, registryVars, vaultVars
  <2>2. QED
    BY <1>4, <2>1, EscrowsStay, ListingsStay, AgentsStay, ReservationsStay
       DEF IndexInv
<1>5. ASSUME NEW names, names \subseteq {"objects", "recoveries"},
             SameBut(CaughtUp, CaughtUp', names), ObjectsShown', IsQueue(pending)'
      PROVE  IndexInv'
    BY <1>3, <1>4, <1>5, TablesStay DEF IndexInv
<1>6. /\ IsQueue(pending) /\ AreEntities(CaughtUp) /\ ObjectsShown
      /\ ObjectTypeOK
    BY DEF IndexInv, ContractsOK, ObjectsOK
<1>7. ASSUME Emit(<<>>), UNCHANGED objects
      PROVE  IndexInv'
  <2>1. IsQueue(pending)' /\ CaughtUp' = CaughtUp
    BY <1>6, <1>7, NothingEmitted
  <2>2. SameBut(CaughtUp, CaughtUp', {})
    BY <1>6, <2>1 DEF SameBut
  <2>3. ObjectsShown'
    BY <1>6, <1>7, <2>1, ObjectsStay
  <2>4. QED
    BY <1>5, <2>1, <2>2, <2>3
<1>8. ASSUME NEW operator, NEW approved,
             setApprovalForAll(caller, operator, approved), Emit(<<>>)
      PROVE  IndexInv'
    BY <1>7, <1>8 DEF setApprovalForAll
<1>9. ASSUME NEW id \in Objects, NEW to, approve(caller, to, id), Emit(<<>>)
      PROVE  IndexInv'
    BY <1>7, <1>9 DEF approve
<1>10. ASSUME NEW id \in Objects, NEW expiry, NEW transferable,
              createObject(caller, id, expiry, transferable),
              Emit(<<[type |-> "ObjectCreated", id |-> id, owner |-> caller]>>)
       PROVE  IndexInv'
  <2> DEFINE e == [type |-> "ObjectCreated", id |-> id, owner |-> caller]
  <2>1. e.type = "ObjectCreated" /\ e.id = id /\ e.owner = caller
    OBVIOUS
  <2>2. Emit(<<e>>)
    BY <1>10
  <2> HIDE DEF e
  <2>3. IsQueue(pending)' /\ CaughtUp' = Handled(CaughtUp, e)
    BY <1>6, <2>2, OneEmitted
  <2>4. /\ SameBut(CaughtUp, CaughtUp', {"objects"})
        /\ CaughtUp'.objects =
             Put(CaughtUp.objects, id,
                 [owner |-> caller, expiry |-> 0, transferable |-> TRUE,
                  status |-> "ACTIVE"])
    BY <1>6, <2>1, <2>3, ObjectEvents
  <2>5. CaughtUp'.recoveries = CaughtUp.recoveries
    BY <2>4, TablesStay
  <2>6. ObjectsShown'
    BY <1>6, <1>10, <2>4, <2>5, CreateShown
  <2>7. QED
    BY <1>5, <2>3, <2>4, <2>6
<1>11. ASSUME NEW id \in Objects, NEW to, ObjectExists(id),
              ExecuteTransfer(id, to), Emit(<<Moved(id, to)>>)
       PROVE  IndexInv'
  <2> DEFINE e == Moved(id, to)
  <2>1. e.type = "ObjectTransferred" /\ e.id = id /\ e.newOwner = to
    BY DEF Moved
  <2>2. Emit(<<e>>)
    BY <1>11
  <2> HIDE DEF e
  <2>3. IsQueue(pending)' /\ CaughtUp' = Handled(CaughtUp, e)
    BY <1>6, <2>2, OneEmitted
  <2>4. /\ SameBut(CaughtUp, CaughtUp', {"objects"})
        /\ CaughtUp'.objects = Merge(CaughtUp.objects, id, [owner |-> to])
    BY <1>6, <2>1, <2>3, ObjectEvents
  <2>5. CaughtUp'.recoveries = CaughtUp.recoveries
    BY <2>4, TablesStay
  <2>6. ObjectsShown'
    BY <1>6, <1>11, <2>4, <2>5, TransferShown
  <2>7. QED
    BY <1>5, <2>3, <2>4, <2>6
<1>12. ASSUME NEW id \in Objects, NEW status, setStatus(caller, id, status),
              Emit(<<[type |-> "ObjectStatusUpdated", id |-> id,
                      status |-> status, block |-> blockTime]>>)
       PROVE  IndexInv'
  <2> DEFINE e == [type |-> "ObjectStatusUpdated", id |-> id,
                   status |-> status, block |-> blockTime]
  <2>1. e.type = "ObjectStatusUpdated" /\ e.id = id /\ e.status = status
    OBVIOUS
  <2>2. Emit(<<e>>)
    BY <1>12
  <2> HIDE DEF e
  <2>3. IsQueue(pending)' /\ CaughtUp' = Handled(CaughtUp, e)
    BY <1>6, <2>2, OneEmitted
  <2>4. /\ SameBut(CaughtUp, CaughtUp', {"objects", "recoveries"})
        /\ CaughtUp'.objects = Merge(CaughtUp.objects, id, [status |-> status])
        /\ CaughtUp'.recoveries =
              IF status = "RECOVERED"
              THEN CaughtUp.recoveries \cup {Recovery(CaughtUp, e)}
              ELSE CaughtUp.recoveries
    BY <1>6, <2>1, <2>3, ObjectEvents
  <2>5. ObjectsShown'
    BY <1>6, <1>12, <2>4, StatusShown DEF e
  <2>6. QED
    BY <1>5, <2>3, <2>4, <2>5
<1>13. ASSUME NEW id \in Objects, NEW to \in Addresses,
              \/ transferObject(caller, id, to)
              \/ \E from \in Accounts : transferFrom(caller, from, to, id)
       PROVE  ObjectExists(id) /\ ExecuteTransfer(id, to)
    BY <1>13 DEF transferObject, transferFrom, IsApprovedOrOwner, ObjectExists
<1>14. QED
    BY <1>8, <1>9, <1>10, <1>11, <1>12, <1>13 DEF ObjectTransaction

LEMMA MarketStep ==
    ASSUME IndexInv, NEW caller \in Accounts, MarketTransaction(caller)
    PROVE  IndexInv'
<1>1. MarketCall(caller)
    BY DEF MarketTransaction, MarketCall
<1>2. UNCHANGED <<blockTime, escrowVars, registryVars, vaultVars>>
    BY DEF MarketTransaction
<1>3. ContractsOK'
  <2>1. /\ ObjectsOK' /\ MarketTypeOK' /\ MarketKeepsNothing'
        /\ wallets' \in [Accounts -> Nat]
    BY <1>1, MarketCallKeeps DEF IndexInv, ContractsOK
  <2>2. ChainTypeOK' /\ RegistryInv' /\ VaultOK'
    BY <1>2, <2>1 DEF IndexInv, ContractsOK, ChainTypeOK, RegistryInv,
       RegistryTypeOK, OneWalletOneAgent, IsRegistered, VaultOK, registryVars,
       vaultVars
  <2>3. EscrowsOK'
    BY <1>2 DEF IndexInv, ContractsOK, EscrowsOK, EscrowTypeOK, EscrowInv,
       EscrowSolvent, Locked, escrowVars
  <2>4. QED
    BY <2>1, <2>2, <2>3 DEF ContractsOK
<1>4. ASSUME CaughtUp'.agents = CaughtUp.agents,
             CaughtUp'.escrows = CaughtUp.escrows,
             CaughtUp'.reservations = CaughtUp.reservations
      PROVE  EscrowsShown' /\ AgentsShown' /\ ReservationsShown'
  <2>1. UNCHANGED <<escrows, identities, reservations, recyclablePool>>
    BY <1>2 DEF escrowVars, registryVars, vaultVars
  <2>2. QED
    BY <1>4, <2>1, EscrowsStay, AgentsStay, ReservationsStay DEF IndexInv
<1>5. ASSUME NEW names, names \subseteq {"objects", "listings"},
             SameBut(CaughtUp, CaughtUp', names), ObjectsShown', ListingsShown',
             IsQueue(pending)'
      PROVE  IndexInv'
    BY <1>3, <1>4, <1>5, TablesStay DEF IndexInv
<1>6. /\ IsQueue(pending) /\ AreEntities(CaughtUp) /\ ObjectsShown
      /\ ListingsShown /\ ObjectTypeOK /\ MarketTypeOK
    BY DEF IndexInv, ContractsOK, ObjectsOK
<1>7. ASSUME UNCHANGED objectVars, CaughtUp'.objects = CaughtUp.objects,
             CaughtUp'.recoveries = CaughtUp.recoveries
      PROVE  ObjectsShown'
    BY <1>6, <1>7, ObjectsStay DEF objectVars
<1>8. ASSUME NEW to, setFeeRecipient(caller, to), Emit(<<>>), UNCHANGED objectVars
      PROVE  IndexInv'
  <2>1. IsQueue(pending)' /\ CaughtUp' = CaughtUp
    BY <1>6, <1>8, NothingEmitted
  <2>2. SameBut(CaughtUp, CaughtUp', {})
    BY <1>6, <2>1 DEF SameBut
  <2>3. ListingsShown'
    BY <1>6, <1>8, <2>1, ListingsStay DEF setFeeRecipient
  <2>4. QED
    BY <1>5, <1>7, <1>8, <2>1, <2>2, <2>3
<1>9. ASSUME NEW l \in Listings, NEW id \in Objects, NEW price,
             listObject(caller, l, id, price), UNCHANGED objectVars,
             Emit(<<[type |-> "ObjectListed", id |-> l, objectId |-> id,
                     seller |-> caller, price |-> price]>>)
      PROVE  IndexInv'
  <2> DEFINE e == [type |-> "ObjectListed", id |-> l, objectId |-> id,
                   seller |-> caller, price |-> price]
  <2>1. /\ e.type = "ObjectListed" /\ e.id = l /\ e.objectId = id
        /\ e.seller = caller /\ e.price = price
    OBVIOUS
  <2>2. Emit(<<e>>)
    BY <1>9
  <2> HIDE DEF e
  <2>3. IsQueue(pending)' /\ CaughtUp' = Handled(CaughtUp, e)
    BY <1>6, <2>2, OneEmitted
  <2>4. /\ SameBut(CaughtUp, CaughtUp', {"listings"})
        /\ CaughtUp'.listings =
             Put(CaughtUp.listings, l,
                 [objectId |-> id, seller |-> caller, price |-> price,
                  active |-> TRUE])
    BY <1>6, <2>1, <2>3, ListingEvents
  <2>5. /\ CaughtUp'.objects = CaughtUp.objects
        /\ CaughtUp'.recoveries = CaughtUp.recoveries
    BY <2>4, TablesStay
  <2>6. ListingsShown'
    BY <1>6, <1>9, <2>4, ListShown
  <2>7. QED
    BY <1>5, <1>7, <1>9, <2>3, <2>4, <2>5, <2>6
<1>10. ASSUME NEW l \in Listings, cancelListing(caller, l), UNCHANGED objectVars,
              Emit(<<[type |-> "ListingCancelled", id |-> l]>>)
       PROVE  IndexInv'
  <2> DEFINE e == [type |-> "ListingCancelled", id |-> l]
  <2>1. e.type = "ListingCancelled" /\ e.id = l
    OBVIOUS
  <2>2. Emit(<<e>>)
    BY <1>10
  <2> HIDE DEF e
  <2>3. IsQueue(pending)' /\ CaughtUp' = Handled(CaughtUp, e)
    BY <1>6, <2>2, OneEmitted
  <2>4. /\ SameBut(CaughtUp, CaughtUp', {"listings"})
        /\ CaughtUp'.listings = Merge(CaughtUp.listings, l, [active |-> FALSE])
    BY <1>6, <2>1, <2>3, ListingEvents
  <2>5. /\ CaughtUp'.objects = CaughtUp.objects
        /\ CaughtUp'.recoveries = CaughtUp.recoveries
    BY <2>4, TablesStay
  <2>6. ListingsShown'
    BY <1>6, <1>10, <2>4, CloseShown DEF cancelListing
  <2>7. QED
    BY <1>5, <1>7, <1>10, <2>3, <2>4, <2>5, <2>6
<1>11. ASSUME NEW l \in Listings, NEW value, buyObject(caller, l, value),
              Emit(<<Moved(listings[l].objectId, caller),
                     [type |-> "ObjectPurchased", id |-> l]>>)
       PROVE  IndexInv'
  <2> DEFINE id == listings[l].objectId
             e == Moved(id, caller)
             f == [type |-> "ObjectPurchased", id |-> l]
             between == Handled(CaughtUp, e)
  <2>1. /\ listings[l].active
        /\ listings' = [listings EXCEPT ![l].active = FALSE]
        /\ ObjectExists(id) /\ ExecuteTransfer(id, caller)
    BY <1>11 DEF buyObject, transferFrom, IsApprovedOrOwner, ObjectExists
  <2>2. id \in Objects
    BY <1>6, <2>1 DEF ListingsShown, ListingOK
  <2>3. /\ e.type = "ObjectTransferred" /\ e.id = id /\ e.newOwner = caller
        /\ f.type = "ObjectPurchased" /\ f.id = l
    BY DEF Moved
  <2>4. Emit(<<e, f>>)
    BY <1>11
  <2> HIDE DEF e, f, id
  <2>5. IsQueue(pending)' /\ CaughtUp' = Handled(between, f)
    BY <1>6, <2>4, TwoEmitted
  <2>6. /\ SameBut(CaughtUp, between, {"objects"})
        /\ between.objects = Merge(CaughtUp.objects, id, [owner |-> caller])
    BY <1>6, <2>3, ObjectEvents
  <2> HIDE DEF between
  <2>7. /\ SameBut(between, CaughtUp', {"listings"})
        /\ CaughtUp'.listings = Merge(between.listings, l, [active |-> FALSE])
    BY <2>3, <2>5, <2>6, ListingEvents DEF SameBut
  <2>8. SameBut(CaughtUp, CaughtUp', {"objects", "listings"})
    BY <2>6, <2>7 DEF SameBut
  <2>9. /\ CaughtUp'.objects = Merge(CaughtUp.objects, id, [owner |-> caller])
        /\ CaughtUp'.listings = Merge(CaughtUp.listings, l, [active |-> FALSE])
        /\ CaughtUp'.recoveries = CaughtUp.recoveries
    BY <2>6, <2>7, <2>8, TablesStay
  <2>10. ObjectsShown'
    BY <1>6, <2>1, <2>2, <2>9, TransferShown
  <2>11. ListingsShown'
    BY <1>6, <2>1, <2>9, CloseShown
  <2>12. QED
    BY <1>5, <2>5, <2>8, <2>10, <2>11
<1>12. QED
    BY <1>8, <1>9, <1>10, <1>11 DEF MarketTransaction

LEMMA EscrowStep ==
    ASSUME IndexInv, NEW caller \in Accounts, EscrowTransaction(caller)
    PROVE  IndexInv'
<1>1. EscrowCall(caller)
    BY DEF EscrowTransaction, EscrowCall, Addresses, submitDelivery
<1>2. UNCHANGED <<blockTime, marketVars, registryVars, vaultVars>>
    BY DEF EscrowTransaction
<1>3. ContractsOK'
  <2>1. ObjectsOK' /\ EscrowsOK' /\ wallets' \in [Accounts -> Nat]
    BY <1>1, EscrowCallKeeps DEF IndexInv, ContractsOK
  <2>2. ChainTypeOK' /\ RegistryInv' /\ VaultOK'
    BY <1>2, <2>1 DEF IndexInv, ContractsOK, ChainTypeOK, RegistryInv,
       RegistryTypeOK, OneWalletOneAgent, IsRegistered, VaultOK, registryVars,
       vaultVars
  <2>3. MarketTypeOK' /\ MarketKeepsNothing'
    BY <1>2 DEF IndexInv, ContractsOK, MarketTypeOK, MarketKeepsNothing,
       marketVars
  <2>4. QED
    BY <2>1, <2>2, <2>3 DEF ContractsOK
<1>4. ASSUME CaughtUp'.agents = CaughtUp.agents,
             CaughtUp'.listings = CaughtUp.listings,
             CaughtUp'.reservations = CaughtUp.reservations
      PROVE  ListingsShown' /\ AgentsShown' /\ ReservationsShown'
  <2>1. UNCHANGED <<listings, identities, reservations, recyclablePool>>
    BY <1>2 DEF marketVars, registryVars, vaultVars
  <2>2. QED
    BY <1>4, <2>1, ListingsStay, AgentsStay, ReservationsStay DEF IndexInv
<1>5. ASSUME NEW names, names \subseteq {"objects", "escrows"},
             SameBut(CaughtUp, CaughtUp', names), ObjectsShown', EscrowsShown',
             IsQueue(pending)'
      PROVE  IndexInv'
    BY <1>3, <1>4, <1>5, TablesStay DEF IndexInv
<1>6. /\ IsQueue(pending) /\ AreEntities(CaughtUp) /\ ObjectsShown
      /\ EscrowsShown /\ ObjectTypeOK /\ EscrowTypeOK
    BY DEF IndexInv, ContractsOK, ObjectsOK, EscrowsOK
<1>7. ASSUME UNCHANGED objectVars, CaughtUp'.objects = CaughtUp.objects,
             CaughtUp'.recoveries = CaughtUp.recoveries
      PROVE  ObjectsShown'
    BY <1>6, <1>7, ObjectsStay DEF objectVars
<1>8. ASSUME setEconomicObjectContract(caller), Emit(<<>>), UNCHANGED objectVars
      PROVE  IndexInv'
  <2>1. IsQueue(pending)' /\ CaughtUp' = CaughtUp
    BY <1>6, <1>8, NothingEmitted
  <2>2. SameBut(CaughtUp, CaughtUp', {})
    BY <1>6, <2>1 DEF SameBut
  <2>3. EscrowsShown'
    BY <1>6, <1>8, <2>1, EscrowsStay DEF setEconomicObjectContract
  <2>4. QED
    BY <1>5, <1>7, <1>8, <2>1, <2>2, <2>3
<1>9. ASSUME NEW x \in Escrows, NEW seller, NEW deadline, NEW linked,
             NEW value \in Amounts,
             lockEscrow(caller, x, seller, deadline, linked, value),
             UNCHANGED objectVars,
             Emit(<<[type |-> "EscrowLocked", id |-> x, buyer |-> caller,
                     seller |-> seller, amount |-> value,
                     linkedObjectId |-> linked,
                     timestamp |-> blockTime]>>)
      PROVE  IndexInv'
  <2> DEFINE e == [type |-> "EscrowLocked", id |-> x, buyer |-> caller,
                   seller |-> seller, amount |-> value,
                   linkedObjectId |-> linked, timestamp |-> blockTime]
  <2>1. /\ e.type = "EscrowLocked" /\ e.id = x /\ e.buyer = caller
        /\ e.seller = seller /\ e.amount = value /\ e.linkedObjectId = linked
        /\ e.timestamp = blockTime
    OBVIOUS
  <2>2. Emit(<<e>>)
    BY <1>9
  <2> HIDE DEF e
  <2>3. IsQueue(pending)' /\ CaughtUp' = Handled(CaughtUp, e)
    BY <1>6, <2>2, OneEmitted
  <2>4. /\ SameBut(CaughtUp, CaughtUp', {"escrows"})
        /\ CaughtUp'.escrows =
             Put(CaughtUp.escrows, x,
                 [buyer |-> caller, seller |-> seller, amount |-> value,
                  status |-> "LOCKED", linkedObjectId |-> linked,
                  createdAt |-> blockTime])
    BY <1>6, <2>1, <2>3, EscrowEvents
  <2>5. /\ CaughtUp'.objects = CaughtUp.objects
        /\ CaughtUp'.recoveries = CaughtUp.recoveries
    BY <2>4, TablesStay
  <2>6. EscrowsShown'
    BY <1>6, <1>9, <2>4, LockShown
  <2>7. QED
    BY <1>5, <1>7, <1>9, <2>3, <2>4, <2>5, <2>6
<1>10. ASSUME NEW x \in Escrows, NEW e, NEW status, Emit(<<e>>),
              \/ e.type = "DeliverySubmitted" /\ status = "DELIVERED"
              \/ e.type = "EscrowReleased" /\ status = "RELEASED"
              \/ e.type = "EscrowRefunded" /\ status = "REFUNDED",
              e.id = x, UNCHANGED objectVars,
              escrows' = [escrows EXCEPT ![x].status = status]
       PROVE  IndexInv'
  <2>1. IsQueue(pending)' /\ CaughtUp' = Handled(CaughtUp, e)
    BY <1>6, <1>10, OneEmitted
  <2>2. /\ SameBut(CaughtUp, CaughtUp', {"escrows"})
        /\ CaughtUp'.escrows = Merge(CaughtUp.escrows, x, [status |-> status])
    BY <1>6, <1>10, <2>1, EscrowEvents
  <2>3. /\ CaughtUp'.objects = CaughtUp.objects
        /\ CaughtUp'.recoveries = CaughtUp.recoveries
    BY <2>2, TablesStay
  <2>4. EscrowsShown'
    BY <1>6, <1>10, <2>2, EscrowStatusShown
  <2>5. QED
    BY <1>5, <1>7, <1>10, <2>1, <2>2, <2>3, <2>4
<1>11. ASSUME NEW x \in Escrows, submitDelivery(caller, x), UNCHANGED objectVars,
              Emit(<<[type |-> "DeliverySubmitted", id |-> x]>>)
       PROVE  IndexInv'
  <2> DEFINE e == [type |-> "DeliverySubmitted", id |-> x]
  <2>1. e.type = "DeliverySubmitted" /\ e.id = x /\ Emit(<<e>>)
    BY <1>11
  <2>2. escrows' = [escrows EXCEPT ![x].status = "DELIVERED"]
    BY <1>11 DEF submitDelivery
  <2> HIDE DEF e
  <2>3. QED
    BY <1>10, <1>11, <2>1, <2>2
<1>12. ASSUME NEW x \in Escrows, refund(caller, x), UNCHANGED objectVars,
              Emit(<<[type |-> "EscrowRefunded", id |-> x]>>)
       PROVE  IndexInv'
  <2> DEFINE e == [type |-> "EscrowRefunded", id |-> x]
  <2>1. e.type = "EscrowRefunded" /\ e.id = x /\ Emit(<<e>>)
    BY <1>12
  <2>2. escrows' = [escrows EXCEPT ![x].status = "REFUNDED"]
    BY <1>12 DEF refund
  <2> HIDE DEF e
  <2>3. QED
    BY <1>10, <1>12, <2>1, <2>2
<1>13. ASSUME NEW x \in Escrows, verifyAndRelease(caller, x),
              Emit((IF MovesObject(escrows[x])
                    THEN <<Moved(escrows[x].linkedObjectId, escrows[x].buyer)>>
                    ELSE <<>>)
                   \o <<[type |-> "EscrowReleased", id |-> x]>>)
       PROVE  IndexInv'
  <2> DEFINE id == escrows[x].linkedObjectId
             to == escrows[x].buyer
             e == Moved(id, to)
             f == [type |-> "EscrowReleased", id |-> x]
             between == Handled(CaughtUp, e)
  <2>1. /\ escrows' = [escrows EXCEPT ![x].status = "RELEASED"]
        /\ IF MovesObject(escrows[x])
           THEN ObjectExists(id) /\ ExecuteTransfer(id, to)
           ELSE UNCHANGED objectVars
    BY <1>13 DEF verifyAndRelease, transferFrom, IsApprovedOrOwner, ObjectExists
  <2>2. /\ e.type = "ObjectTransferred" /\ e.id = id /\ e.newOwner = to
        /\ f.type = "EscrowReleased" /\ f.id = x
    BY DEF Moved
  <2>3. Emit((IF MovesObject(escrows[x]) THEN <<e>> ELSE <<>>) \o <<f>>)
    BY <1>13
  <2>4. escrows[x].linkedObjectId \in Objects \cup {NoLink}
    BY <1>6 DEF EscrowTypeOK, EscrowRecord
  <2>5. MovesObject(escrows[x]) => id \in Objects
    BY <2>4 DEF MovesObject
  <2> HIDE DEF e, f, id, to
  <2>6. CASE MovesObject(escrows[x])
    <3>1. <<e>> \o <<f>> = <<e, f>>
      BY Joined
    <3>2. Emit(<<e>> \o <<f>>)
      BY <2>3, <2>6
    <3>3. Emit(<<e, f>>)
      BY <3>1, <3>2
    <3>4. IsQueue(pending)' /\ CaughtUp' = Handled(between, f)
      BY <1>6, <3>3, TwoEmitted
    <3>5. /\ SameBut(CaughtUp, between, {"objects"})
          /\ between.objects = Merge(CaughtUp.objects, id, [owner |-> to])
      BY <1>6, <2>2, ObjectEvents
    <3> HIDE DEF between
    <3>6. /\ SameBut(between, CaughtUp', {"escrows"})
          /\ CaughtUp'.escrows =
                Merge(between.escrows, x, [status |-> "RELEASED"])
      BY <2>2, <3>4, <3>5, EscrowEvents DEF SameBut
    <3>7. SameBut(CaughtUp, CaughtUp', {"objects", "escrows"})
      BY <3>5, <3>6 DEF SameBut
    <3>8. /\ CaughtUp'.objects = Merge(CaughtUp.objects, id, [owner |-> to])
          /\ CaughtUp'.escrows =
                Merge(CaughtUp.escrows, x, [status |-> "RELEASED"])
          /\ CaughtUp'.recoveries = CaughtUp.recoveries
      BY <3>5, <3>6, <3>7, TablesStay
    <3>9. ObjectsShown'
      BY <1>6, <2>1, <2>5, <2>6, <3>8, TransferShown
    <3>10. EscrowsShown'
      BY <1>6, <2>1, <3>8, EscrowStatusShown
    <3>11. QED
      BY <1>5, <3>4, <3>7, <3>9, <3>10
  <2>7. CASE ~MovesObject(escrows[x])
    <3>1. <<>> \o <<f>> = <<f>>
      BY Joined
    <3>2. Emit(<<>> \o <<f>>)
      BY <2>3, <2>7
    <3>3. Emit(<<f>>)
      BY <3>1, <3>2
    <3>4. QED
      BY <1>10, <2>1, <2>2, <2>7, <3>3
  <2>8. QED
    BY <2>6, <2>7
<1>14. QED
    BY <1>8, <1>9, <1>11, <1>12, <1>13 DEF EscrowTransaction

LEMMA RegistryTransactionStep ==
    ASSUME IndexInv, NEW caller \in Accounts, RegistryTransaction(caller)
    PROVE  IndexInv'
<1>1. UNCHANGED tradeVars /\ UNCHANGED vaultVars
    BY DEF RegistryTransaction
<1>2. UNCHANGED <<wallets, blockTime, objectVars, marketVars, escrowVars>>
    BY <1>1 DEF tradeVars
<1>3. ContractsOK'
  <2>1. RegistryInv'
    <3>1. PICK a \in Ids, hash \in Metadata, active \in BOOLEAN :
             \/ registerAgentWithURI(caller, a, hash)
             \/ setStatusOf(caller, a, active)
             \/ updateMetadata(caller, a, hash)
      BY RegistryAssumption DEF RegistryTransaction
    <3>2. RegistryNext
      BY <1>2, <3>1 DEF RegistryNext
    <3>3. QED
      BY <3>2, RegistryStep DEF IndexInv, ContractsOK
  <2>2. ObjectsOK'
    BY <1>2 DEF objectVars, ObjectsOK, ObjectTypeOK, ApprovedExist,
       ApprovalIsCurrent, OwnerOf, IndexInv, ContractsOK
  <2>3. ChainTypeOK' /\ MarketTypeOK' /\ MarketKeepsNothing' /\ VaultOK'
    BY <1>1, <1>2 DEF IndexInv, ContractsOK, ChainTypeOK, MarketTypeOK,
       MarketKeepsNothing, VaultOK, marketVars, vaultVars
  <2>4. EscrowsOK'
    BY <1>2 DEF IndexInv, ContractsOK, EscrowsOK, EscrowTypeOK, EscrowInv,
       EscrowSolvent, Locked, escrowVars
  <2>5. QED
    BY <2>1, <2>2, <2>3, <2>4 DEF ContractsOK
<1>4. ASSUME NEW names, names \subseteq {"agents"},
             SameBut(CaughtUp, CaughtUp', names), AgentsShown', IsQueue(pending)'
      PROVE  IndexInv'
  <2>1. UNCHANGED <<objects, listings, escrows, reservations, recyclablePool>>
    BY <1>1, <1>2 DEF objectVars, marketVars, escrowVars, vaultVars
  <2>2. /\ CaughtUp'.objects = CaughtUp.objects
        /\ CaughtUp'.escrows = CaughtUp.escrows
        /\ CaughtUp'.listings = CaughtUp.listings
        /\ CaughtUp'.reservations = CaughtUp.reservations
        /\ CaughtUp'.recoveries = CaughtUp.recoveries
        /\ AreEntities(CaughtUp')
    BY <1>4, TablesStay
  <2>3. ObjectsShown' /\ EscrowsShown' /\ ListingsShown' /\ ReservationsShown'
    BY <2>1, <2>2, ObjectsStay, EscrowsStay, ListingsStay, ReservationsStay
       DEF IndexInv
  <2>4. QED
    BY <1>3, <1>4, <2>2, <2>3 DEF IndexInv
<1>5. /\ IsQueue(pending) /\ AreEntities(CaughtUp) /\ AgentsShown
      /\ RegistryTypeOK
    BY DEF IndexInv, ContractsOK, RegistryInv
<1>6. ASSUME NEW a \in Ids, NEW hash, registerAgentWithURI(caller, a, hash),
             Emit(<<[type |-> "AgentRegistered", id |-> a,
                     controller |-> caller]>>)
      PROVE  IndexInv'
  <2> DEFINE e == [type |-> "AgentRegistered", id |-> a, controller |-> caller]
  <2>1. e.type = "AgentRegistered" /\ e.id = a /\ e.controller = caller
    OBVIOUS
  <2>2. Emit(<<e>>)
    BY <1>6
  <2> HIDE DEF e
  <2>3. IsQueue(pending)' /\ CaughtUp' = Handled(CaughtUp, e)
    BY <1>5, <2>2, OneEmitted
  <2>4. /\ SameBut(CaughtUp, CaughtUp', {"agents"})
        /\ CaughtUp'.agents =
             Put(CaughtUp.agents, a, [controller |-> caller, active |-> TRUE])
    BY <1>5, <2>1, <2>3, AgentEvents
  <2>5. AgentsShown'
    BY <1>5, <1>6, <2>4, RegisterShown
  <2>6. QED
    BY <1>4, <2>3, <2>4, <2>5
<1>7. ASSUME NEW a \in Ids, NEW active, setStatusOf(caller, a, active),
             Emit(<<[type |-> "AgentStatusChanged", id |-> a,
                     active |-> active]>>)
      PROVE  IndexInv'
  <2> DEFINE e == [type |-> "AgentStatusChanged", id |-> a, active |-> active]
  <2>1. e.type = "AgentStatusChanged" /\ e.id = a /\ e.active = active
    OBVIOUS
  <2>2. Emit(<<e>>)
    BY <1>7
  <2> HIDE DEF e
  <2>3. IsQueue(pending)' /\ CaughtUp' = Handled(CaughtUp, e)
    BY <1>5, <2>2, OneEmitted
  <2>4. /\ SameBut(CaughtUp, CaughtUp', {"agents"})
        /\ CaughtUp'.agents = Merge(CaughtUp.agents, a, [active |-> active])
    BY <1>5, <2>1, <2>3, AgentEvents
  <2>5. AgentsShown'
    BY <1>5, <1>7, <2>4, ActivityShown
  <2>6. QED
    BY <1>4, <2>3, <2>4, <2>5
<1>8. ASSUME NEW a \in Ids, NEW hash, updateMetadata(caller, a, hash), Emit(<<>>)
      PROVE  IndexInv'
  <2>1. IsQueue(pending)' /\ CaughtUp' = CaughtUp
    BY <1>5, <1>8, NothingEmitted
  <2>2. SameBut(CaughtUp, CaughtUp', {})
    BY <1>5, <2>1 DEF SameBut
  <2>3. AgentsShown'
    BY <1>5, <1>8, <2>1, MetadataShown
  <2>4. QED
    BY <1>4, <2>1, <2>2, <2>3
<1>9. QED
    BY <1>6, <1>7, <1>8 DEF RegistryTransaction

-----------------------------------------------------------------------------
(* The vault                                                               *)

\* A call that takes or pays coin leaves the wallets with natural numbers.
LEMMA VaultMovesCoin ==
    ASSUME wallets \in [Accounts -> Nat], NEW account \in Accounts,
           NEW value \in Nat,
           Vault!ReceiveValue(account, value) \/ Vault!SendValue(account, value)
    PROVE  wallets' \in [Accounts -> Nat]
<1>1. wallets[account] \in Nat
    OBVIOUS
<1>2. CASE Vault!ReceiveValue(account, value)
  <2>1. wallets[account] - value \in Nat
    BY <1>1, <1>2 DEF Vault!ReceiveValue
  <2>2. QED
    BY <1>2, <2>1 DEF Vault!ReceiveValue
<1>3. CASE Vault!SendValue(account, value)
  <2>1. wallets[account] + value \in Nat
    BY <1>1
  <2>2. QED
    BY <1>3, <2>1 DEF Vault!SendValue
<1>4. QED
    BY <1>2, <1>3

\* What a reservation is when it is made, settled, released or recycled.
LEMMA ReservationTypes ==
    ASSUME VaultOK, NEW id \in ReservationIds, NEW new \in Vault!Reservation,
           reservations' = [reservations EXCEPT ![id] = new],
           recyclablePool' \in Nat
    PROVE  VaultOK'
BY DEF VaultOK

\* A reservation is made.
LEMMA MakeTypes ==
    ASSUME VaultOK, ChainTypeOK, NEW caller \in Accounts,
           NEW id \in ReservationIds, NEW agent \in AgentIds,
           NEW amount \in Nat, NEW expiresAt \in Expiries,
           \/ Vault!reserveCredits(caller, id, agent, amount, expiresAt)
           \/ Vault!reserveCreditsWithDirectPayment(caller, id, agent, amount,
                                                    expiresAt)
    PROVE  VaultOK' /\ ChainTypeOK'
<1> DEFINE new == Vault!NewReservation(caller, agent, amount, expiresAt)
<1>1. new \in Vault!Reservation
    BY ObjectAssumption DEF Vault!NewReservation, Vault!Reservation
<1>2. /\ reservations' = [reservations EXCEPT ![id] = new]
      /\ UNCHANGED <<recyclablePool, blockTime>>
      /\ UNCHANGED wallets \/ Vault!ReceiveValue(caller, amount)
    BY DEF Vault!reserveCredits, Vault!reserveCreditsWithDirectPayment,
           Vault!coinVars
<1> HIDE DEF new
<1>3. VaultOK'
    BY <1>1, <1>2, ReservationTypes DEF VaultOK
<1>4. wallets' \in [Accounts -> Nat]
    BY <1>2, VaultMovesCoin DEF ChainTypeOK
<1>5. QED
    BY <1>2, <1>3, <1>4 DEF ChainTypeOK

\* A reservation is released or recycled.
LEMMA ReleaseTypes ==
    ASSUME VaultOK, ChainTypeOK, NEW caller, NEW id \in ReservationIds,
           \/ Vault!releaseReservation(caller, id)
           \/ Vault!recycleReservation(caller, id)
    PROVE  VaultOK' /\ ChainTypeOK'
<1> DEFINE new == [reservations[id] EXCEPT !.released = TRUE]
<1>1. /\ reservations[id] \in Vault!Reservation
      /\ reservations[id].amount \in Nat /\ recyclablePool \in Nat
    BY DEF VaultOK, Vault!Reservation
<1>2. new \in Vault!Reservation
    BY <1>1 DEF Vault!Reservation
<1>3. /\ reservations' = [reservations EXCEPT ![id] = new]
      /\ UNCHANGED <<wallets, blockTime>>
      /\ \/ recyclablePool' = recyclablePool
         \/ recyclablePool' = recyclablePool + reservations[id].amount
    BY DEF Vault!releaseReservation, Vault!recycleReservation, Vault!coinVars
<1> HIDE DEF new
<1>4. recyclablePool' \in Nat
    BY <1>1, <1>3
<1>5. QED
    BY <1>2, <1>3, <1>4, ReservationTypes DEF ChainTypeOK

\* A settlement: what it consumes may leave the vault.
LEMMA SettlementTypes ==
    ASSUME VaultOK, ChainTypeOK, NEW caller, NEW id \in ReservationIds,
           NEW consumed \in Nat, Vault!settleReservation(caller, id, consumed)
    PROVE  VaultOK' /\ ChainTypeOK'
<1> DEFINE r == reservations[id]
           controller == agentControllers[r.agentId]
           new == [r EXCEPT !.consumed = TRUE, !.consumedAmount = consumed]
<1>1. /\ reservations' = [reservations EXCEPT ![id] = new]
      /\ \/ Vault!SendValue(controller, consumed)
         \/ UNCHANGED wallets
      /\ UNCHANGED <<recyclablePool, blockTime>>
    BY DEF Vault!settleReservation, Vault!coinVars
<1>2. new \in Vault!Reservation
    BY DEF VaultOK, Vault!Reservation
<1>3. wallets' \in [Accounts -> Nat]
  <2>1. CASE UNCHANGED wallets
    BY <2>1 DEF ChainTypeOK
  <2>2. CASE Vault!SendValue(controller, consumed)
    <3>1. controller \in Accounts
      BY <2>2, ChainAssumption DEF Vault!SendValue
    <3> HIDE DEF controller
    <3>2. QED
      BY <2>2, <3>1, VaultMovesCoin DEF ChainTypeOK
  <2>3. QED
    BY <1>1, <2>1, <2>2
<1> HIDE DEF new
<1>4. VaultOK'
    BY <1>1, <1>2, ReservationTypes DEF VaultOK
<1>5. QED
    BY <1>1, <1>3, <1>4 DEF ChainTypeOK

LEMMA VaultStep ==
    ASSUME IndexInv, NEW caller \in Accounts, VaultTransaction(caller)
    PROVE  IndexInv'
<1>1. UNCHANGED <<objectVars, marketVars, escrowVars, registryVars>>
    BY DEF VaultTransaction
<1>2. /\ IsQueue(pending) /\ AreEntities(CaughtUp) /\ ReservationsShown
      /\ VaultOK /\ ChainTypeOK
    BY DEF IndexInv, ContractsOK
<1>3. ASSUME VaultOK', ChainTypeOK' PROVE ContractsOK'
  <2>1. ObjectsOK'
    BY <1>1 DEF objectVars, ObjectsOK, ObjectTypeOK, ApprovedExist,
       ApprovalIsCurrent, OwnerOf, IndexInv, ContractsOK
  <2>2. MarketTypeOK' /\ MarketKeepsNothing' /\ RegistryInv'
    BY <1>1 DEF IndexInv, ContractsOK, MarketTypeOK, MarketKeepsNothing,
       RegistryInv, RegistryTypeOK, OneWalletOneAgent, IsRegistered,
       marketVars, registryVars
  <2>3. EscrowsOK'
    BY <1>1 DEF IndexInv, ContractsOK, EscrowsOK, EscrowTypeOK, EscrowInv,
       EscrowSolvent, Locked, escrowVars
  <2>4. QED
    BY <1>3, <2>1, <2>2, <2>3 DEF ContractsOK
<1>4. ASSUME NEW names, names \subseteq {"reservations", "recoveries"},
             SameBut(CaughtUp, CaughtUp', names), ReservationsShown',
             CaughtUp.recoveries \subseteq CaughtUp'.recoveries,
             IsQueue(pending)', VaultOK', ChainTypeOK'
      PROVE  IndexInv'
  <2>1. UNCHANGED <<objects, listings, escrows, identities>>
    BY <1>1 DEF objectVars, marketVars, escrowVars, registryVars
  <2>2. /\ CaughtUp'.objects = CaughtUp.objects
        /\ CaughtUp'.escrows = CaughtUp.escrows
        /\ CaughtUp'.listings = CaughtUp.listings
        /\ CaughtUp'.agents = CaughtUp.agents
        /\ AreEntities(CaughtUp')
    BY <1>4, TablesStay
  <2>3. ObjectsShown' /\ EscrowsShown' /\ ListingsShown' /\ AgentsShown'
    BY <1>4, <2>1, <2>2, ObjectsStay, EscrowsStay, ListingsStay, AgentsStay
       DEF IndexInv
  <2>4. QED
    BY <1>3, <1>4, <2>2, <2>3 DEF IndexInv
<1>5. ASSUME NEW names, names \subseteq {"reservations"},
             SameBut(CaughtUp, CaughtUp', names), ReservationsShown',
             IsQueue(pending)', VaultOK', ChainTypeOK'
      PROVE  IndexInv'
  <2>1. CaughtUp'.recoveries = CaughtUp.recoveries
    BY <1>5, TablesStay
  <2>2. QED
    BY <1>4, <1>5, <2>1
<1>6. ASSUME Emit(<<>>), UNCHANGED <<reservations, recyclablePool, blockTime>>,
             wallets' \in [Accounts -> Nat]
      PROVE  IndexInv'
  <2>1. IsQueue(pending)' /\ CaughtUp' = CaughtUp
    BY <1>2, <1>6, NothingEmitted
  <2>2. SameBut(CaughtUp, CaughtUp', {})
    BY <1>2, <2>1 DEF SameBut
  <2>3. ReservationsShown'
    BY <1>2, <1>6, <2>1, ReservationsStay
  <2>4. VaultOK' /\ ChainTypeOK'
    BY <1>2, <1>6 DEF VaultOK, ChainTypeOK
  <2>5. QED
    BY <1>5, <2>1, <2>2, <2>3, <2>4
<1>7. ASSUME NEW agent, NEW controller,
             Vault!setAgentController(caller, agent, controller), Emit(<<>>)
      PROVE  IndexInv'
    BY <1>2, <1>6, <1>7
       DEF Vault!setAgentController, Vault!ledgerVars, Vault!coinVars, ChainTypeOK
<1>8. ASSUME NEW account, NEW value \in Nat,
             Vault!depositFor(caller, account, value), Emit(<<>>)
      PROVE  IndexInv'
  <2>1. wallets' \in [Accounts -> Nat]
    BY <1>2, <1>8, VaultMovesCoin DEF Vault!depositFor, ChainTypeOK
  <2>2. QED
    BY <1>6, <1>8, <2>1 DEF Vault!depositFor
<1>9. ASSUME NEW amount \in Nat, Vault!withdraw(caller, amount), Emit(<<>>)
      PROVE  IndexInv'
  <2>1. wallets' \in [Accounts -> Nat]
    BY <1>2, <1>9, VaultMovesCoin DEF Vault!withdraw, ChainTypeOK
  <2>2. QED
    BY <1>6, <1>9, <2>1 DEF Vault!withdraw
<1>10. ASSUME NEW id \in ReservationIds, NEW agent \in AgentIds,
              NEW amount \in Nat, NEW expiresAt \in Expiries,
              \/ Vault!reserveCredits(caller, id, agent, amount, expiresAt)
              \/ Vault!reserveCreditsWithDirectPayment(caller, id, agent,
                                                       amount, expiresAt),
              Emit(<<Reserved(id, caller, amount)>>)
       PROVE  IndexInv'
  <2> DEFINE e == Reserved(id, caller, amount)
  <2>1. e.type = "CreditsReserved" /\ e.id = id /\ e.requester = caller
        /\ e.amount = amount
    BY DEF Reserved
  <2>2. Emit(<<e>>)
    BY <1>10
  <2> HIDE DEF e
  <2>3. IsQueue(pending)' /\ CaughtUp' = Handled(CaughtUp, e)
    BY <1>2, <2>2, OneEmitted
  <2>4. /\ SameBut(CaughtUp, CaughtUp', {"reservations"})
        /\ CaughtUp'.reservations =
             Put(CaughtUp.reservations, id,
                 [requester |-> caller, amount |-> amount, consumed |-> 0,
                  refunded |-> 0, recycled |-> 0, status |-> "RESERVED"])
    BY <1>2, <2>1, <2>3, ReservationEvents
  <2>5. /\ Vault!IsFresh(id) /\ amount > 0 /\ UNCHANGED recyclablePool
        /\ reservations' = [reservations EXCEPT
               ![id] = Vault!NewReservation(caller, agent, amount, expiresAt)]
    BY <1>10 DEF Vault!reserveCredits, Vault!reserveCreditsWithDirectPayment
  <2>6. VaultOK' /\ ChainTypeOK'
    BY <1>2, <1>10, MakeTypes
  <2>7. ReservationsShown'
    BY <1>2, <2>4, <2>5, ReserveShown
  <2>8. QED
    BY <1>5, <2>3, <2>4, <2>6, <2>7
<1>11. ASSUME NEW id \in ReservationIds, NEW consumed \in Nat,
              Vault!settleReservation(caller, id, consumed),
              Emit(<<[type |-> "ReservationSettled", id |-> id,
                      consumed |-> consumed,
                      refunded |-> reservations[id].amount - consumed]>>)
       PROVE  IndexInv'
  <2> DEFINE refunded == reservations[id].amount - consumed
             e == [type |-> "ReservationSettled", id |-> id,
                   consumed |-> consumed, refunded |-> refunded]
             changes == [consumed |-> consumed, refunded |-> refunded,
                         status |-> "SETTLED"]
             new == [reservations[id] EXCEPT !.consumed = TRUE,
                                             !.consumedAmount = consumed]
  <2>1. e.type = "ReservationSettled" /\ e.id = id /\ e.consumed = consumed
        /\ e.refunded = refunded
    OBVIOUS
  <2>2. Emit(<<e>>)
    BY <1>11
  <2>3. /\ reservations[id] \in Vault!Reservation /\ recyclablePool \in Nat
        /\ reservations[id].amount \in Nat
    BY <1>2 DEF VaultOK, Vault!Reservation
  <2>4. /\ Vault!IsOpen(reservations[id]) /\ consumed <= reservations[id].amount
        /\ reservations' = [reservations EXCEPT ![id] = new]
        /\ recyclablePool' = recyclablePool
    BY <1>11 DEF Vault!settleReservation, Vault!SettleAllowed, Vault!IsWithin
  <2>5. refunded \in Nat /\ consumed + refunded + 0 = reservations[id].amount
        /\ recyclablePool' = recyclablePool + 0
    BY <2>3, <2>4
  <2>6. new.amount = reservations[id].amount /\ ~Vault!IsOpen(new)
    BY <2>3 DEF Vault!Reservation, Vault!IsOpen
  <2>7. /\ DOMAIN changes = {"consumed", "refunded", "status"}
        /\ changes.status = "SETTLED" /\ changes.consumed = consumed
        /\ changes.refunded = refunded
    OBVIOUS
  <2> HIDE DEF e, new, refunded
  <2>8. IsQueue(pending)' /\ CaughtUp' = Handled(CaughtUp, e)
    BY <1>2, <2>2, OneEmitted
  <2>9. /\ SameBut(CaughtUp, CaughtUp', {"reservations"})
        /\ CaughtUp'.reservations = Merge(CaughtUp.reservations, id, changes)
    BY <1>2, <2>1, <2>8, ReservationEvents
  <2>10. VaultOK' /\ ChainTypeOK'
    BY <1>2, <1>11, SettlementTypes
  <2> HIDE DEF changes
  <2>11. ReservationsShown'
    <3>1. /\ DOMAIN changes \subseteq {"consumed", "refunded", "recycled", "status"}
          /\ "status" \in DOMAIN changes /\ changes.status # "RESERVED"
          /\ consumed = IF "consumed" \in DOMAIN changes THEN changes.consumed ELSE 0
          /\ refunded = IF "refunded" \in DOMAIN changes THEN changes.refunded ELSE 0
          /\ 0 = IF "recycled" \in DOMAIN changes THEN changes.recycled ELSE 0
      BY <2>7
    <3>2. consumed \in Nat /\ refunded \in Nat /\ 0 \in Nat
      BY <2>5
    <3>3. QED
      BY <1>2, <2>4, <2>5, <2>6, <2>9, <3>1, <3>2, CloseReservationShown
  <2>12. QED
    BY <1>5, <2>8, <2>9, <2>10, <2>11
<1>12. ASSUME NEW id \in ReservationIds, Vault!releaseReservation(caller, id),
              Emit(<<[type |-> "ReservationReleased", id |-> id,
                      refunded |-> reservations[id].amount]>>)
       PROVE  IndexInv'
  <2> DEFINE refunded == reservations[id].amount
             e == [type |-> "ReservationReleased", id |-> id,
                   refunded |-> refunded]
             changes == [refunded |-> refunded, status |-> "RELEASED"]
             new == [reservations[id] EXCEPT !.released = TRUE]
  <2>1. e.type = "ReservationReleased" /\ e.id = id /\ e.refunded = refunded
    OBVIOUS
  <2>2. Emit(<<e>>)
    BY <1>12
  <2>3. /\ reservations[id] \in Vault!Reservation /\ recyclablePool \in Nat
        /\ refunded \in Nat
    BY <1>2 DEF VaultOK, Vault!Reservation
  <2>4. /\ Vault!IsOpen(reservations[id])
        /\ reservations' = [reservations EXCEPT ![id] = new]
        /\ recyclablePool' = recyclablePool
    BY <1>12 DEF Vault!releaseReservation, Vault!ReleaseAllowed
  <2>5. 0 + refunded + 0 = reservations[id].amount
        /\ recyclablePool' = recyclablePool + 0
    BY <2>3, <2>4
  <2>6. new.amount = reservations[id].amount /\ ~Vault!IsOpen(new)
    BY <2>3 DEF Vault!Reservation, Vault!IsOpen
  <2>7. /\ DOMAIN changes = {"refunded", "status"}
        /\ changes.status = "RELEASED" /\ changes.refunded = refunded
    OBVIOUS
  <2> HIDE DEF e, new, refunded
  <2>8. IsQueue(pending)' /\ CaughtUp' = Handled(CaughtUp, e)
    BY <1>2, <2>2, OneEmitted
  <2>9. /\ SameBut(CaughtUp, CaughtUp', {"reservations"})
        /\ CaughtUp'.reservations = Merge(CaughtUp.reservations, id, changes)
    BY <1>2, <2>1, <2>8, ReservationEvents
  <2>10. VaultOK' /\ ChainTypeOK'
    BY <1>2, <1>12, ReleaseTypes
  <2> HIDE DEF changes
  <2>11. ReservationsShown'
    <3>1. /\ DOMAIN changes \subseteq {"consumed", "refunded", "recycled", "status"}
          /\ "status" \in DOMAIN changes /\ changes.status # "RESERVED"
          /\ 0 = IF "consumed" \in DOMAIN changes THEN changes.consumed ELSE 0
          /\ refunded = IF "refunded" \in DOMAIN changes THEN changes.refunded ELSE 0
          /\ 0 = IF "recycled" \in DOMAIN changes THEN changes.recycled ELSE 0
      BY <2>7
    <3>2. 0 \in Nat /\ refunded \in Nat /\ 0 \in Nat
      BY <2>3
    <3>3. QED
      BY <1>2, <2>4, <2>5, <2>6, <2>9, <3>1, <3>2, CloseReservationShown
  <2>12. QED
    BY <1>5, <2>8, <2>9, <2>10, <2>11
<1>13. ASSUME NEW id \in ReservationIds, Vault!recycleReservation(caller, id),
              Emit(<<[type |-> "ReservationRecycled", id |-> id,
                      agentId |-> reservations[id].agentId,
                      recycled |-> reservations[id].amount,
                      block |-> blockTime]>>)
       PROVE  IndexInv'
  <2> DEFINE recycled == reservations[id].amount
             e == [type |-> "ReservationRecycled", id |-> id,
                   agentId |-> reservations[id].agentId,
                   recycled |-> recycled, block |-> blockTime]
             changes == [recycled |-> recycled, status |-> "RECYCLED"]
             new == [reservations[id] EXCEPT !.released = TRUE]
  <2>1. e.type = "ReservationRecycled" /\ e.id = id /\ e.recycled = recycled
    OBVIOUS
  <2>2. Emit(<<e>>)
    BY <1>13
  <2>3. /\ reservations[id] \in Vault!Reservation /\ recyclablePool \in Nat
        /\ recycled \in Nat
    BY <1>2 DEF VaultOK, Vault!Reservation
  <2>4. /\ Vault!IsOpen(reservations[id])
        /\ reservations' = [reservations EXCEPT ![id] = new]
        /\ recyclablePool' = recyclablePool + recycled
    BY <1>13 DEF Vault!recycleReservation
  <2>5. 0 + 0 + recycled = reservations[id].amount
    BY <2>3, <2>4
  <2>6. new.amount = reservations[id].amount /\ ~Vault!IsOpen(new)
    BY <2>3 DEF Vault!Reservation, Vault!IsOpen
  <2>7. /\ DOMAIN changes = {"recycled", "status"}
        /\ changes.status = "RECYCLED" /\ changes.recycled = recycled
    OBVIOUS
  <2> HIDE DEF e, new, recycled
  <2>8. IsQueue(pending)' /\ CaughtUp' = Handled(CaughtUp, e)
    BY <1>2, <2>2, OneEmitted
  <2>9. /\ SameBut(CaughtUp, CaughtUp', {"reservations", "recoveries"})
        /\ CaughtUp'.reservations = Merge(CaughtUp.reservations, id, changes)
        /\ CaughtUp.recoveries \subseteq CaughtUp'.recoveries
    BY <1>2, <2>1, <2>8, ReservationEvents
  <2>10. VaultOK' /\ ChainTypeOK'
    BY <1>2, <1>13, ReleaseTypes
  <2> HIDE DEF changes
  <2>11. ReservationsShown'
    BY <1>2, <2>3, <2>4, <2>5, <2>6, <2>7, <2>9, CloseReservationShown
  <2>12. QED
    BY <1>4, <2>8, <2>9, <2>10, <2>11
<1>14. Amounts \subseteq Nat
    BY ChainAssumption
<1>15. QED
    BY <1>7, <1>8, <1>9, <1>10, <1>11, <1>12, <1>13, <1>14 DEF VaultTransaction

-----------------------------------------------------------------------------
(* The invariant                                                           *)

LEMMA IndexStarts == IndexedInit => IndexInv
<1> SUFFICES ASSUME IndexedInit PROVE IndexInv
    OBVIOUS
<1>1. TradeInit /\ RegistryInit /\ Vault!Init /\ IndexInit
    BY DEF IndexedInit
<1>2. ContractsOK
  <2>1. TradeInv
    BY <1>1, TradeInvInit
  <2>2. RegistryInv
    BY <1>1, RegistryAssumption
       DEF RegistryInit, RegistryInv, RegistryTypeOK, OneWalletOneAgent,
           IsRegistered, NoIdentity, Ids
  <2>3. Vault!Unwritten \in Vault!Reservation
    BY DEF Vault!Unwritten, Vault!Reservation
  <2>4. VaultOK
    BY <1>1, <2>3 DEF Vault!Init, VaultOK
  <2>5. QED
    BY <2>1, <2>2, <2>4 DEF TradeInv, TradeTypeOK, ContractsOK, ObjectsOK,
       EscrowsOK
<1>3. pending \in Seq({}) /\ Len(pending) = 0 /\ entities = NoEntities
    BY <1>1 DEF IndexInit
<1>4. CaughtUp = NoEntities
  <2> DEFINE path == [k \in {0} |-> entities]
  <2>1. IsPath(path, entities, pending) /\ path[0] = entities
    BY <1>3 DEF IsPath
  <2> HIDE DEF path
  <2>2. Caught(entities, pending) = path[Len(pending)]
    BY <1>3, <2>1, PathEnds
  <2>3. QED
    BY <1>3, <2>1, <2>2, CaughtUpIsCaught
<1>5. /\ DOMAIN CaughtUp.agents = {} /\ DOMAIN CaughtUp.objects = {}
      /\ DOMAIN CaughtUp.escrows = {} /\ DOMAIN CaughtUp.listings = {}
      /\ DOMAIN CaughtUp.reservations = {}
  <2>1. DOMAIN Nothing = {}
    BY DEF Nothing
  <2>2. QED
    BY <1>4, <2>1 DEF NoEntities
<1>6. AreEntities(CaughtUp)
    BY <1>4 DEF AreEntities, NoEntities, Tables
<1>7. ObjectsShown
    BY <1>1, <1>5 DEF TradeInit, ObjectInit, NoObject, ObjectsShown, ObjectExists,
       OwnerOf, RecoveryShown
<1>8. EscrowsShown
    BY <1>1, <1>5 DEF TradeInit, EscrowInit, NoEscrow, EscrowsShown, EscrowExists
<1>9. ListingsShown
    BY <1>1, <1>5 DEF TradeInit, MarketInit, NoListing, ListingsShown, IsListed,
       ListingOK
<1>10. AgentsShown
    BY <1>1, <1>5 DEF RegistryInit, NoIdentity, AgentsShown, IsRegistered
<1>11. ReservationsShown
  <2>1. \A id \in ReservationIds : reservations[id].amount = 0
    BY <1>1 DEF Vault!Init, Vault!Unwritten
  <2>2. Recycled \in [ReservationIds -> Nat]
        /\ \A id \in ReservationIds : Recycled[id] = 0
    BY <1>5 DEF Recycled
  <2>3. recyclablePool = 0
    BY <1>1 DEF Vault!Init
  <2> DEFINE f == Recycled
  <2>4. f \in [ReservationIds -> Nat] /\ \A id \in ReservationIds : f[id] = 0
    BY <2>2
  <2> HIDE DEF f
  <2>5. Total(f) = 0
    BY <2>4, TotalZero
  <2>6. Total(Recycled) = 0
    BY <2>5 DEF f
  <2>7. QED
    BY <1>5, <2>1, <2>3, <2>6 DEF ReservationsShown
<1>12. IsQueue(pending)
    BY <1>3 DEF IsQueue
<1>13. QED
    BY <1>2, <1>6, <1>7, <1>8, <1>9, <1>10, <1>11, <1>12 DEF IndexInv

LEMMA QuietStep ==
    ASSUME IndexInv, CaughtUp' = CaughtUp, IsQueue(pending)',
           UNCHANGED <<wallets, objectVars, marketVars, escrowVars, registryVars,
                       vaultVars>>,
           blockTime' \in Nat
    PROVE  IndexInv'
<1>1. ContractsOK'
  <2>1. ChainTypeOK' /\ MarketTypeOK' /\ MarketKeepsNothing' /\ VaultOK'
    BY DEF IndexInv, ContractsOK, ChainTypeOK, MarketTypeOK, MarketKeepsNothing,
       VaultOK, marketVars, vaultVars
  <2>2. ObjectsOK'
    BY DEF objectVars, ObjectsOK, ObjectTypeOK, ApprovedExist,
       ApprovalIsCurrent, OwnerOf, IndexInv, ContractsOK
  <2>3. RegistryInv'
    BY DEF IndexInv, ContractsOK, RegistryInv, RegistryTypeOK,
       OneWalletOneAgent, IsRegistered, registryVars
  <2>4. EscrowsOK'
    BY DEF IndexInv, ContractsOK, EscrowsOK, EscrowTypeOK, EscrowInv,
       EscrowSolvent, Locked, escrowVars
  <2>5. QED
    BY <2>1, <2>2, <2>3, <2>4 DEF ContractsOK
<1>2. UNCHANGED <<objects, listings, escrows, identities, reservations,
                  recyclablePool>>
    BY DEF objectVars, marketVars, escrowVars, registryVars, vaultVars
<1>3. /\ ObjectsShown' /\ EscrowsShown' /\ ListingsShown' /\ AgentsShown'
      /\ ReservationsShown'
    BY <1>2, ObjectsStay, EscrowsStay, ListingsStay, AgentsStay,
       ReservationsStay DEF IndexInv
<1>4. AreEntities(CaughtUp)'
    BY DEF IndexInv, AreEntities
<1>5. QED
    BY <1>1, <1>3, <1>4 DEF IndexInv

LEMMA IndexStep == IndexInv /\ [IndexedNext]_allVars => IndexInv'
<1> SUFFICES ASSUME IndexInv, [IndexedNext]_allVars PROVE IndexInv'
    OBVIOUS
<1>1. IsQueue(pending) /\ blockTime \in Nat
    BY DEF IndexInv, ContractsOK, ChainTypeOK
<1>2. CASE UNCHANGED allVars
  <2>1. UNCHANGED <<pending, entities, blockTime>>
    BY <1>2 DEF allVars, chainVars, tradeVars, indexVars
  <2>2. CaughtUp' = CaughtUp
    BY <2>1 DEF CaughtUp
  <2>3. IsQueue(pending)'
    BY <1>1, <2>1
  <2>4. UNCHANGED <<wallets, objectVars, marketVars, escrowVars, registryVars,
                    vaultVars>>
    BY <1>2 DEF allVars, chainVars, tradeVars
  <2>5. QED
    BY <1>1, <2>1, <2>2, <2>3, <2>4, QuietStep
<1>3. ASSUME NEW caller \in Accounts, Transacted(caller) PROVE IndexInv'
    BY <1>3, ObjectStep, MarketStep, EscrowStep, RegistryTransactionStep,
       VaultStep DEF Transacted
<1>4. CASE /\ Advance
           /\ UNCHANGED <<objectVars, marketVars, escrowVars, registryVars,
                          vaultVars, indexVars, scope>>
  <2>1. UNCHANGED <<pending, entities, wallets>> /\ blockTime' \in Nat
    BY <1>1, <1>4 DEF Advance, indexVars
  <2>2. CaughtUp' = CaughtUp
    BY <2>1 DEF CaughtUp
  <2>3. IsQueue(pending)'
    BY <1>1, <2>1
  <2>4. QED
    BY <1>4, <2>1, <2>2, <2>3, QuietStep
<1>5. CASE Handle /\ UNCHANGED <<chainVars, scope>>
  <2>1. UNCHANGED <<wallets, objectVars, marketVars, escrowVars, registryVars,
                    vaultVars>> /\ blockTime' \in Nat
    BY <1>1, <1>5 DEF chainVars, tradeVars
  <2>2. QED
    BY <1>1, <1>5, <2>1, HandleKeeps, QuietStep
<1>6. QED
    BY <1>2, <1>3, <1>4, <1>5 DEF IndexedNext

LEMMA IndexInvariant == IndexedSpec => []IndexInv
BY IndexStarts, IndexStep, PTL DEF IndexedSpec

\* However far the handlers are behind, the events that wait lead to the
\* tables of what the contracts hold now (EventHandlers.ts).
THEOREM IndexFollows == IndexedSpec => []IndexFollowsChain
<1>1. ASSUME IndexInv PROVE IndexFollowsChain
  <2>1. Shows(CaughtUp.objects, ObjectExists, ObjectRow, Objects)
    BY <1>1 DEF IndexInv, ObjectsShown, ObjectRowOK, Shows, ObjectRow
  <2>2. Shows(CaughtUp.escrows, EscrowExists, EscrowRow, Escrows)
    BY <1>1 DEF IndexInv, EscrowsShown, EscrowRowOK, EscrowFields, Shows,
       EscrowRow
  <2>3. Shows(CaughtUp.listings, IsListed, ListingRow, Listings)
    <3>1. \A l \in Listings : DOMAIN listings[l] = ListingFields
      BY <1>1 DEF IndexInv, ContractsOK, MarketTypeOK, Listing, ListingFields
    <3>2. QED
      BY <1>1, <3>1 DEF IndexInv, ListingsShown, ListingRowOK, Shows, ListingRow
  <2>4. Shows(CaughtUp.agents, IsRegistered, AgentRow, Ids)
    BY <1>1 DEF IndexInv, AgentsShown, AgentRowOK, Shows, AgentRow
  <2>5. QED
    BY <1>1, <2>1, <2>2, <2>3, <2>4
       DEF IndexInv, ObjectsShown, RecoveryShown, IndexFollowsChain
<1>2. QED
    BY <1>1, IndexInvariant, PTL

-----------------------------------------------------------------------------
(* What the tables add up to                                               *)

\* There is a coarsest spacing of the numbers.
LEMMA CoarsestType ==
    /\ CoarsestMon \in MonSpacings /\ CoarsestMon \in Nat \ {0}
    /\ \A u \in MonSpacings : u <= CoarsestMon
<1>1. PICK u \in MonSpacings : \A v \in MonSpacings : v <= u
    BY IndexAssumption
<1>2. CoarsestMon \in MonSpacings /\ \A v \in MonSpacings : v <= CoarsestMon
    BY <1>1 DEF CoarsestMon
<1>3. QED
    BY <1>2, IndexAssumption

\* Converting an amount and adding it rounds by a spacing at the most.
LEMMA AdditionIsClose ==
    ASSUME NEW n \in Nat, NEW sum \in Nat
    PROVE  /\ AddedTo(sum, formatWeiToMon(n)) \in Nat
           /\ AddedTo(sum, formatWeiToMon(n)) <= n + sum + CoarsestMon
           /\ n + sum <= AddedTo(sum, formatWeiToMon(n)) + CoarsestMon
<1> DEFINE Near(m) == NearestNumber(m, FineWei, MonSpacings)
           number == Near(n)
           both == Near(number + sum)
<1>1. ASSUME NEW m \in Nat
      PROVE  /\ Near(m) \in Nat
             /\ 2 * (Near(m) - m) <= CoarsestMon
             /\ 2 * (m - Near(m)) <= CoarsestMon
  <2> DEFINE u == SpacingOf(m, FineWei, MonSpacings)
             near == Near(m)
  <2>1. /\ FineWei \in Nat \ {0}
        /\ MonSpacings \in SUBSET (Nat \ {0}) /\ 1 \in MonSpacings
    BY IndexAssumption
  <2>2. u \in MonSpacings
    BY <2>1, SpacingType
  <2>3. near \in Nat /\ -u <= 2 * (near - m) /\ 2 * (near - m) <= u
    BY <2>1, NumberIsClose
  <2> HIDE DEF u, near
  <2>4. u \in Nat /\ u <= CoarsestMon /\ CoarsestMon \in Nat
    BY <2>1, <2>2, CoarsestType
  <2>5. near \in Nat /\ 2 * (near - m) <= CoarsestMon
        /\ 2 * (m - near) <= CoarsestMon
    BY <2>3, <2>4
  <2>6. QED
    BY <2>5 DEF near
<1>2. /\ number \in Nat
      /\ 2 * (number - n) <= CoarsestMon /\ 2 * (n - number) <= CoarsestMon
    BY <1>1
<1> HIDE DEF Near, number
<1>3. /\ both \in Nat
      /\ 2 * (both - (number + sum)) <= CoarsestMon
      /\ 2 * ((number + sum) - both) <= CoarsestMon
    BY <1>1, <1>2
<1> HIDE DEF both
<1>4. both \in Nat /\ both <= n + sum + CoarsestMon
      /\ n + sum <= both + CoarsestMon
    BY <1>2, <1>3, CoarsestType
<1>5. both = AddedTo(sum, formatWeiToMon(n))
    BY DEF both, number, Near, AddedTo, formatWeiToMon
<1>6. QED
    BY <1>4, <1>5

\* The fold that adds the amounts of the rows of S up as numbers, and their
\* total are no more than a spacing for each row apart.
ShownSum(S, rows) ==
    (CHOOSE iter : iter = [s \in SUBSET S |->
        IF s = {} THEN 0
        ELSE AddedTo(iter[s \ {CHOOSE x \in s : TRUE}],
                     formatWeiToMon(rows[CHOOSE x \in s : TRUE].amount))])[S]

LEMMA AmountsAddUp ==
    ASSUME NEW S, IsFiniteSet(S), NEW rows,
           \A x \in S : rows[x].amount \in Nat
    PROVE  LET total == Total([x \in S |-> rows[x].amount])
               rounding == CoarsestMon * Cardinality(S)
           IN  /\ ShownSum(S, rows) \in Nat
               /\ ShownSum(S, rows) <= total + rounding
               /\ total <= ShownSum(S, rows) + rounding
<1> DEFINE f == [x \in S |-> rows[x].amount]
           first(s) == CHOOSE x \in s : TRUE
           add == [p \in S \X Nat |-> AddedTo(p[2], formatWeiToMon(rows[p[1]].amount))]
           Adds(iter) == iter = [s \in SUBSET S |->
              IF s = {} THEN 0
              ELSE AddedTo(iter[s \ {first(s)}],
                           formatWeiToMon(rows[first(s)].amount))]
           shown == CHOOSE iter : Adds(iter)
<1>1. f \in [S -> Nat]
    OBVIOUS
<1>2. ASSUME NEW x \in S, NEW y \in Nat
      PROVE  /\ add[<<x, y>>] = AddedTo(y, formatWeiToMon(rows[x].amount))
             /\ add[<<x, y>>] \in Nat
             /\ add[<<x, y>>] <= f[x] + y + CoarsestMon
             /\ f[x] + y <= add[<<x, y>>] + CoarsestMon
  <2>1. <<x, y>> \in S \X Nat /\ <<x, y>>[1] = x /\ <<x, y>>[2] = y
    OBVIOUS
  <2>2. add[<<x, y>>] = AddedTo(y, formatWeiToMon(rows[x].amount))
    BY <2>1
  <2> HIDE DEF add
  <2>3. QED
    BY <2>2, AdditionIsClose
<1>3. add \in [S \X Nat -> Nat]
  <2>1. \A p \in S \X Nat :
           AddedTo(p[2], formatWeiToMon(rows[p[1]].amount)) \in Nat
    BY AdditionIsClose
  <2>2. QED
    BY <2>1
<1> HIDE DEF add
<1>4. \E iter : Adds(iter)
  <2>1. PICK iter \in [SUBSET S -> Nat] : IsFold(iter, S, add)
    BY <1>3, FoldExists
  <2>2. ASSUME NEW s \in SUBSET S
        PROVE  iter[s] = IF s = {} THEN 0
                         ELSE AddedTo(iter[s \ {first(s)}],
                                      formatWeiToMon(rows[first(s)].amount))
    <3>1. iter[s] = IF s = {} THEN 0 ELSE add[<<first(s), iter[s \ {first(s)}]>>]
      BY <2>1 DEF IsFold
    <3>2. s # {} => first(s) \in S
      OBVIOUS
    <3>3. iter[s \ {first(s)}] \in Nat
      OBVIOUS
    <3> HIDE DEF first
    <3>4. QED
      BY <1>2, <3>1, <3>2, <3>3
  <2>3. iter = [s \in SUBSET S |-> iter[s]]
    BY <2>1
  <2>4. Adds(iter)
    BY <2>2, <2>3
  <2>5. QED
    BY <2>4
<1>5. Adds(shown)
    BY <1>4
<1>6. shown[{}] = 0
    BY <1>5
<1>7. ASSUME NEW s \in SUBSET S, s # {}, shown[s \ {first(s)}] \in Nat
      PROVE  shown[s] = add[<<first(s), shown[s \ {first(s)}]>>]
  <2>1. shown[s] = AddedTo(shown[s \ {first(s)}],
                           formatWeiToMon(rows[first(s)].amount))
    BY <1>5, <1>7
  <2>2. first(s) \in S
    BY <1>7
  <2> HIDE DEF shown, first
  <2>3. QED
    BY <1>2, <1>7, <2>1, <2>2
<1>8. shown[S] = ShownSum(S, rows)
    BY DEF ShownSum
<1> HIDE DEF shown, f
<1>9. AddsUp(shown, S, add)
    BY <1>6, <1>7 DEF AddsUp
<1>10. AddsClosely(add, S, f, CoarsestMon)
    BY <1>2 DEF AddsClosely
<1>11. CoarsestMon \in Nat
    BY CoarsestType
<1>12. IsNear(shown[S], Total(f), CoarsestMon * Cardinality(S))
    BY <1>1, <1>3, <1>9, <1>10, <1>11, FoldDrifts
<1>13. QED
    BY <1>8, <1>12 DEF f, IsNear

\* The same of what was recycled, which is added up exactly.
LEMMA RecycledAddsUp ==
    ASSUME NEW S, IsFiniteSet(S), NEW rows,
           \A x \in S : rows[x].recycled \in Nat
    PROVE  (CHOOSE iter : iter = [s \in SUBSET S |->
              IF s = {} THEN 0
              ELSE rows[CHOOSE x \in s : TRUE].recycled
                   + iter[s \ {CHOOSE x \in s : TRUE}]])[S]
           = Total([x \in S |-> rows[x].recycled])
<1> DEFINE f == [x \in S |-> rows[x].recycled]
           first(s) == CHOOSE x \in s : TRUE
           Adds(iter) == iter = [s \in SUBSET S |->
              IF s = {} THEN 0
              ELSE rows[CHOOSE x \in s : TRUE].recycled
                   + iter[s \ {CHOOSE x \in s : TRUE}]]
<1>1. f \in [S -> Nat]
    OBVIOUS
<1>2. ASSUME NEW iter PROVE Adds(iter) <=> IsSum(iter, S, f)
  <2>1. \A s \in SUBSET S : s # {} => first(s) \in S
    OBVIOUS
  <2>2. \A s \in SUBSET S : s # {} => f[first(s)] = rows[first(s)].recycled
    BY <2>1
  <2>3. [s \in SUBSET S |-> IF s = {} THEN 0
              ELSE rows[first(s)].recycled + iter[s \ {first(s)}]]
        = [s \in SUBSET S |-> IF s = {} THEN 0
              ELSE f[first(s)] + iter[s \ {first(s)}]]
    BY <2>2
  <2>4. QED
    BY <2>3 DEF IsSum
<1>3. \E iter : Adds(iter)
    BY <1>1, <1>2, SumsAreSums
<1>4. Adds(CHOOSE iter : Adds(iter))
    BY <1>3
<1>5. (CHOOSE iter : Adds(iter))[S] = Total(f)
    BY <1>1, <1>2, <1>4, SumIsTotal
<1>6. QED
    BY <1>5

\* What the shown rows of the escrow table say is locked.
LEMMA LockedIsShown ==
    ASSUME IndexInv, NEW rows \in GET_ESCROW_ACTIVITY(CaughtUp)
    PROVE  LockedIsThere(rows)
<1> DEFINE table == CaughtUp.escrows
           S == {e \in rows : table[e].status \in {"LOCKED", "DELIVERED"}}
           shown == getEscrowActivity(CaughtUp, rows).totalLockedMon
           part == [e \in Escrows |-> IF e \in S THEN Locked[e] ELSE 0]
<1>1. /\ EscrowTypeOK /\ EscrowInv /\ EscrowSolvent /\ EscrowsShown
    BY DEF IndexInv, ContractsOK, EscrowsOK
<1>2. ASSUME NEW e \in DOMAIN table
      PROVE  /\ e \in Escrows /\ table[e].status = escrows[e].status
             /\ table[e].amount = escrows[e].amount
    BY <1>1 DEF EscrowsShown, EscrowRowOK, EscrowFields
<1>3. \A e \in Escrows : escrows[e].amount \in Nat
    BY <1>1 DEF EscrowTypeOK, EscrowRecord
<1>4. Locked \in [Escrows -> Nat]
    BY <1>3 DEF Locked
<1>5. rows \in SUBSET DOMAIN table
    BY DEF GET_ESCROW_ACTIVITY
<1>6. S \in SUBSET Escrows /\ \A e \in S : table[e].amount = Locked[e]
    BY <1>2, <1>5 DEF Locked
<1>7. /\ IsFiniteSet(S) /\ IsFiniteSet(rows)
      /\ Cardinality(S) \in Nat /\ Cardinality(rows) \in Nat
      /\ Cardinality(S) <= Cardinality(rows)
  <2>1. rows \in SUBSET Escrows /\ IsFiniteSet(Escrows)
    BY <1>2, <1>5, EscrowAssumption
  <2>2. IsFiniteSet(rows)
    BY <2>1, FS_Subset
  <2>3. QED
    BY <2>2, FS_Subset, FS_CardinalityType
<1>8. \A e \in S : table[e].amount \in Nat
    BY <1>4, <1>6
<1>9. /\ shown \in Nat
      /\ shown <= Total([e \in S |-> table[e].amount])
                     + CoarsestMon * Cardinality(S)
      /\ Total([e \in S |-> table[e].amount])
            <= shown + CoarsestMon * Cardinality(S)
  <2>1. shown = AmountWith(table, rows, {"LOCKED", "DELIVERED"})
    BY DEF getEscrowActivity
  <2>2. AmountWith(table, rows, {"LOCKED", "DELIVERED"}) = ShownSum(S, table)
    BY DEF AmountWith, MapThenFoldSet, ShownSum
  <2> HIDE DEF S, table, shown
  <2>3. QED
    BY <1>7, <1>8, <2>1, <2>2, AmountsAddUp
<1>10. [e \in S |-> table[e].amount] = [e \in S |-> Locked[e]]
    BY <1>6
<1>11. escrowEther = Total(Locked)
    BY <1>1 DEF EscrowSolvent
<1>12. Total([e \in S |-> Locked[e]]) = Total(part)
  <2>1. part \in [Escrows -> Nat] /\ \A e \in Escrows \ S : part[e] = 0
    BY <1>4
  <2>2. [e \in S |-> part[e]] = [e \in S |-> Locked[e]]
    BY <1>6
  <2> HIDE DEF part, S
  <2>3. QED
    BY <1>6, <2>1, <2>2, TotalRestricted
<1>13. Total(part) \in Nat /\ Total(Locked) \in Nat /\ Total(part) <= Total(Locked)
  <2>1. part \in [Escrows -> Nat] /\ \A e \in Escrows : part[e] <= Locked[e]
    BY <1>4
  <2> HIDE DEF part
  <2>2. QED
    BY <1>4, <2>1, EscrowAssumption, TotalIsNat, TotalBelow
<1>14. ASSUME rows = DOMAIN table PROVE part = Locked
  <2>1. \A e \in Escrows \ S : Locked[e] = 0
    <3>1. TAKE e \in Escrows \ S
    <3>2. CASE e \in DOMAIN table
      BY <1>1, <1>2, <1>14, <3>2 DEF EscrowInv, IsSound, Locked
    <3>3. CASE e \notin DOMAIN table
      BY <1>1, <1>3, <3>3 DEF EscrowsShown, EscrowExists, Locked
    <3>4. QED
      BY <3>2, <3>3
  <2>2. \A e \in Escrows : part[e] = Locked[e]
    BY <2>1
  <2> HIDE DEF S
  <2>3. QED
    BY <1>4, <2>2
<1>15. /\ CoarsestMon * Cardinality(S) \in Nat
       /\ CoarsestMon * Cardinality(rows) \in Nat
       /\ CoarsestMon * Cardinality(S) <= CoarsestMon * Cardinality(rows)
  <2>1. \A c, m, n \in Nat : m <= n => c * m \in Nat /\ c * n \in Nat /\ c * m <= c * n
    OBVIOUS
  <2> HIDE DEF S
  <2>2. QED
    BY <1>7, <2>1, CoarsestType
<1> HIDE DEF S, part, shown, table
<1>16. /\ shown <= escrowEther + CoarsestMon * Cardinality(rows)
       /\ rows = DOMAIN table => escrowEther <= shown + CoarsestMon * Cardinality(rows)
    BY <1>9, <1>10, <1>11, <1>12, <1>13, <1>14, <1>15
<1>17. QED
    BY <1>16 DEF LockedIsThere, shown, table

LEMMA PoolIsShown ==
    ASSUME IndexInv
    PROVE  MapThenSumSet(RecycledOf, DOMAIN CaughtUp.reservations)
              = recyclablePool
<1> DEFINE table == CaughtUp.reservations
           S == DOMAIN table
           f == Recycled
<1>1. ReservationsShown
    BY DEF IndexInv
<1>2. f \in [ReservationIds -> Nat]
    BY <1>1, RecycledType
<1>3. S \in SUBSET ReservationIds /\ \A id \in S : table[id].recycled \in Nat
    BY <1>1 DEF ReservationsShown, RowAccounted
<1>4. /\ \A id \in S : table[id].recycled = f[id]
      /\ \A id \in ReservationIds \ S : f[id] = 0
    BY <1>3 DEF Recycled
<1>5. IsFiniteSet(S)
    BY <1>3, IndexAssumption, FS_Subset
<1>6. MapThenSumSet(RecycledOf, S) = Total([id \in S |-> table[id].recycled])
  <2> HIDE DEF S, table
  <2>1. (CHOOSE iter : iter = [s \in SUBSET S |->
              IF s = {} THEN 0
              ELSE table[CHOOSE x \in s : TRUE].recycled
                   + iter[s \ {CHOOSE x \in s : TRUE}]])[S]
           = Total([x \in S |-> table[x].recycled])
    BY <1>3, <1>5, RecycledAddsUp
  <2>2. QED
    BY <2>1 DEF RecycledOf, MapThenSumSet, MapThenFoldSet, table
<1>7. [id \in S |-> table[id].recycled] = [id \in S |-> f[id]]
    BY <1>4
<1>8. recyclablePool = Total(f)
    BY <1>1 DEF ReservationsShown
<1> HIDE DEF f, table
<1>9. Total([id \in S |-> f[id]]) = Total(f)
    BY <1>2, <1>3, <1>4, TotalRestricted
<1>10. QED
    BY <1>6, <1>7, <1>8, <1>9 DEF table

\* The sums of the console are of coin that is there: what it shows as locked
\* is the escrow's balance, as far as the query's limit and the rounding of
\* numbers let it, and what a closed reservation came to and the pool are exact
\* (client.ts:257-298).
THEOREM IndexSums == IndexedSpec => []IndexAddsUp
<1>1. ASSUME IndexInv PROVE IndexAddsUp
  <2>1. \A id \in DOMAIN CaughtUp.reservations : ReservationAccounted(id)
    BY <1>1 DEF IndexInv, ReservationsShown, RowAccounted
  <2>2. QED
    BY <1>1, <2>1, LockedIsShown, PoolIsShown DEF IndexAddsUp
<1>2. QED
    BY <1>1, IndexInvariant, PTL

\* Beside the other contracts and the index, too, the registry's two mappings
\* are each other's inverse (ECONIdentityRegistry.sol, registerAgent).
THEOREM WalletsAndAgentsStayMatched == IndexedSpec => []OneWalletOneAgent
BY IndexInvariant, PTL DEF IndexInv, ContractsOK, RegistryInv

=============================================================================
