---------------------------- MODULE ECONEscrow -----------------------------
(***************************************************************************)
(* contracts/ECONEscrow.sol: a buyer locks coin for a seller; after the    *)
(* seller submits its delivery the coin can be released to the seller,     *)
(* together with an object that moves the other way if one is linked; until*)
(* then it can be refunded.                                                *)
(*                                                                         *)
(* The condition and the delivery proof are stored or logged, never read.  *)
(***************************************************************************)
EXTENDS ECONEconomicObject

CONSTANTS
    Escrow,      \* the address of this contract
    Registry,    \* the address of the object contract
    Escrows,     \* escrow ids
    NoLink,      \* linkedObjectId 0: nothing is linked
    Deadlines,   \* the deadlines of calls
    LinkedAtDeployment   \* the constructor got the object contract's address

ASSUME EscrowAssumption ==
    /\ Escrow \in Contracts
    /\ Registry \notin Accounts \cup {NoAddress}
    /\ IsFiniteSet(Escrows) /\ NoLink \notin Objects
    /\ Deadlines \subseteq Nat
    /\ LinkedAtDeployment \in BOOLEAN

VARIABLES
    escrows,                \* escrow id -> the EscrowRecord struct
    economicObjectContract, \* the object contract, or NoAddress
    escrowEther             \* address(this).balance

escrowVars == <<escrows, economicObjectContract, escrowEther>>

EscrowStatus ==
    {"LOCKED", "DELIVERED", "VERIFIED", "RELEASED", "EXPIRED", "REFUNDED"}

EscrowRecord ==
    [buyer : Accounts \cup {NoAddress}, seller : Addresses \cup {NoAddress},
     amount : Nat, deadline : Nat, status : EscrowStatus,
     linkedObjectId : Objects \cup {NoLink}]

\* Never written: every field zero, and 0 is LOCKED.
NoEscrow == [buyer |-> NoAddress, seller |-> NoAddress, amount |-> 0,
             deadline |-> 0, status |-> "LOCKED", linkedObjectId |-> NoLink]

EscrowInit ==
    /\ escrows = [e \in Escrows |-> NoEscrow]
    /\ economicObjectContract = IF LinkedAtDeployment THEN Registry ELSE NoAddress
    /\ escrowEther = 0

EscrowTypeOK ==
    /\ escrows \in [Escrows -> EscrowRecord]
    /\ economicObjectContract \in {Registry, NoAddress}
    /\ escrowEther \in Nat

-----------------------------------------------------------------------------

\* An object contract other than the registry is not modelled.
setEconomicObjectContract(caller) ==
    /\ caller = Owner
    /\ economicObjectContract' = Registry
    /\ UNCHANGED <<escrows, escrowEther>>

\* An id is taken for ever: its amount is never cleared.
IsUnused(e) == escrows[e].amount = 0

\* lockEscrow, with nothing linked, and lockObjectEscrow.
lockEscrow(caller, e, seller, deadline, linked, value) ==
    /\ value > 0
    /\ seller # NoAddress
    /\ IsUnused(e)
    /\ deadline > blockTime
    /\ CanAfford(caller, value)
    /\ wallets' = Charged(wallets, caller, value)
    /\ escrowEther' = escrowEther + value
    /\ escrows' = [escrows EXCEPT
           ![e] = [buyer |-> caller, seller |-> seller, amount |-> value,
                   deadline |-> deadline, status |-> "LOCKED",
                   linkedObjectId |-> linked]]
    /\ UNCHANGED economicObjectContract

IsLocked(e) == escrows[e].status = "LOCKED"

submitDelivery(caller, e) ==
    /\ caller = escrows[e].seller
    /\ IsLocked(e)
    /\ escrows' = [escrows EXCEPT ![e].status = "DELIVERED"]
    /\ UNCHANGED <<economicObjectContract, escrowEther>>

\* payable(to).call{value: escrow.amount}(""): address(0) takes anything, and
\* is paid the nothing of an escrow that was never locked.
PayOutUnrecorded(e, to) ==
    /\ \/ Accepts(to) /\ wallets' = Paid(wallets, to, escrows[e].amount)
       \/ to = NoAddress /\ UNCHANGED wallets
    /\ UNCHANGED escrowEther
PayOut(e, to) ==
    /\ \/ Accepts(to) /\ wallets' = Paid(wallets, to, escrows[e].amount)
       \/ to = NoAddress /\ UNCHANGED wallets
    /\ escrowEther' = escrowEther - escrows[e].amount

IsNotClosed(e) == escrows[e].status \notin {"RELEASED", "REFUNDED"}
IsDelivered(e) == escrows[e].status \in {"DELIVERED", "VERIFIED"}

MovesObject(escrow) ==
    escrow.linkedObjectId # NoLink /\ economicObjectContract # NoAddress

verifyAndRelease(caller, e) ==
    LET escrow == escrows[e]
    IN  /\ caller \in {escrow.buyer, escrow.seller, Owner}
        /\ IsDelivered(e)
        /\ escrows' = [escrows EXCEPT ![e].status = "RELEASED"]
        /\ IF MovesObject(escrow)
           THEN transferFrom(Escrow, escrow.seller, escrow.buyer,
                             escrow.linkedObjectId)
           ELSE UNCHANGED objectVars
        /\ PayOut(e, escrow.seller)
        /\ UNCHANGED economicObjectContract

\* True also of an escrow that was never locked: it is then marked refunded,
\* and can still be locked.
RefundAllowed(caller, e) ==
    /\ \/ caller \in {escrows[e].buyer, Owner}
       \/ blockTime > escrows[e].deadline
    /\ IsLocked(e)

refund(caller, e) ==
    LET escrow == escrows[e]
    IN  /\ RefundAllowed(caller, e)
        /\ escrows' = [escrows EXCEPT ![e].status = "REFUNDED"]
        /\ PayOut(e, escrow.buyer)
        /\ UNCHANGED economicObjectContract

\* Every transaction an account can send to the escrow.
EscrowCall(caller) ==
    \/ /\ setEconomicObjectContract(caller)
       /\ UNCHANGED <<wallets, objectVars>>
    \/ \E e \in Escrows :
          \/ /\ \/ \E seller \in Addresses \cup {NoAddress},
                      deadline \in Deadlines, linked \in Objects \cup {NoLink},
                      value \in Amounts :
                      lockEscrow(caller, e, seller, deadline, linked, value)
                \/ submitDelivery(caller, e) /\ UNCHANGED wallets
                \/ refund(caller, e)
             /\ UNCHANGED objectVars
          \/ verifyAndRelease(caller, e)

\* The escrow and the registry whose objects it moves.
EscrowNext ==
    \/ \E caller \in Accounts :
          /\ \/ ObjectCall(caller) /\ UNCHANGED <<wallets, escrowVars>>
             \/ EscrowCall(caller)
          /\ UNCHANGED blockTime
    \/ Advance /\ UNCHANGED <<objectVars, escrowVars>>

EscrowSystemInit == ChainInit /\ ObjectInit /\ EscrowInit

EscrowSpec ==
    /\ EscrowSystemInit
    /\ [][EscrowNext]_<<wallets, blockTime, objectVars, escrowVars>>

-----------------------------------------------------------------------------
(* Properties                                                              *)

\* Wei an escrow still holds.
Locked == [e \in Escrows |->
              IF escrows[e].status \in {"LOCKED", "DELIVERED", "VERIFIED"}
              THEN escrows[e].amount ELSE 0]

\* The contract's coin is exactly what its open escrows hold: every payment
\* and every refund is made once, out of the escrow's own coin, whatever the
\* reuse of ids and the order of delivery, release and refund.
EscrowSolvent == escrowEther = Total(Locked)

\* What release promises when an object is linked: the same step takes the
\* object from seller to buyer and pays the seller.
Exchanged(e) ==
    LET escrow == escrows[e]
    IN  /\ OwnerOf(escrow.linkedObjectId) = escrow.seller
        /\ objects'[escrow.linkedObjectId].owner = escrow.buyer
        /\ wallets'[escrow.seller] = wallets[escrow.seller] + escrow.amount

-----------------------------------------------------------------------------
(* What the escrow implements                                              *)

StageOf(e) ==
    IF escrows[e].amount = 0 THEN "open"
    ELSE CASE escrows[e].status = "LOCKED" -> "held"
           [] escrows[e].status = "DELIVERED" -> "delivered"
           [] escrows[e].status = "RELEASED" -> "paid"
           [] escrows[e].status = "REFUNDED" -> "returned"
           [] OTHER -> "impossible"

Payments == INSTANCE ConditionalPayments WITH
    Payments <- Escrows,
    stage <- [e \in Escrows |-> StageOf(e)],
    stake <- [e \in Escrows |-> escrows[e].amount],
    parties <- [e \in Escrows |-> <<escrows[e].buyer, escrows[e].seller>>],
    Parties <- Accounts \X Addresses,
    NoParties <- <<NoAddress, NoAddress>>,
    held <- escrowEther

\* Every escrow is a conditional payment: held once with fixed terms, paid to
\* the payee after delivery or returned before, never both.
ImplementsPayments == Payments!Spec

=============================================================================
