------------------------ MODULE ECONEconomicObject -------------------------
(***************************************************************************)
(* contracts/ECONEconomicObject.sol: the registry of economic objects.     *)
(* The owner of an object, the address approved for the object and the     *)
(* operators of its owner may transfer it or set its status.               *)
(*                                                                         *)
(* An object's type, value and metadata are stored and never read.         *)
(***************************************************************************)
EXTENDS Chain

CONSTANTS
    Contracts,   \* the addresses of contracts, which own or move objects too
    Objects,     \* object ids
    Operators,   \* the addresses that owners approve
    NewStatuses, \* the statuses that setStatus is called with
    Expiries     \* the expiry values objects are created with, 0 for none

ObjectStatus ==
    {"ACTIVE", "IN_ESCROW", "STRANDED", "RECOVERED", "EXPIRED", "LIQUIDATED"}

ASSUME ObjectAssumption ==
    /\ Contracts \cap Accounts = {} /\ NoAddress \notin Contracts
    /\ Operators \subseteq Accounts \cup Contracts
    /\ NewStatuses \subseteq ObjectStatus
    /\ Expiries \subseteq Nat

VARIABLES
    objects,            \* object id -> the EconomicObject struct
    objectApprovals,    \* object id -> the address approved for it
    operatorApprovals,  \* owner -> the operators it approved
    approvedBy          \* history: object id -> who made its last approval

objectVars == <<objects, objectApprovals, operatorApprovals, approvedBy>>

Addresses == Accounts \cup Contracts

EconomicObject ==
    [owner : Addresses \cup {NoAddress}, expiry : Nat, transferable : BOOLEAN,
     status : ObjectStatus]

\* Never written: every field zero, and 0 is ACTIVE.
NoObject == [owner |-> NoAddress, expiry |-> 0, transferable |-> FALSE,
             status |-> "ACTIVE"]

ObjectInit ==
    /\ objects = [id \in Objects |-> NoObject]
    /\ objectApprovals = [id \in Objects |-> NoAddress]
    /\ operatorApprovals = [a \in Addresses |-> {}]
    /\ approvedBy = [id \in Objects |-> NoAddress]

ObjectTypeOK ==
    /\ objects \in [Objects -> EconomicObject]
    /\ objectApprovals \in [Objects -> Operators \cup {NoAddress}]
    /\ operatorApprovals \in [Addresses -> SUBSET Operators]
    /\ approvedBy \in [Objects -> Addresses \cup {NoAddress}]

-----------------------------------------------------------------------------

OwnerOf(id) == objects[id].owner

IsApprovedOrOwner(spender, id) ==
    /\ OwnerOf(id) # NoAddress
    /\ \/ spender = OwnerOf(id)
       \/ spender = objectApprovals[id]
       \/ spender \in operatorApprovals[OwnerOf(id)]

approve(caller, to, id) ==
    /\ OwnerOf(id) = caller
    /\ objectApprovals' = [objectApprovals EXCEPT ![id] = to]
    /\ approvedBy' = [approvedBy EXCEPT ![id] = caller]
    /\ UNCHANGED <<objects, operatorApprovals>>

setApprovalForAll(caller, operator, approved) ==
    /\ operator # caller
    /\ operatorApprovals' = [operatorApprovals EXCEPT
           ![caller] = IF approved THEN @ \cup {operator} ELSE @ \ {operator}]
    /\ UNCHANGED <<objects, objectApprovals, approvedBy>>

createObject(caller, id, expiry, transferable) ==
    /\ OwnerOf(id) = NoAddress
    /\ objects' = [objects EXCEPT
           ![id] = [owner |-> caller, expiry |-> expiry,
                    transferable |-> transferable, status |-> "ACTIVE"]]
    /\ UNCHANGED <<objectApprovals, operatorApprovals, approvedBy>>

\* _executeTransfer
ExecuteTransferKeepingApproval(id, to) ==
    /\ objects[id].transferable
    /\ objects[id].status = "ACTIVE"
    /\ to # NoAddress
    /\ objects' = [objects EXCEPT ![id].owner = to]
    /\ UNCHANGED <<objectApprovals, operatorApprovals, approvedBy>>
ExecuteTransfer(id, to) ==
    /\ objects[id].transferable
    /\ objects[id].status = "ACTIVE"
    /\ to # NoAddress
    /\ objectApprovals' = [objectApprovals EXCEPT ![id] = NoAddress]
    /\ objects' = [objects EXCEPT ![id].owner = to]
    /\ UNCHANGED <<operatorApprovals, approvedBy>>

transferObject(caller, id, newOwner) ==
    /\ IsApprovedOrOwner(caller, id)
    /\ ExecuteTransfer(id, newOwner)

transferFromAnyOwner(caller, from, to, id) ==
    /\ IsApprovedOrOwner(caller, id)
    /\ ExecuteTransfer(id, to)
transferFrom(caller, from, to, id) ==
    /\ IsApprovedOrOwner(caller, id)
    /\ OwnerOf(id) = from
    /\ ExecuteTransfer(id, to)

setStatus(caller, id, newStatus) ==
    /\ IsApprovedOrOwner(caller, id)
    /\ objects' = [objects EXCEPT ![id].status = newStatus]
    /\ UNCHANGED <<objectApprovals, operatorApprovals, approvedBy>>

\* Every transaction an account can send to the registry.
ObjectCall(caller) ==
    \/ \E operator \in Operators, approved \in BOOLEAN :
          setApprovalForAll(caller, operator, approved)
    \/ \E id \in Objects :
          \/ \E to \in Operators \cup {NoAddress} : approve(caller, to, id)
          \/ \E expiry \in Expiries, transferable \in BOOLEAN :
                createObject(caller, id, expiry, transferable)
          \/ \E to \in Addresses \cup {NoAddress} :
                \/ transferObject(caller, id, to)
                \/ \E from \in Addresses : transferFrom(caller, from, to, id)
          \/ \E newStatus \in NewStatuses : setStatus(caller, id, newStatus)

-----------------------------------------------------------------------------
(* Properties                                                              *)

\* Whoever is approved for an object was approved by its present owner: an
\* approval dies with the transfer, so that a buyer is not exposed to the
\* operators that a former owner, or the same owner in an earlier tenure,
\* trusted with it.
ApprovalIsCurrent ==
    \A id \in Objects :
        objectApprovals[id] # NoAddress => approvedBy[id] = OwnerOf(id)

=============================================================================
