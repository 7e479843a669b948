------------------------------- MODULE Chain -------------------------------
(***************************************************************************)
(* What the contracts of src/contracts that trade economic objects share:  *)
(* the accounts that call them with their native coin, the clock of the    *)
(* chain, and the ways coin enters and leaves a contract.                  *)
(*                                                                         *)
(* An action of the contracts is a transaction: it is atomic, its first    *)
(* argument is msg.sender, and a failed require, also one of a contract it *)
(* calls, reverts it, so it is a step that does not happen.                *)
(***************************************************************************)
EXTENDS EtherTotals

CONSTANTS
    Accounts,    \* the addresses that send transactions
    Owner,       \* the deployer, `owner' of marketplace and escrow
    NoAddress,   \* address(0), which sends nothing
    Payable,     \* the accounts that accept native coin
    Amounts,     \* the amounts a call can name or carry
    Endowment,   \* native coin of each account at the start
    MaxTime      \* bound: the last block timestamp that is explored

ASSUME ChainAssumption ==
    /\ IsFiniteSet(Accounts)
    /\ Owner \in Accounts /\ NoAddress \notin Accounts
    /\ Payable \subseteq Accounts
    /\ Amounts \subseteq Nat
    /\ Endowment \in [Accounts -> Nat]
    /\ MaxTime \in Nat

VARIABLES
    wallets,     \* account -> its native coin, outside the contracts
    blockTime    \* block.timestamp

ChainInit ==
    /\ wallets = Endowment
    /\ blockTime = 0

ChainTypeOK ==
    /\ wallets \in [Accounts -> Nat]
    /\ blockTime \in Nat

\* msg.value leaves the caller with the call.
CanAfford(from, value) == value <= wallets[from]

\* payable(to).call{value: ...}("") succeeds; a contract of the system has no
\* receive hook.
Accepts(to) == to \in Payable

Charged(purses, from, amount) == [purses EXCEPT ![from] = @ - amount]
Paid(purses, to, amount) == [purses EXCEPT ![to] = @ + amount]

\* A block with a later timestamp.
Advance ==
    /\ blockTime < MaxTime
    /\ blockTime' = blockTime + 1
    /\ UNCHANGED wallets

=============================================================================
