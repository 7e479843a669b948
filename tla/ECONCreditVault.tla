-------------------------- MODULE ECONCreditVault --------------------------
(***************************************************************************)
(* contracts/ECONCreditVault.sol: users deposit native coin, reserve part  *)
(* of it for one agent's task, and the reservation ends by being settled   *)
(* (the agent's controller is paid, the surplus goes back), released (all  *)
(* of it goes back) or recycled (all of it goes to a common pool).         *)
(*                                                                         *)
(* One action per external function; its first argument is msg.sender.  A  *)
(* transaction is atomic: a failed require, or a transfer the recipient    *)
(* rejects, reverts it, so it is a step that does not happen.              *)
(***************************************************************************)
EXTENDS EtherTotals

CONSTANTS
    Accounts,        \* the addresses that send transactions
    Owner,           \* the deployer: `owner' is set once, in the constructor
    NoAccount,       \* address(0), which sends nothing
    Payable,         \* the accounts whose receive hook accepts native coin
    Agents,          \* agent ids a reservation can name
    NoAgent,         \* the agent id of a reservation that was never made
    ReservationIds,
    Amounts,         \* the amounts a call can name or carry
    Expiries,        \* the expiresAt values a call can name, 0 for none
    Endowment,       \* native coin of each account when the vault is deployed
    MaxTime          \* bound: the last block timestamp that is explored

ASSUME VaultAssumption ==
    /\ IsFiniteSet(Accounts) /\ IsFiniteSet(ReservationIds)
    /\ Owner \in Accounts /\ NoAccount \notin Accounts
    /\ Payable \subseteq Accounts
    /\ NoAgent \notin Agents
    /\ Amounts \subseteq Nat /\ Expiries \subseteq Nat
    /\ Endowment \in [Accounts -> Nat]
    /\ MaxTime \in Nat

VARIABLES
    agentControllers,  \* agent id -> the address paid for it, or NoAccount
    userBalances,      \* account -> withdrawable credit
    reservations,      \* reservation id -> the Reservation struct
    recyclablePool,    \* wei recycled from reservations
    ether,             \* address(this).balance
    wallets,           \* account -> its own native coin, outside the vault
    blockTime,         \* block.timestamp
    retained           \* history: wei consumed for agents with no controller

ledgerVars == <<userBalances, reservations, recyclablePool, retained>>
coinVars == <<ether, wallets>>
vars == <<agentControllers, ledgerVars, coinVars, blockTime>>

-----------------------------------------------------------------------------
(* State                                                                   *)

Reservation ==
    [agentId : Agents \cup {NoAgent}, requester : Accounts \cup {NoAccount},
     amount : Nat, consumed : BOOLEAN, released : BOOLEAN,
     expiresAt : Nat, consumedAmount : Nat]

\* An entry of the mapping that was never written: every field zero.
Unwritten ==
    [agentId |-> NoAgent, requester |-> NoAccount, amount |-> 0,
     consumed |-> FALSE, released |-> FALSE, expiresAt |-> 0,
     consumedAmount |-> 0]

Init ==
    /\ agentControllers = [a \in Agents |-> NoAccount]
    /\ userBalances = [u \in Accounts |-> 0]
    /\ reservations = [id \in ReservationIds |-> Unwritten]
    /\ recyclablePool = 0
    /\ ether = 0
    /\ wallets = Endowment
    /\ blockTime = 0
    /\ retained = 0

TypeOK ==
    /\ agentControllers \in [Agents -> Accounts \cup {NoAccount}]
    /\ userBalances \in [Accounts -> Nat]
    /\ reservations \in [ReservationIds -> Reservation]
    /\ recyclablePool \in Nat
    /\ ether \in Nat
    /\ wallets \in [Accounts -> Nat]
    /\ blockTime \in Nat
    /\ retained \in Nat

-----------------------------------------------------------------------------
(* Guards and effects the functions share                                  *)

\* The three requires at the head of settle, release and recycle.
IsOpenIgnoringReleased(r) == r.amount > 0 /\ ~r.consumed
IsOpenIgnoringConsumed(r) == r.amount > 0 /\ ~r.released
IsOpen(r) == r.amount > 0 /\ ~r.consumed /\ ~r.released

\* "Reservation already exists": an id is taken for ever, its amount is never
\* cleared.
IsFresh(id) == reservations[id].amount = 0

IsFuture(expiresAt) == expiresAt = 0 \/ expiresAt > blockTime

IsExpired(r) == r.expiresAt > 0 /\ blockTime > r.expiresAt

\* "Consumed exceeds reserved".
IsWithin(r, consumedAmount) == consumedAmount <= r.amount

\* "Unauthorized agent controller", "Unauthorized release".
SettleAllowed(caller, id, consumedAmount) ==
    LET r == reservations[id]
        controller == agentControllers[r.agentId]
    IN  /\ IsOpen(r)
        /\ IsWithin(r, consumedAmount)
        /\ caller \in {controller, Owner} \/ controller = NoAccount

ReleaseAllowed(caller, id) ==
    LET r == reservations[id]
    IN  /\ IsOpen(r)
        /\ \/ caller \in {agentControllers[r.agentId], r.requester, Owner}
           \/ IsExpired(r)

\* What settle credits back to the requester.
FullAmount(r, consumedAmount) == r.amount
UnusedRefund(r, consumedAmount) == r.amount - consumedAmount

NewReservation(caller, agentId, amount, expiresAt) ==
    [agentId |-> agentId, requester |-> caller, amount |-> amount,
     consumed |-> FALSE, released |-> FALSE, expiresAt |-> expiresAt,
     consumedAmount |-> 0]

\* A payable call: msg.value moves from the caller's wallet into the vault.
ReceiveValue(from, value) ==
    /\ value <= wallets[from]
    /\ wallets' = [wallets EXCEPT ![from] = @ - value]
    /\ ether' = ether + value

\* payable(to).call{value: value}(""), and the require that it succeeded.
SendValue(to, value) ==
    /\ to \in Payable
    /\ value <= ether
    /\ wallets' = [wallets EXCEPT ![to] = @ + value]
    /\ ether' = ether - value

CreditUncounted(account, amount) == UNCHANGED userBalances
Credit(account, amount) ==
    userBalances' = [userBalances EXCEPT ![account] = @ + amount]

DebitUnchecked(account, amount) ==
    userBalances' = [userBalances EXCEPT
        ![account] = IF amount <= @ THEN @ - amount ELSE 0]
Debit(account, amount) ==
    /\ amount <= userBalances[account]
    /\ userBalances' = [userBalances EXCEPT ![account] = @ - amount]

-----------------------------------------------------------------------------
(* The external functions                                                  *)

setAgentController(caller, agentId, controller) ==
    /\ caller = Owner \/ agentControllers[agentId] = caller
    /\ controller # NoAccount
    /\ agentControllers' = [agentControllers EXCEPT ![agentId] = controller]
    /\ UNCHANGED <<ledgerVars, coinVars, blockTime>>

\* deposit() is depositFor(msg.sender).
depositFor(caller, account, value) ==
    /\ value > 0
    /\ account # NoAccount
    /\ ReceiveValue(caller, value)
    /\ Credit(account, value)
    /\ UNCHANGED <<agentControllers, reservations, recyclablePool, retained,
                   blockTime>>

deposit(caller, value) == depositFor(caller, caller, value)

withdraw(caller, amount) ==
    /\ Debit(caller, amount)
    /\ SendValue(caller, amount)
    /\ UNCHANGED <<agentControllers, reservations, recyclablePool, retained,
                   blockTime>>

reserveCredits(caller, id, agentId, amount, expiresAt) ==
    /\ IsFresh(id)
    /\ amount > 0
    /\ Debit(caller, amount)
    /\ IsFuture(expiresAt)
    /\ reservations' = [reservations EXCEPT
           ![id] = NewReservation(caller, agentId, amount, expiresAt)]
    /\ UNCHANGED <<agentControllers, recyclablePool, retained, coinVars,
                   blockTime>>

reserveCreditsWithDirectPayment(caller, id, agentId, value, expiresAt) ==
    /\ IsFresh(id)
    /\ value > 0
    /\ IsFuture(expiresAt)
    /\ ReceiveValue(caller, value)
    /\ reservations' = [reservations EXCEPT
           ![id] = NewReservation(caller, agentId, value, expiresAt)]
    /\ UNCHANGED <<agentControllers, userBalances, recyclablePool, retained,
                   blockTime>>

settleReservation(caller, id, consumedAmount) ==
    LET r == reservations[id]
        controller == agentControllers[r.agentId]
    IN  /\ SettleAllowed(caller, id, consumedAmount)
        /\ reservations' = [reservations EXCEPT
               ![id] = [@ EXCEPT !.consumed = TRUE,
                                 !.consumedAmount = consumedAmount]]
        /\ Credit(r.requester, UnusedRefund(r, consumedAmount))
        /\ IF controller # NoAccount /\ consumedAmount > 0
           THEN SendValue(controller, consumedAmount) /\ UNCHANGED retained
           ELSE retained' = retained + consumedAmount /\ UNCHANGED coinVars
        /\ UNCHANGED <<agentControllers, recyclablePool, blockTime>>

releaseReservation(caller, id) ==
    LET r == reservations[id]
    IN  /\ ReleaseAllowed(caller, id)
        /\ reservations' = [reservations EXCEPT ![id].released = TRUE]
        /\ Credit(r.requester, r.amount)
        /\ UNCHANGED <<agentControllers, recyclablePool, retained, coinVars,
                       blockTime>>

\* A recycled reservation is flagged released, as a refunded one is; its
\* amount goes to the pool, which no function draws on.
recycleReservation(caller, id) ==
    LET r == reservations[id]
    IN  /\ IsOpen(r)
        /\ caller \in {agentControllers[r.agentId], r.requester, Owner}
        /\ reservations' = [reservations EXCEPT ![id].released = TRUE]
        /\ recyclablePool' = recyclablePool + r.amount
        /\ UNCHANGED <<agentControllers, userBalances, retained, coinVars,
                       blockTime>>

\* The chain produces a block with a later timestamp.
Tick ==
    /\ blockTime < MaxTime
    /\ blockTime' = blockTime + 1
    /\ UNCHANGED <<agentControllers, ledgerVars, coinVars>>

-----------------------------------------------------------------------------

\* Every transaction an account can send to the vault.
Call(caller) ==
    \/ \E agentId \in Agents, controller \in Accounts \cup {NoAccount} :
          setAgentController(caller, agentId, controller)
    \/ \E value \in Amounts : deposit(caller, value)
    \/ \E account \in Accounts \cup {NoAccount}, value \in Amounts :
          depositFor(caller, account, value)
    \/ \E amount \in Amounts : withdraw(caller, amount)
    \/ \E id \in ReservationIds, agentId \in Agents, amount \in Amounts,
          expiresAt \in Expiries :
          reserveCredits(caller, id, agentId, amount, expiresAt)
    \/ \E id \in ReservationIds, agentId \in Agents, value \in Amounts,
          expiresAt \in Expiries :
          reserveCreditsWithDirectPayment(caller, id, agentId, value, expiresAt)
    \/ \E id \in ReservationIds, consumedAmount \in Amounts :
          settleReservation(caller, id, consumedAmount)
    \/ \E id \in ReservationIds : releaseReservation(caller, id)
    \/ \E id \in ReservationIds : recycleReservation(caller, id)

Next == Tick \/ \E caller \in Accounts : Call(caller)

Spec == Init /\ [][Next]_vars

-----------------------------------------------------------------------------
(* Properties                                                              *)

\* Wei a reservation still holds: its amount until it is closed.
Held == [id \in ReservationIds |->
            IF IsOpen(reservations[id]) THEN reservations[id].amount ELSE 0]

\* Every wei of the contract's balance is owned by exactly one ledger: a
\* user's withdrawable credit, an open reservation, the recyclable pool, or
\* what was consumed for agents without a controller.  No sequence of
\* deposits, reservations, settlements, releases and recyclings pays a wei
\* twice or loses one.
Solvent ==
    ether = Total(userBalances) + Total(Held) + recyclablePool + retained

\* The vault and its callers exchange coin and make none.
Conserved == Total(wallets) + ether = Total(Endowment)

\* No ledger entry, and no two together, ever exceed the coin in existence:
\* a requester refunded twice, or refunded what an agent was paid, would get
\* there.  It is why uint256 addition is modelled without overflow.
BackedByCoin ==
    \A u \in Accounts :
        userBalances[u] + recyclablePool + retained <= Total(Endowment)

\* A closed reservation is settled or released, never both, and only a
\* settled one has consumed anything, at most what was reserved.
ClosedOnce ==
    \A id \in ReservationIds :
        LET r == reservations[id]
        IN  /\ ~(r.consumed /\ r.released)
            /\ r.consumedAmount <= r.amount
            /\ r.consumedAmount > 0 => r.consumed
            /\ r.amount > 0 => r.agentId \in Agents /\ r.requester \in Accounts

\* What the vault owes one account: its credit and its open reservations.
Claim(u) ==
    userBalances[u] +
    Total([id \in ReservationIds |->
              IF reservations[id].requester = u THEN Held[id] ELSE 0])

\* Nobody's claim on the vault shrinks except by the account's own withdrawal
\* or by the closing of one of its own reservations, and then by exactly what
\* that settlement consumed or that recycling moved to the pool.
ClaimsOnlySpent ==
    [][\A u \in Accounts : Claim(u)' < Claim(u) =>
          \/ /\ \E amount \in Amounts : withdraw(u, amount)
             /\ Claim(u) - Claim(u)' = wallets[u]' - wallets[u]
          \/ \E id \in ReservationIds :
                /\ reservations[id].requester = u
                /\ IsOpen(reservations[id]) /\ ~IsOpen(reservations[id]')
                /\ Claim(u) - Claim(u)' =
                      IF reservations[id].consumed'
                      THEN reservations[id].consumedAmount'
                      ELSE recyclablePool' - recyclablePool]_vars

\* What a reservation was made for.
Terms(r) == <<r.agentId, r.requester, r.amount, r.expiresAt>>

\* The terms of a reservation never change once it is made, and a closed one
\* stays as it was closed: the agent that verified it settles what it read.
TermsFrozen ==
    [][\A id \in ReservationIds :
          reservations[id].amount > 0 =>
             /\ Terms(reservations[id])' = Terms(reservations[id])
             /\ IsOpen(reservations[id]) \/ UNCHANGED reservations[id]]_vars

-----------------------------------------------------------------------------
(* What the vault implements                                               *)

StageOf(r) ==
    IF r.amount = 0 THEN "unused"
    ELSE IF r.consumed THEN "settled"
    ELSE IF r.released THEN "released"
    ELSE "held"

Custody == INSTANCE CreditCustody WITH
    stage  <- [id \in ReservationIds |-> StageOf(reservations[id])],
    stake  <- [id \in ReservationIds |-> reservations[id].amount],
    charge <- [id \in ReservationIds |-> reservations[id].consumedAmount],
    free   <- Total(userBalances),
    pool   <- recyclablePool

\* Whatever the callers and the controllers, the vault is a credit custody:
\* every reservation is held once and closed once, its stake split between
\* charge, refund and pool, and nothing else moves credit.
ImplementsCustody == Custody!Spec

=============================================================================
