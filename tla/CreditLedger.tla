---------------------------- MODULE CreditLedger ----------------------------
(***************************************************************************)
(* src/sdk/creditVault.ts: the credits of agents that the SDK keeps in its *)
(* store, apart from the vault contract.  Credits are granted, reserved,   *)
(* consumed, given back to their owner or to a pool, and allotted from the *)
(* pool to whoever asked.  Each call runs to its end without an await; one *)
(* that is refused changes nothing.  Every sum is rounded to a thousandth. *)
(***************************************************************************)
EXTENDS Integers, EtherTotals

CONSTANTS
    Agents,        \* the agents the store has
    AssetTypes,
    Reservations,  \* bound: the reservations that are made
    Requests,      \* bound: the requests that are made
    CreditAmounts, \* amounts that calls name
    Grain,         \* units in a thousandth of a credit
    MaxRoundings   \* bound: the sums that are rounded, in all calls

ASSUME LedgerAssumption ==
    /\ IsFiniteSet(Agents) /\ IsFiniteSet(Reservations)
    /\ CreditAmounts \subseteq Nat \ {0}
    /\ Grain \in Nat \ {0} /\ MaxRoundings \in Nat

VARIABLES
    creditBalances,     \* <<agent, asset type>> -> credits
    creditPool,         \* asset type -> credits
    creditReservations, \* reservation -> CreditReservation
    creditRequests,     \* request -> CreditRequest
    granted,            \* history: asset type -> credits granted from outside
    consumed,           \* history: asset type -> credits consumed
    roundings           \* history: sums that were rounded

ledgerVars == <<creditBalances, creditPool, creditReservations, creditRequests>>
vars == <<ledgerVars, granted, consumed, roundings>>

Open == {"RESERVED", "PARTIALLY_CONSUMED"}
Closed == {"RECYCLED", "RELEASED"}
CreditReservation ==
    [owner : Agents, assetType : AssetTypes, remaining : Nat,
     transferable : BOOLEAN, status : Open \cup Closed \cup {"CONSUMED"}]
CreditRequest ==
    [agent : Agents, assetType : AssetTypes, requested : Nat, fulfilled : Nat,
     status : {"OPEN", "FULFILLED"}]
None == [status |-> "NONE"]

Init ==
    /\ creditBalances = [k \in Agents \X AssetTypes |-> 0]
    /\ creditPool = [t \in AssetTypes |-> 0]
    /\ creditReservations = [r \in Reservations |-> None]
    /\ creditRequests = [q \in Requests |-> None]
    /\ granted = [t \in AssetTypes |-> 0]
    /\ consumed = [t \in AssetTypes |-> 0]
    /\ roundings = 0

roundAmount(amount) == ((amount + Grain \div 2) \div Grain) * Grain
Rounded(n) == roundings + n <= MaxRoundings /\ roundings' = roundings + n

GiveTo(a, t, amount) ==
    creditBalances' = [creditBalances EXCEPT
                           ![<<a, t>>] = roundAmount(@ + amount)]

grant(a, t, amount) ==
    /\ GiveTo(a, t, amount)
    /\ granted' = [granted EXCEPT ![t] = @ + amount]
    /\ Rounded(1)
    /\ UNCHANGED <<creditPool, creditReservations, creditRequests, consumed>>

Has(a, t, amount) == creditBalances[<<a, t>>] >= amount

\* The amount itself is not rounded.
reserve(r, a, t, amount, transferable) ==
    /\ creditReservations[r] = None
    /\ Has(a, t, amount)
    /\ GiveTo(a, t, -amount)
    /\ creditReservations' = [creditReservations EXCEPT ![r] =
          [owner |-> a, assetType |-> t, remaining |-> amount,
           transferable |-> transferable, status |-> "RESERVED"]]
    /\ Rounded(1)
    /\ UNCHANGED <<creditPool, creditRequests, granted, consumed>>

IsClosed(r) == creditReservations[r].status \in Closed \cup {"NONE"}

\* The expiry of a reservation is never looked at again.
consume(r, amount) ==
    LET it == creditReservations[r]
        remaining == roundAmount(it.remaining - amount)
    IN  /\ ~IsClosed(r)
        /\ amount <= it.remaining
        /\ creditReservations' = [creditReservations EXCEPT
              ![r].remaining = remaining,
              ![r].status = IF remaining = 0 THEN "CONSUMED"
                                             ELSE "PARTIALLY_CONSUMED"]
        /\ consumed' = [consumed EXCEPT ![it.assetType] = @ + amount]
        /\ Rounded(1)
        /\ UNCHANGED <<creditBalances, creditPool, creditRequests, granted>>

\* What is left goes away from the reservation for good.
CloseNothing(r, status) == UNCHANGED creditReservations
Close(r, status) ==
    creditReservations' = [creditReservations EXCEPT ![r].remaining = 0,
                                                     ![r].status = status]

release(r) ==
    LET it == creditReservations[r]
    IN  /\ ~IsClosed(r)
        /\ IF it.remaining > 0
           THEN GiveTo(it.owner, it.assetType, it.remaining) /\ Rounded(1)
           ELSE UNCHANGED <<creditBalances, roundings>>
        /\ Close(r, "RELEASED")
        /\ UNCHANGED <<creditPool, creditRequests, granted, consumed>>

MayRecycle(r) == ~IsClosed(r)

recycle(r) ==
    LET it == creditReservations[r]
    IN  /\ MayRecycle(r) /\ it.transferable
        /\ creditPool' = [creditPool EXCEPT
                              ![it.assetType] = roundAmount(@ + it.remaining)]
        /\ Close(r, "RECYCLED")
        /\ Rounded(1)
        /\ UNCHANGED <<creditBalances, creditRequests, granted, consumed>>

request(q, a, t, amount) ==
    /\ creditRequests[q] = None
    /\ creditRequests' = [creditRequests EXCEPT ![q] =
          [agent |-> a, assetType |-> t, requested |-> amount,
           fulfilled |-> 0, status |-> "OPEN"]]
    /\ UNCHANGED <<creditBalances, creditPool, creditReservations, granted,
                   consumed, roundings>>

\* The least of what is offered, outstanding, and in the pool.
Allocation(q, offered) ==
    LET it == creditRequests[q]
        outstanding == roundAmount(it.requested - it.fulfilled)
        limits == {offered, outstanding, creditPool[it.assetType]}
    IN  CHOOSE least \in limits : \A other \in limits : least <= other

fulfill(q, offered) ==
    LET it == creditRequests[q]
        allocation == Allocation(q, offered)
        fulfilled == roundAmount(it.fulfilled + allocation)
    IN  /\ it.status = "OPEN"
        /\ allocation > 0
        /\ creditPool' = [creditPool EXCEPT
                              ![it.assetType] = roundAmount(@ - allocation)]
        /\ GiveTo(it.agent, it.assetType, allocation)
        /\ creditRequests' = [creditRequests EXCEPT
              ![q].fulfilled = fulfilled,
              ![q].status = IF fulfilled >= it.requested THEN "FULFILLED"
                                                         ELSE "OPEN"]
        /\ Rounded(3)
        /\ UNCHANGED <<creditReservations, granted, consumed>>

Next ==
    \/ \E a \in Agents, t \in AssetTypes, amount \in CreditAmounts :
          \/ grant(a, t, amount)
          \/ \E r \in Reservations, transferable \in BOOLEAN :
                reserve(r, a, t, amount, transferable)
          \/ \E q \in Requests : request(q, a, t, amount)
    \/ \E r \in Reservations :
          \/ release(r) \/ recycle(r)
          \/ \E amount \in CreditAmounts : consume(r, amount)
    \/ \E q \in Requests, offered \in CreditAmounts : fulfill(q, offered)

Spec == Init /\ [][Next]_vars

-----------------------------------------------------------------------------
(* Properties                                                              *)

TypeOK ==
    /\ creditBalances \in [Agents \X AssetTypes -> Nat]
    /\ creditPool \in [AssetTypes -> Nat]
    /\ creditReservations \in [Reservations -> {None} \cup CreditReservation]
    /\ creditRequests \in [Requests -> {None} \cup CreditRequest]
    /\ granted \in [AssetTypes -> Nat] /\ consumed \in [AssetTypes -> Nat]
    /\ roundings \in 0..MaxRoundings

\* getSummary, of one asset type.
totalBalances(t) == Total([a \in Agents |-> creditBalances[<<a, t>>]])
Held(r, t) ==
    IF creditReservations[r].status \in Open
       /\ creditReservations[r].assetType = t
    THEN creditReservations[r].remaining ELSE 0
totalReserved(t) == Total([r \in Reservations |-> Held(r, t)])

\* Whatever is granted is in a balance, in the pool, reserved or consumed, and
\* no credit is in two of these places: what the summary shows differs from
\* what was granted by at most half a thousandth for each sum that was rounded
\* (creditVault.ts:15, :37-219).
Accounted ==
    \A t \in AssetTypes :
        LET known == totalBalances(t) + totalReserved(t) + creditPool[t]
                     + consumed[t]
        IN  /\ 2 * (known - granted[t]) <= Grain * roundings
            /\ 2 * (granted[t] - known) <= Grain * roundings

\* A request is never allotted more than it asked for, to the thousandth, in
\* however many parts, and one that is open has something outstanding
\* (creditVault.ts:193-219).
NeverOverfilled ==
    \A q \in Requests :
        creditRequests[q] # None =>
            /\ creditRequests[q].fulfilled
                  <= roundAmount(creditRequests[q].requested)
            /\ creditRequests[q].status = "OPEN" =>
                  creditRequests[q].fulfilled < creditRequests[q].requested

\* Both hold after any sequence of the ledger's operations.
LedgerIsSound == Accounted /\ NeverOverfilled

=============================================================================
