--------------------------- MODULE EconomicStore ---------------------------
(***************************************************************************)
(* src/sdk/store.ts: the maps every part of the SDK reads and writes, in   *)
(* one JavaScript process.  Code between two awaits runs alone, so a step  *)
(* of a specification is what one call does from one await to the next;    *)
(* `calls' holds where each asynchronous call is suspended.                *)
(***************************************************************************)
EXTENDS Integers, FiniteSets

CONSTANTS
    AgentIds,      \* the agent ids that calls name
    Registered,    \* those the store has an agent for
    Objects,       \* ids of economic objects
    Transferable,  \* the objects that are transferable
    Policies,      \* spending policies an agent may be given
    DefaultPolicy, \* the one it is registered with
    MaxCalls,      \* bound: the asynchronous calls that are made
    Seeded,        \* escrows the demonstration data starts with
    SeededEscrow,  \* the record of each of them
    Endowment,     \* agent -> its balance at first
    OwnerAtFirst,  \* object -> its owner at first
    FirstTick,     \* the time at first, in ticks of six hours
    LastTick       \* bound: the time up to which is explored

\* Amounts of MON count 0.00001; balances are kept to 0.001.
Milli == 100

HoursPerTick == 6
Today(now) == now \div (24 \div HoursPerTick)

VARIABLES
    balances,      \* agent -> balanceMon
    policies,      \* agent -> its policy
    objects,       \* object -> its owner and status
    records,       \* escrow -> EscrowRecord
    transactions,  \* the purchase that made it -> Transaction
    tick,          \* Date.now()
    calls          \* asynchronous call -> what it is and awaits

storeVars == <<balances, policies, objects, records, transactions, tick>>

ObjectStatuses == {"ACTIVE", "STRANDED", "RECOVERED", "LIQUIDATED", "EXPIRED"}
EscrowStatuses == {"LOCKED", "DELIVERED", "VERIFIED", "RELEASED", "REFUNDED"}

\* Calls are numbered in the order in which they are made.
Calls == 1..MaxCalls

\* An escrow is named after the call that creates it.
Escrows == Calls \cup Seeded

NoRecord == [status |-> "NONE"]
NoTransaction == [status |-> "NONE"]
NoCall == [op |-> "none", at |-> "idle"]
Finished == [op |-> "none", at |-> "done"]

EscrowRecord == [buyer : AgentIds, seller : AgentIds, amount : Nat,
                 status : EscrowStatuses, hashIsHex : BOOLEAN]
Transaction == [buyer : AgentIds, amount : Nat, day : Nat,
                status : {"PENDING", "SETTLED", "FAILED", "BLOCKED_BY_POLICY"}]

ASSUME StoreAssumption ==
    /\ Registered \subseteq AgentIds
    /\ Transferable \subseteq Objects
    /\ Policies \subseteq [maxPerTransaction : Nat, dailySpendingLimit : Nat,
                           minRetainedBalance : Nat,
                           requireApprovalAbove : Nat,
                           allowedObjects : SUBSET Objects,
                           autoRecoveryEnabled : BOOLEAN,
                           autoTransferEnabled : BOOLEAN]
    /\ DefaultPolicy \in Policies
    /\ \A a \in Registered : Endowment[a] \in Nat /\ Endowment[a] % Milli = 0
    /\ OwnerAtFirst \in [Objects -> AgentIds]
    /\ MaxCalls \in Nat /\ Seeded \cap Calls = {}
    /\ \A e \in Seeded : SeededEscrow[e] \in EscrowRecord
    /\ FirstTick \in Nat /\ LastTick \in Nat /\ FirstTick <= LastTick

StoreInit ==
    /\ balances = [a \in Registered |-> Endowment[a]]
    /\ policies = [a \in Registered |-> DefaultPolicy]
    /\ objects = [o \in Objects |->
                     [owner |-> OwnerAtFirst[o], status |-> "ACTIVE"]]
    /\ records = [e \in Escrows |-> IF e \in Seeded THEN SeededEscrow[e]
                                                  ELSE NoRecord]
    /\ transactions = [c \in Calls |-> NoTransaction]
    /\ tick = FirstTick
    /\ calls = [c \in Calls |-> NoCall]

StoreTypeOK ==
    /\ balances \in [Registered -> Nat]
    /\ policies \in [Registered -> Policies]
    /\ objects \in [Objects -> [owner : AgentIds, status : ObjectStatuses]]
    /\ records \in [Escrows -> {NoRecord} \cup EscrowRecord]
    /\ transactions \in [Calls -> {NoTransaction} \cup Transaction]
    /\ tick \in FirstTick..LastTick
    /\ DOMAIN calls = Calls

-----------------------------------------------------------------------------

\* Math.round(balance * 1000) / 1000.
RoundMilli(amount) == ((amount + Milli \div 2) \div Milli) * Milli

\* updateAgentBalance: nothing happens for an agent the store does not have.
Shifted(ledger, a, delta) ==
    IF a \in Registered THEN [ledger EXCEPT ![a] = RoundMilli(@ + delta)]
                        ELSE ledger

UpdateObject(o, status, owner) ==
    objects' = [objects EXCEPT ![o] = [owner |-> owner, status |-> status]]

SetStatus(c, status) ==
    transactions' = [transactions EXCEPT ![c].status = status]

SetEscrow(e, status) == records' = [records EXCEPT ![e].status = status]

\* Where a call goes next.
Suspend(c, call) == calls' = [calls EXCEPT ![c] = call]
Return(c) == calls' = [calls EXCEPT ![c] = Finished]

IsNew(c) == calls[c] = NoCall /\ \A d \in 1..(c - 1) : calls[d] # NoCall
IsAt(c, op, place) == calls[c].op = op /\ calls[c].at = place

\* IdentityRegistry.updatePolicy.
updatePolicy(a, policy) ==
    /\ policies[a] # policy
    /\ policies' = [policies EXCEPT ![a] = policy]
    /\ UNCHANGED <<balances, objects, records, transactions, tick, calls>>

TimePasses ==
    /\ tick < LastTick
    /\ tick' = tick + 1
    /\ UNCHANGED <<balances, policies, objects, records, transactions, calls>>

=============================================================================
