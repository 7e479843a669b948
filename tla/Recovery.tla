------------------------------ MODULE Recovery ------------------------------
(***************************************************************************)
(* src/sdk/egc/RecoveryExecutionService.ts with the collector that makes   *)
(* its plans, beside purchases and marketplace sales of the same objects.  *)
(* One execution holds an object from before its first await to its end;   *)
(* what was executed is remembered by object, strategy and quantity.       *)
(***************************************************************************)
EXTENDS EconomicEngine, RecoveryPlanning, EtherTotals

CONSTANTS
    MaxPlans,      \* bound: the plans that are made
    Approvals,     \* whether the operator approves: callers say TRUE
    Prices,        \* amounts that purchases are made for
    Bought         \* bound: the objects that purchases are made of

ASSUME RecoveryAssumption ==
    /\ Approvals \subseteq BOOLEAN /\ Approvals # {}
    /\ MaxPlans \in Nat /\ Prices \subseteq Nat /\ Bought \subseteq Objects

VARIABLES
    listings,      \* the marketplace the local adapter keeps: call -> listing
    plans,         \* plan -> RecoveryPlan
    inFlight,      \* inFlightObjects
    executed,      \* executedIdempotencyKeys
    planOf         \* history: the call that pays for a plan -> the plan

planVars == <<goods, active, listings, plans, inFlight, executed, planOf>>
recoveryVars == <<storeVars, calls, settleVars, planVars>>

\* Plans are numbered in the order in which they are made.
Plans == 1..MaxPlans

NoPlan == [status |-> "NONE"]
Plan == [object : Objects, owner : AgentIds,
         strategy : Strategies \cup {"OTHER"},
         quantity : Nat, expected : Nat, buyer : AgentIds,
         status : {"PROPOSED", "EXECUTING", "EXECUTED", "REJECTED"}]

NoListing == [active |-> FALSE]
Listing == [object : Objects, seller : AgentIds, price : Nat,
            active : BOOLEAN]

RecoveryInit ==
    /\ StoreInit /\ SettlementInit
    /\ goods \in [Objects -> [consumed : {0}, value : {Milli * 10000}]]
    /\ active = Registered \ Late
    /\ listings = [c \in Calls |-> NoListing]
    /\ plans = [p \in Plans |-> NoPlan]
    /\ inFlight = {}
    /\ executed = {}
    /\ planOf = [c \in Calls |-> 0]

RecoveryTypeOK ==
    /\ StoreTypeOK /\ SettlementTypeOK
    /\ goods \in [Objects -> [consumed : Nat, value : Nat]]
    /\ active \subseteq Registered
    /\ listings \in [Calls -> {NoListing} \cup Listing]
    /\ plans \in [Plans -> {NoPlan} \cup Plan]
    /\ inFlight \subseteq Objects
    /\ executed \subseteq Objects \X Strategies \X Nat
    /\ planOf \in [Calls -> 0..MaxPlans]

-----------------------------------------------------------------------------
(* The marketplace of LocalSettlementAdapter: a recovery by sale leaves a  *)
(* listing in it, which anybody may buy.                                   *)

\* listEconomicObject: whoever asks, the seller is the object's owner.
CanList(o) == o \in Transferable /\ tick < Terms[o].expiry

listEconomicObject(c, call, place, o, price) ==
    /\ Await(c, call, place, CanList(o))
    /\ listings' = IF IsLocal /\ CanList(o)
                   THEN [listings EXCEPT ![c] =
                            [object |-> o, seller |-> objects[o].owner,
                             price |-> price, active |-> TRUE]]
                   ELSE listings

\* buyEconomicObject: the listing counts, and not who owns the object now.
buyEconomicObject(l, buyer) ==
    LET listing == listings[l]
    IN  /\ IsLocal
        /\ listing.active
        /\ balances[buyer] >= listing.price
        /\ listing.seller \in Registered
        /\ balances' = Shifted(Shifted(balances, buyer, -listing.price),
                               listing.seller,
                               listing.price
                               - Percent(listing.price, MarketplaceFeePercent))
        /\ UpdateObject(listing.object, "ACTIVE", buyer)
        /\ listings' = [listings EXCEPT ![l].active = FALSE]
        /\ UNCHANGED <<policies, records, transactions, tick, calls, goods,
                       active, settleVars>>

-----------------------------------------------------------------------------
(* The collector                                                           *)

\* scan: what is found stranded is marked.
scan(owners) ==
    LET found == {o \in Objects : objects[o].owner \in owners /\ IsStranded(o)}
    IN  /\ \E o \in found : objects[o].status # "STRANDED"
        /\ objects' = [o \in Objects |->
                          IF o \in found
                          THEN [objects[o] EXCEPT !.status = "STRANDED"]
                          ELSE objects[o]]
        /\ UNCHANGED <<balances, policies, records, transactions, tick, calls,
                       settleVars, planVars>>

\* plan: a proposal for an object, stranded or not, eligible or not; a buyer,
\* who is not the owner, is named in the proposal of a buyout only.
plan(p, o) ==
    LET owner == objects[o].owner
        best == Recommended(o)
    IN  /\ plans[p] = NoPlan /\ \A q \in 1..(p - 1) : plans[q] # NoPlan
        /\ owner \in Registered
        /\ \E buyer \in AgentIds :
              /\ IF best = "TRANSFER" THEN IsRichest(buyer, owner)
                                      ELSE buyer = owner
              /\ plans' = [plans EXCEPT ![p] =
                    [object |-> o, owner |-> owner,
                     strategy |-> best, quantity |-> Surplus(o),
                     expected |-> Valuation(o, best),
                     buyer |-> buyer, status |-> "PROPOSED"]]
        /\ UNCHANGED <<storeVars, calls, settleVars, goods, active, listings, inFlight,
                       executed, planOf>>

-----------------------------------------------------------------------------
(* Executing a plan                                                        *)

Key(p) == <<plans[p].object, plans[p].strategy, plans[p].quantity>>

SetPlan(p, status) == plans' = [plans EXCEPT ![p].status = status]

\* The lock on the object, held from before the first await to the end.
NeverLocked(p) == FALSE
Locked(p) == plans[p].object \in inFlight
Lock(p) == inFlight' = inFlight \cup {plans[p].object}
UnlockNever(p) == inFlight' = inFlight
Unlock(p) == inFlight' = inFlight \ {plans[p].object}

NeverDuplicate(p) == FALSE
IsDuplicate(p) == Key(p) \in executed
PaysFor(c, p) == planOf' = [planOf EXCEPT ![c] = p]
Remember(p) == executed' = executed \cup {Key(p)}

\* Refused by the lock, with an error, or as a duplicate, with a success.
Declined(c, p) ==
    /\ IsNew(c)
    /\ plans[p] # NoPlan
    /\ Locked(p) \/ IsDuplicate(p)
    /\ Return(c)
    /\ UNCHANGED <<storeVars, settleVars, planVars>>

Starts(c, p) ==
    /\ IsNew(c)
    /\ plans[p] # NoPlan
    /\ ~Locked(p) /\ ~IsDuplicate(p)

\* Eligibility is looked at again, with the plan's owner, but not for keeping;
\* an operator's approval overrides the policy.
Permitted(p, approved) ==
    LET it == plans[p]
    IN  /\ it.strategy = "KEEP" \/ IsEligible(it.object, it.owner)
        /\ approved \/ validateRecovery(it.owner, it.strategy, it.expected) = {}

RejectPlan(c, p, approved) ==
    /\ Starts(c, p) /\ ~Permitted(p, approved)
    /\ SetPlan(p, "REJECTED")
    /\ Return(c)
    /\ UNCHANGED <<storeVars, settleVars, goods, active, listings, inFlight,
                   executed,
                   planOf>>

\* What the object allows: the strategy may not be the collector's.
Allows(p) ==
    LET it == plans[p]
    IN  \/ it.strategy = "KEEP"
        \/ it.strategy = "SELL" /\ CanBeSold(it.object)
        \/ it.strategy = "TRANSFER" /\ CanMove(it.object)
                                    /\ it.buyer # it.owner
        \/ it.strategy = "REFUND" /\ CanBeRefunded(it.object)

Runs(c, p, approved, strategy) ==
    /\ Starts(c, p) /\ Permitted(p, approved)
    /\ plans[p].strategy = strategy /\ Allows(p)

\* The error leaves a plan that is executing, without a lock.  The collector
\* proposes what the object allows; this is for strategies of others.
Abandon(c, p, approved) ==
    /\ Starts(c, p) /\ Permitted(p, approved) /\ ~Allows(p)
    /\ SetPlan(p, "EXECUTING")
    /\ Return(c)
    /\ UNCHANGED <<storeVars, settleVars, goods, active, listings, inFlight,
                   executed, planOf>>

ExecuteKeep(c, p, approved) ==
    /\ Runs(c, p, approved, "KEEP")
    /\ UpdateObject(plans[p].object, "ACTIVE", objects[plans[p].object].owner)
    /\ SetPlan(p, "EXECUTED") /\ Remember(p)
    /\ Return(c)
    /\ UNCHANGED <<balances, policies, records, transactions, tick, settleVars,
                   goods, active, listings, inFlight, planOf>>

ExecuteRefund(c, p, approved) ==
    LET it == plans[p]
    IN  /\ Runs(c, p, approved, "REFUND")
        /\ balances' = Shifted(balances, it.owner,
                               AfterRecoveryFee(it.expected))
        /\ UpdateObject(it.object, "RECOVERED", objects[it.object].owner)
        /\ SetPlan(p, "EXECUTED") /\ Remember(p)
        /\ payments' = [payments EXCEPT ![c] = @ + 1]
        /\ PaysFor(c, p)
        /\ Return(c)
        /\ UNCHANGED <<policies, records, transactions, tick, adapter,
                       switches, chainEscrows, chainOwner, releases,
                       goods, active, listings, inFlight>>

\* An execution that is suspended keeps the lock.
recoverCall(p) ==
    [op |-> "recover", at |-> "start", result |-> "none", plan |-> p,
     object |-> plans[p].object, whom |-> plans[p].buyer]

StartListing(c, p, approved) ==
    /\ Runs(c, p, approved, "SELL")
    /\ SetPlan(p, "EXECUTING") /\ Lock(p)
    /\ listEconomicObject(c, recoverCall(p), "listing", plans[p].object,
                          plans[p].expected)
    /\ UNCHANGED <<storeVars, settleVars, goods, active, executed, planOf>>

\* Payment first.
StartBuyout(c, p, approved) ==
    LET it == plans[p]
    IN  /\ Runs(c, p, approved, "TRANSFER")
        /\ SetPlan(p, "EXECUTING") /\ Lock(p) /\ PaysFor(c, p)
        /\ transfer(c, recoverCall(p), "paying", it.buyer, it.owner,
                    AfterRecoveryFee(it.expected))
        /\ UNCHANGED <<policies, objects, records, transactions, tick, adapter,
                       switches, chainEscrows, chainOwner, releases,
                       goods, active, listings, executed>>

executePlan(c, p, approved) ==
    \/ Declined(c, p)
    \/ RejectPlan(c, p, approved)
    \/ ExecuteKeep(c, p, approved)
    \/ ExecuteRefund(c, p, approved)
    \/ StartListing(c, p, approved)
    \/ StartBuyout(c, p, approved)

\* The suspended execution of a plan has its answer.
IsRecovering(c, place) == IsAt(c, "recover", place) /\ Answered(c)
Taken(c) == TRUE
Succeeded(c) == calls[c].result = "ok"

\* A request failed: the plan is rejected, whatever was done before.
RecoveryFails(c) ==
    /\ \E place \in {"listing", "paying", "moving"} : IsRecovering(c, place)
    /\ ~Succeeded(c)
    /\ SetPlan(calls[c].plan, "REJECTED") /\ Unlock(calls[c].plan)
    /\ Return(c)
    /\ UNCHANGED <<storeVars, settleVars, goods, active, listings, executed, planOf>>

FinishListing(c) ==
    LET p == calls[c].plan o == calls[c].object
    IN  /\ IsRecovering(c, "listing") /\ Succeeded(c)
        /\ UpdateObject(o, "STRANDED", objects[o].owner)
        /\ SetPlan(p, "EXECUTED") /\ Remember(p) /\ Unlock(p)
        /\ Return(c)
        /\ UNCHANGED <<balances, policies, records, transactions, tick,
                       settleVars, goods, active, listings, planOf>>

\* Paid: now the object is asked for.
ContinueBuyout(c) ==
    LET it == plans[calls[c].plan]
    IN  /\ IsRecovering(c, "paying") /\ Succeeded(c)
        /\ transferEconomicObject(c, calls[c], "moving", it.object, it.owner,
                                  it.buyer)
        /\ UNCHANGED <<balances, policies, records, transactions, tick,
                       settleVars, planVars>>

\* Had: the store's object becomes the buyer's, unused, at the price paid.
FinishBuyout(c) ==
    LET p == calls[c].plan it == plans[p]
    IN  /\ IsRecovering(c, "moving") /\ Succeeded(c)
        /\ UpdateObject(it.object, "ACTIVE", it.buyer)
        /\ goods' = [goods EXCEPT ![it.object] =
                        [consumed |-> 0,
                         value |-> AfterRecoveryFee(it.expected)]]
        /\ SetPlan(p, "EXECUTED") /\ Remember(p) /\ Unlock(p)
        /\ Return(c)
        /\ UNCHANGED <<balances, policies, records, transactions, tick,
                       settleVars, active, listings, planOf>>

RecoveryResumes(c) ==
    RecoveryFails(c) \/ FinishListing(c) \/ ContinueBuyout(c) \/ FinishBuyout(c)

-----------------------------------------------------------------------------
(* Composition                                                             *)

\* Somebody buys an object from its owner at an agreed price.
Purchase(c) ==
    \E buyer \in Registered, o \in Bought, price \in Prices :
        buyer # objects[o].owner /\ buy(c, buyer, objects[o].owner, o, price)

\* IdentityRegistry.setActive, of an agent that was inactive.
setActive(a) ==
    /\ a \notin active
    /\ active' = active \cup {a}
    /\ UNCHANGED <<storeVars, calls, settleVars, goods, listings, plans,
                   inFlight, executed, planOf>>

Resumes(c) == \/ RecoveryResumes(c)
              \/ BuyResumes(c) /\ UNCHANGED planVars

RecoveryNext ==
    \/ \E owners \in {{a} : a \in Registered} \cup {AgentIds} : scan(owners)
    \/ \E p \in Plans, o \in Objects : plan(p, o)
    \/ \E c \in Calls, p \in Plans, approved \in Approvals :
          executePlan(c, p, approved)
    \/ \E c \in Calls : Resumes(c)
    \/ \E a \in Registered : setActive(a)
    \/ \E l \in Calls, buyer \in Registered :
          /\ buyEconomicObject(l, buyer)
          /\ UNCHANGED <<plans, inFlight, executed, planOf>>
    \/ /\ UNCHANGED planVars
       /\ \/ \E c \in Calls : Purchase(c) \/ Mined(c) \/ NotMined(c)
          \/ setSettlementAdapter
          \/ TimePasses /\ UNCHANGED settleVars

\* What was answered goes on.  Nobody is bound to answer: a wallet's prompt has
\* no timeout (MonadSettlementAdapter.ts:174, :484, :563).
RecoverySpec ==
    /\ RecoveryInit /\ [][RecoveryNext]_recoveryVars
    /\ \A c \in Calls : WF_recoveryVars(Resumes(c))

-----------------------------------------------------------------------------
(* Properties                                                              *)

\* Two executions never work on one object at a time, and the objects that are
\* locked are those of the suspended executions: the guard is taken before the
\* first await and given back on every way out
\* (RecoveryExecutionService.ts:46-68, :330).
Executing == {c \in Calls : calls[c].op = "recover"}
OneAtATime ==
    /\ inFlight = {calls[c].object : c \in Executing}
    /\ \A c, d \in Executing : calls[c].object = calls[d].object => c = d

\* How often somebody was paid for a plan.
Recovered(p) ==
    Total([c \in Calls |-> IF planOf[c] = p THEN payments[c] ELSE 0])

\* However often its plan is handed in, and whatever is bought and sold in
\* between, what is reported as executed was recovered: a refund credited
\* once, a buyout paid, nothing for the rest
\* (RecoveryExecutionService.ts:51-66, :211-224, :294).
RecoveredAsReported ==
    \A p \in Plans :
        plans[p].status = "EXECUTED" =>
            CASE plans[p].strategy \in {"KEEP", "SELL"} -> Recovered(p) = 0
              [] plans[p].strategy = "REFUND" -> Recovered(p) = 1
              [] plans[p].strategy = "TRANSFER" -> Recovered(p) >= 1

\* Of two plans for the same object, strategy and quantity only one is ever
\* executed, also when both are handed in at once
\* (RecoveryExecutionService.ts:51-53, :115, :165, :252, :302).
ExecutedOnce ==
    \A p, q \in Plans :
        /\ plans[p].status = "EXECUTED" /\ plans[q].status = "EXECUTED"
        /\ Key(p) = Key(q)
        => p = q

\* The wallet is asked for the object's sake and has not answered.
AwaitsWallet(o) ==
    \E c \in Executing : calls[c].object = o /\ calls[c].result = "sent"

\* A lock that is never given back is one whose wallet never answers: no refusal,
\* failure or return between the guard and the end keeps an object locked
\* (RecoveryExecutionService.ts:46-68, :330).
LocksAreFreed ==
    \A o \in Objects : <>[](o \in inFlight) => <>[]AwaitsWallet(o)

=============================================================================
