---------------------------- MODULE PolicyEngine ----------------------------
(***************************************************************************)
(* src/sdk/policy.ts: what an agent's policy says of a payment or of a     *)
(* recovery.  Both questions only read the store; the answers are the      *)
(* names of the rules that are violated.                                   *)
(***************************************************************************)
EXTENDS EconomicStore, FiniteSetsExt

\* The part of the daily limit that is used up: purchases the store has as
\* settled, created since midnight.
SettledToday(a) == {c \in Calls : /\ transactions[c].status = "SETTLED"
                                  /\ transactions[c].buyer = a
                                  /\ transactions[c].day = Today(tick)}

dailySpent(a) ==
    LET amount(c) == transactions[c].amount
    IN  MapThenSumSet(amount, SettledToday(a))

Uncategorised == "uncategorised"

\* The floor: what must be left to the agent after the payment.
LeavesSomething(a, amount) == balances[a] >= policies[a].minRetainedBalance
LeavesReserve(a, amount) ==
    balances[a] - amount >= policies[a].minRetainedBalance

\* validateTransaction: the category of a payment is that of the object that
\* is bought; a payment may have none.
validateTransaction(a, amount, object) ==
    IF a \notin Registered THEN {"AGENT_NOT_FOUND"}
    ELSE LET policy == policies[a]
             rules ==
               [MIN_RETAINED_BALANCE |-> ~LeavesReserve(a, amount),
                MAX_TRANSACTION_LIMIT |-> amount > policy.maxPerTransaction,
                DAILY_SPENDING_LIMIT |->
                    dailySpent(a) + amount > policy.dailySpendingLimit,
                CATEGORY_RESTRICTION |->
                    object \notin policy.allowedObjects \cup {Uncategorised}]
         IN  {rule \in DOMAIN rules : rules[rule]}

\* The answer to a caller that asks whether somebody must approve first: large
\* payments, and those to a counterparty Nansen has an exploit label for.
requiresManualApproval(a, amount, flagged) ==
    flagged \/ amount > policies[a].requireApprovalAbove

\* validateRecovery.
validateRecovery(owner, strategy, expected) ==
    IF owner \notin Registered THEN {"AGENT_NOT_FOUND"}
    ELSE LET policy == policies[owner]
             rules ==
               [AUTO_RECOVERY_DISABLED |-> ~policy.autoRecoveryEnabled,
                AUTO_TRANSFER_DISABLED |->
                    strategy = "TRANSFER" /\ ~policy.autoTransferEnabled,
                APPROVAL_THRESHOLD_EXCEEDED |->
                    /\ policy.requireApprovalAbove > 0
                    /\ expected > policy.requireApprovalAbove]
         IN  {rule \in DOMAIN rules : rules[rule]}

=============================================================================
