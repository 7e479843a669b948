--------------------------- MODULE GatedExecution ---------------------------
(***************************************************************************)
(* The two executors of agents' payments on the chain:                     *)
(* executeMetaMaskGatedTransaction and executeDynamicGatedTransaction.     *)
(* Each asks the policy, awaits a wallet that signs, sends and waits for   *)
(* the receipt, and only then takes the amount from the agent's balance    *)
(* and records the transaction.  Meanwhile the rest of the SDK moves the    *)
(* same balances, and the operator edits the policies.                     *)
(***************************************************************************)
EXTENDS PolicyEngine, DynamicWallet

CONSTANTS
    Amounts,       \* amounts of intents, in 0.00001 MON
    Capable,       \* agents with the capability canPurchaseServices
    OnMonad        \* wallets whose chain id Dynamic gives as Monad's

ASSUME ExecutionAssumption ==
    /\ Amounts \subseteq Nat
    /\ Capable \subseteq Registered /\ OnMonad \subseteq Wallets

VARIABLES
    metaMask,      \* what MetaMaskAgentWalletAdapter has connected to
    sent,          \* history: execution -> what became of its transaction
    moved,         \* history: agent -> what all other calls did to its balance
    overtaken      \* history: executions during which other money of the
                   \* agent moved, or its policy was edited

historyVars == <<moved, overtaken>>
executionVars == <<balances, policies, objects, records, transactions, tick,
                   calls, walletVars, metaMask, sent, historyVars>>

\* "bare" is the page's provider: an address, but no account to sign with.
Connections == {"starting", "signing", "bare", "simulation"}
Recipients == {"valid", "malicious", "no address"}
Executors == {"metaMask", "dynamic"}

ExecutionInit ==
    /\ StoreInit /\ WalletInit
    /\ metaMask \in {"starting", "signing", "simulation"}
    /\ sent = [c \in Calls |-> "nothing"]
    /\ moved = [a \in Registered |-> 0] /\ overtaken = {}

\* initializeFromConfig has asked the page's provider for its accounts.
initializeFromConfig ==
    /\ metaMask = "starting"
    /\ metaMask' \in {"bare", "simulation"}
    /\ UNCHANGED <<balances, policies, objects, records, transactions, tick,
                   calls, walletVars, sent, historyVars>>

-----------------------------------------------------------------------------
(* Up to the wallet                                                        *)

execution(executor, agent, amount, wallet) ==
    [op |-> executor, at |-> "start", result |-> "none", agent |-> agent,
     amount |-> amount, wallet |-> wallet]

IsRunning(c) == calls[c].op \in Executors
UnderWay(a) == {c \in Calls : IsRunning(c) /\ calls[c].agent = a}

\* Nothing was asked of the wallet.
Halt(c) == Return(c) /\ UNCHANGED sent

Send(c, call) ==
    /\ Suspend(c, [call EXCEPT !.at = "sending", !.result = "sent"])
    /\ sent' = [sent EXCEPT ![c] = "pending"]

\* signAndSubmitAuthorizedTransaction: simulation, threat scan, and a
\* transaction if there is an account; else a made-up hash and success.
signAndSubmit(c, call) ==
    \/ metaMask = "signing" /\ Send(c, call)
    \/ /\ metaMask \in {"bare", "simulation"}
       /\ Suspend(c, [call EXCEPT !.at = "sending", !.result = "ok"])
       /\ sent' = [sent EXCEPT ![c] = "simulated"]
    \/ metaMask = "starting" /\ Halt(c)

\* What halts executeMetaMaskGatedTransaction: a malformed intent, a treasury
\* that is too small, the policy, or a review nobody has given.
Halts(agent, amount, recipient, category, autoApproveReview) ==
    \/ recipient = "no address" \/ amount = 0
    \/ agent \notin Registered
    \/ balances[agent] < amount
    \/ validateTransaction(agent, amount, category) # {}
    \/ /\ requiresManualApproval(agent, amount, FALSE)
       /\ ~autoApproveReview

executeMetaMask(c, agent, amount, recipient, category, autoApproveReview) ==
    /\ IsNew(c)
    /\ IF Halts(agent, amount, recipient, category, autoApproveReview)
          \/ recipient = "malicious"
       THEN Halt(c)
       ELSE signAndSubmit(c, execution("metaMask", agent, amount, NoWallet))
    /\ UNCHANGED <<balances, policies, objects, records, transactions, tick,
                   walletVars, metaMask, historyVars>>

\* AgentRuntime.executeEconomicTransaction: the capability first; the card of
\* the wallet asks nobody.
executeEconomicTransaction(c, agent, amount, recipient, category) ==
    /\ agent \in Capable
    /\ executeMetaMask(c, agent, amount, recipient, category, FALSE)

\* executeDynamicGatedTransaction: policy, connected wallet, its chain; then
\* the client that is kept, or a new one.
executeDynamic(c, agent, amount, category) ==
    LET call == execution("dynamic", agent, amount, activeWallet)
    IN  /\ IsNew(c)
        /\ \/ /\ \/ validateTransaction(agent, amount, category) # {}
                 \/ activeWallet \notin OnMonad
                 \/ walletClient = NoWallet /\ activeWallet \notin Connecting
              /\ Halt(c)
           \/ /\ validateTransaction(agent, amount, category) = {}
              /\ activeWallet \in OnMonad
              /\ \/ /\ walletClient # NoWallet
                    /\ Send(c, call)
                 \/ /\ walletClient = NoWallet /\ activeWallet \in Connecting
                    /\ Suspend(c, [call EXCEPT !.at = "opening"])
                    /\ UNCHANGED sent
        /\ UNCHANGED <<balances, policies, objects, records, transactions,
                       tick, walletVars, metaMask, historyVars>>

\* getWalletClient of sendTransaction is answered: the client is kept, also
\* if the wallet is gone by now.
DynamicOpened(c) ==
    LET call == calls[c]
    IN  /\ IsAt(c, "dynamic", "opening")
        /\ \/ /\ walletClient' = call.wallet
              /\ Suspend(c, [call EXCEPT !.at = "sending", !.result = "sent"])
              /\ sent' = [sent EXCEPT ![c] = "pending"]
           \/ /\ Return(c)
              /\ UNCHANGED <<walletClient, sent>>
        /\ UNCHANGED <<balances, policies, objects, records, transactions,
                       tick, activeWallet, openings, opened, metaMask,
                       historyVars>>

-----------------------------------------------------------------------------
(* The wallet's answer                                                     *)

\* The wallet refuses, the transaction reverts, or it is mined: and then the
\* wait for its receipt may still end in an error.
Answer(c) ==
    /\ IsRunning(c) /\ calls[c].result = "sent"
    /\ \E fate \in {"mined", "lost"}, result \in {"ok", "failed"} :
          /\ result = "ok" => fate = "mined"
          /\ sent' = [sent EXCEPT ![c] = fate]
          /\ calls' = [calls EXCEPT ![c].result = result]
    /\ UNCHANGED <<balances, policies, objects, records, transactions, tick,
                   walletVars, metaMask, historyVars>>

ExecutionFails(c) ==
    /\ IsRunning(c) /\ calls[c].result = "failed"
    /\ Return(c)
    /\ UNCHANGED <<balances, policies, objects, records, transactions, tick,
                   walletVars, metaMask, sent, historyVars>>

\* The treasury is debited, by whatever it holds now; what is left is rounded.
Debit(call) == Shifted(balances, call.agent, -call.amount)

SucceededAnyway(c) == IsRunning(c) /\ calls[c].result \in {"ok", "failed"}
Succeeded(c) == IsRunning(c) /\ calls[c].result = "ok"

\* The other executions of the agent no longer find what they checked.
Overtakes(a) == overtaken' = overtaken \cup UnderWay(a)

ExecutionSettles(c) ==
    LET call == calls[c]
    IN  /\ Succeeded(c)
        /\ balances' = Debit(call)
        /\ transactions' = [transactions EXCEPT ![c] =
              [buyer |-> call.agent, amount |-> call.amount,
               day |-> Today(tick), status |-> "SETTLED"]]
        /\ Return(c)
        /\ overtaken' = overtaken \cup (UnderWay(call.agent) \ {c})
        /\ UNCHANGED <<policies, objects, records, tick, walletVars, metaMask,
                       sent, moved>>

Execute(c) ==
    \E agent \in AgentIds, amount \in Amounts,
       category \in Objects \cup {Uncategorised} :
        \/ executeDynamic(c, agent, amount, category)
        \/ \E recipient \in Recipients :
              \/ executeEconomicTransaction(c, agent, amount, recipient,
                                            category)
              \/ \E approve \in BOOLEAN :
                    executeMetaMask(c, agent, amount, recipient, category,
                                    approve)

ExecutionGoesOn(c) ==
    DynamicOpened(c) \/ Answer(c) \/ ExecutionFails(c) \/ ExecutionSettles(c)

-----------------------------------------------------------------------------
(* The rest of the SDK, as far as the treasuries see it                    *)

\* What other calls leave of a balance; the settlement on the chain moves
\* none of it.
MovesTo(a, ledger) ==
    /\ balances' = ledger
    /\ moved' = [moved EXCEPT ![a] = @ + (ledger[a] - balances[a])]

\* The local settlement takes what is there: escrows are locked, listings are
\* bought; and it adds what is sold, released, refunded or recovered.
moveBalance(c, a, amount) ==
    /\ IsNew(c) /\ Return(c)
    /\ \/ balances[a] >= amount /\ MovesTo(a, Shifted(balances, a, -amount))
       \/ MovesTo(a, Shifted(balances, a, amount))
    /\ Overtakes(a)
    /\ sent' = [sent EXCEPT ![c] = "elsewhere"]
    /\ UNCHANGED <<policies, objects, records, transactions, tick, walletVars,
                   metaMask>>

\* EconomicEngine.buy: the policy, a pending transaction, the payment.
buy(c, a, amount, object) ==
    /\ IsNew(c)
    /\ validateTransaction(a, amount, object) = {}
    /\ \/ balances[a] >= amount /\ MovesTo(a, Shifted(balances, a, -amount))
       \/ UNCHANGED <<balances, moved>>
    /\ Suspend(c, [op |-> "buy", at |-> "paying", agent |-> a])
    /\ transactions' = [transactions EXCEPT ![c] =
          [buyer |-> a, amount |-> amount, day |-> Today(tick),
           status |-> "PENDING"]]
    /\ Overtakes(a)
    /\ sent' = [sent EXCEPT ![c] = "elsewhere"]
    /\ UNCHANGED <<policies, objects, records, tick, walletVars, metaMask>>

\* The payment of a purchase, and its object, are answered.
BuyEnds(c) ==
    /\ IsAt(c, "buy", "paying")
    /\ SetStatus(c, "SETTLED") \/ SetStatus(c, "FAILED")
    /\ Return(c)
    /\ Overtakes(calls[c].agent)
    /\ UNCHANGED <<balances, policies, objects, records, tick, walletVars,
                   metaMask, sent, moved>>

\* handleUpdatePolicy of the page.
handleUpdatePolicy(a, policy) ==
    /\ updatePolicy(a, policy)
    /\ Overtakes(a)
    /\ UNCHANGED <<walletVars, metaMask, sent, moved>>

RestOfSDK ==
    \E a \in Registered :
        \/ \E policy \in Policies : handleUpdatePolicy(a, policy)
        \/ \E c \in Calls, amount \in Amounts :
              \/ moveBalance(c, a, amount)
              \/ \E object \in Objects : buy(c, a, amount, object)

ExecutionNext ==
    \/ \E c \in Calls : Execute(c) \/ ExecutionGoesOn(c) \/ BuyEnds(c)
    \/ RestOfSDK
    \/ initializeFromConfig
    \/ /\ WalletStep
       /\ UNCHANGED <<balances, policies, objects, records, transactions, tick,
                      calls, metaMask, sent, historyVars>>
    \/ TimePasses /\ UNCHANGED <<walletVars, metaMask, sent, historyVars>>

ExecutionSpec == ExecutionInit /\ [][ExecutionNext]_executionVars

-----------------------------------------------------------------------------
(* Properties                                                              *)

\* The transactions of an agent that its executions settled.
Paid(a) == {c \in Calls : /\ transactions[c].status = "SETTLED"
                          /\ transactions[c].buyer = a
                          /\ sent[c] # "elsewhere"}
AmountOf(transaction) == transaction.amount
Sum(purchases) ==
    LET amount(c) == AmountOf(transactions[c])
    IN  MapThenSumSet(amount, purchases)

\* The treasury and the transactions of an agent tell one story, up to the
\* rounding: whatever overlaps, fails or is answered late, the balance is what
\* the agent was given, with what the rest of the SDK moved, less what its
\* executions settled, and each of those is off by half a milli-MON at most,
\* however small it is; and it was mined, or made up by a wallet without an
\* account (policyGatedExecutor.ts:155-191, dynamicPolicyExecutor.ts:76-103,
\* store.ts:102).
Drift(a) == balances[a] - (Endowment[a] + moved[a] - Sum(Paid(a)))
BooksBalance ==
    \A a \in Registered :
        /\ \A c \in Paid(a) : sent[c] \in {"mined", "simulated"}
        /\ LET most == (Milli \div 2) * Cardinality(Paid(a))
           IN  -most <= Drift(a) /\ Drift(a) <= most

\* An execution that settles leaves its agent within the limits that are in
\* force by then, the reserve up to the rounding, also if midnight passes
\* between the check and the debit, unless it was overtaken: while it awaited
\* its wallet another payment of the agent was made, money of it was moved, or
\* its policy was edited.  Nothing else breaks the limits
\* (policyGatedExecutor.ts:85, :173; dynamicPolicyExecutor.ts:37, :88;
\* App.tsx:157).
WithinLimits(a) ==
    /\ balances[a] + Milli \div 2 >= policies[a].minRetainedBalance
    /\ dailySpent(a) <= policies[a].dailySpendingLimit
SettlesFor(c, a) ==
    /\ IsRunning(c) /\ calls[c].agent = a
    /\ transactions'[c].status = "SETTLED"
LimitsUnlessOvertaken ==
    [][\A c \in Calls \ overtaken, a \in Registered :
          SettlesFor(c, a) => WithinLimits(a)']_executionVars

=============================================================================
