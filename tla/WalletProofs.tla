---------------------------- MODULE WalletProofs ----------------------------
(***************************************************************************)
(* Proofs about the wallets, for any credentials, wallets, agents, amounts *)
(* and policies, and any number of ceremonies and executions: who controls *)
(* the application and signs for it, and what the two executors of agents' *)
(* payments do to the books.                                               *)
(***************************************************************************)
EXTENDS GatedExecution, Session, EtherTotals

-----------------------------------------------------------------------------
(* Sessions.  The identities that the manager and the builder have were    *)
(* all made by a ceremony, and what was made stays: that is the inductive  *)
(* invariant behind AgentsAreFounded; the other two are inductive          *)
(* themselves.                                                             *)

IdentitiesOK ==
    /\ credentialOf \in [Identities -> Credentials \cup {Nobody}]
    /\ DOMAIN registrations = 1..MaxPublications
    /\ activeIdentity \in {NoIdentity} \cup Made
    /\ builderIdentity \in {NoIdentity} \cup Made

ControlInv ==
    IdentitiesOK /\ OnlyActiveSessionLives /\ LocalModeIsLocal /\ AgentsAreFounded

LEMMA ControlInit == SessionInit => ControlInv
BY DEF SessionInit, ControlInv, IdentitiesOK, OnlyActiveSessionLives,
   LocalModeIsLocal, AgentsAreFounded

LEMMA SessionsStay ==
    ASSUME ControlInv, UNCHANGED viewVars, UNCHANGED meraVars
    PROVE  IdentitiesOK' /\ OnlyActiveSessionLives' /\ AgentsAreFounded'
BY DEF viewVars, meraVars, ControlInv, IdentitiesOK, OnlyActiveSessionLives,
   AgentsAreFounded, Made, Passkeys

\* Steps of wallets and of the settlement switch.
LEMMA AdapterSteps ==
    ASSUME ControlInv, UNCHANGED viewVars, UNCHANGED meraVars,
           \/ UNCHANGED <<mode, adapter>>
           \/ mode' = "MONAD_TESTNET"
           \/ adapter' = "local"
    PROVE  ControlInv'
<1>1. LocalModeIsLocal'
    BY DEF ControlInv, LocalModeIsLocal
<1>2. QED
    BY <1>1, SessionsStay DEF ControlInv

\* Steps that leave the sessions and the adapter, but not what the views have.
LEMMA ViewSteps ==
    ASSUME ControlInv, UNCHANGED meraVars,
           builderIdentity' \in {NoIdentity} \cup Made,
           DOMAIN registrations' = 1..MaxPublications,
           AgentsAreFounded',
           UNCHANGED <<mode, adapter>> \/ mode' = "MONAD_TESTNET"
    PROVE  ControlInv'
<1>1. LocalModeIsLocal'
    BY DEF ControlInv, LocalModeIsLocal
<1>2. IdentitiesOK' /\ OnlyActiveSessionLives'
    BY DEF meraVars, ControlInv, IdentitiesOK, OnlyActiveSessionLives, Made
<1>3. QED
    BY <1>1, <1>2 DEF ControlInv

LEMMA CeremonyKeeps ==
    ASSUME ControlInv, NEW n \in Identities, NEW credential \in Credentials,
           CeremonySucceeds(n, credential)
    PROVE  ControlInv'
<1>1. /\ n \notin Made /\ credential # Nobody
      /\ activeIdentity' = n
      /\ live' = (live \ {activeIdentity}) \cup {n}
      /\ credentialOf' = [credentialOf EXCEPT ![n] = credential]
      /\ mode' = "MONAD_TESTNET"
      /\ builderIdentity' \in {n, builderIdentity}
      /\ agents' \in {agents, agents \cup {PasskeyAgent(credential)}}
      /\ UNCHANGED registrations
    BY SessionAssumption
       DEF CeremonySucceeds, setActiveIdentity, SignWithSession
<1>2. /\ credentialOf' \in [Identities -> Credentials \cup {Nobody}]
      /\ credentialOf'[n] = credential
      /\ \A k \in Made : credentialOf'[k] = credentialOf[k]
    BY <1>1 DEF ControlInv, IdentitiesOK, Made
<1>3. Made \cup {n} \subseteq Made'
    BY <1>1, <1>2 DEF Made
<1>4. IdentitiesOK'
    BY <1>1, <1>2, <1>3 DEF ControlInv, IdentitiesOK
<1>5. Passkeys \cup {credential} \subseteq Passkeys'
    BY <1>2, <1>3 DEF Passkeys
<1>6. AgentsAreFounded'
    BY <1>1, <1>5 DEF ControlInv, AgentsAreFounded, PasskeyAgent
<1>7. OnlyActiveSessionLives' /\ LocalModeIsLocal'
    BY <1>1 DEF ControlInv, OnlyActiveSessionLives, LocalModeIsLocal
<1>8. QED
    BY <1>4, <1>6, <1>7 DEF ControlInv

\* A registration that is mined stays so.
LEMMA RegistrationKeeps ==
    ASSUME ControlInv, NEW n \in 1..MaxPublications, writeContract(n) \/ Published(n)
    PROVE  ControlInv'
<1>1. \E fate, receipt :
          /\ registrations[n] # "mined"
          /\ registrations' = [registrations EXCEPT ![n] = fate]
          /\ agents' = IF ReceiptSays(fate, receipt)
                       THEN agents \cup {[from |-> "registry", which |-> n]}
                       ELSE agents
    <2>1. CASE writeContract(n)
        <3>1. ~ReceiptSays("sent", FALSE)
            BY DEF ReceiptSays
        <3>2. QED
            BY <2>1, <3>1 DEF writeContract
    <2>2. CASE Published(n)
        BY <2>2 DEF Published
    <2>3. QED
        BY <2>1, <2>2
<1>2. PICK fate, receipt :
          /\ registrations[n] # "mined"
          /\ registrations' = [registrations EXCEPT ![n] = fate]
          /\ agents' = IF ReceiptSays(fate, receipt)
                       THEN agents \cup {[from |-> "registry", which |-> n]}
                       ELSE agents
    BY <1>1
<1>3. UNCHANGED <<builderIdentity, meraVars, appVars>>
    BY DEF writeContract, Published
<1>4. /\ DOMAIN registrations' = 1..MaxPublications
      /\ registrations'[n] = fate
      /\ \A k : registrations[k] = "mined" /\ k \in 1..MaxPublications =>
                    registrations'[k] = "mined"
    BY <1>2 DEF ControlInv, IdentitiesOK
<1>5. Passkeys' = Passkeys
    BY <1>3 DEF Passkeys, Made, meraVars
<1>6. AgentsAreFounded'
    <2>1. ASSUME NEW agent \in agents'
          PROVE  /\ agent.from = "passkey" => agent.which \in Passkeys
                 /\ agent.from = "registry" => registrations'[agent.which] = "mined"
        <3>1. CASE agent \in agents
            BY <1>2, <1>4, <3>1 DEF ControlInv, AgentsAreFounded
        <3>2. CASE agent \notin agents
            <4>1. ReceiptSays(fate, receipt) /\ agent = [from |-> "registry", which |-> n]
                BY <1>2, <2>1, <3>2
            <4>2. QED
                BY <1>4, <4>1 DEF ReceiptSays
        <3>3. QED
            BY <3>1, <3>2
    <2>2. QED
        BY <1>5, <2>1 DEF AgentsAreFounded
<1>7. QED
    BY <1>3, <1>4, <1>6, ViewSteps DEF ControlInv, IdentitiesOK, appVars

LEMMA ControlStep == ControlInv /\ [SessionNext]_sessionVars => ControlInv'
<1> SUFFICES ASSUME ControlInv, [SessionNext]_sessionVars PROVE ControlInv'
    OBVIOUS
<1>1. CASE UNCHANGED sessionVars
    BY <1>1, AdapterSteps DEF sessionVars, appVars
<1>2. ASSUME NEW to, handleToggleSettlement(to) PROVE ControlInv'
    <2>1. mode' = to /\ (to # "MONAD_TESTNET" => adapter' = "local")
        BY <1>2 DEF handleToggleSettlement
    <2>2. QED
        BY <1>2, <2>1, AdapterSteps DEF handleToggleSettlement
<1>3. CASE ControllerConnects
    BY <1>3, AdapterSteps DEF ControllerConnects
<1>4. ASSUME NEW wallet, NEW client, Notified(wallet, client)
      PROVE  UNCHANGED <<mode, adapter>> \/ mode' = "MONAD_TESTNET"
    BY <1>4 DEF Notified
<1>5. ASSUME NEW w \in Wallets, WalletConnects(w) PROVE ControlInv'
    BY <1>4, <1>5, AdapterSteps DEF WalletConnects, appVars
<1>6. ASSUME NEW w \in Wallets, ClientAnswered(w) PROVE ControlInv'
    BY <1>6, AdapterSteps DEF ClientAnswered
<1>7. ASSUME NEW n \in Openings, WalletReady(n) PROVE ControlInv'
    BY <1>4, <1>7, AdapterSteps DEF WalletReady
<1>8. CASE handleDisconnectDynamic
    BY <1>8, AdapterSteps DEF handleDisconnectDynamic, appVars
<1>9. CASE Cancelled \/ \E kind \in Ceremonies : Prompt(kind)
    <2>1. UNCHANGED <<activeIdentity, live, credentialOf, appVars, viewVars>>
        BY <1>9 DEF Cancelled, Prompt
    <2>2. QED
        BY <2>1 DEF appVars, viewVars, ControlInv, IdentitiesOK, Made, Passkeys,
           OnlyActiveSessionLives, LocalModeIsLocal, AgentsAreFounded
<1>10. CASE handleDisconnectPasskey
    <2>1. /\ live' = live \ {activeIdentity} /\ activeIdentity' = NoIdentity
          /\ UNCHANGED <<credentialOf, appVars, viewVars>>
        BY <1>10 DEF handleDisconnectPasskey
    <2>2. QED
        BY <2>1 DEF appVars, viewVars, ControlInv, IdentitiesOK, Made, Passkeys,
           OnlyActiveSessionLives, LocalModeIsLocal, AgentsAreFounded
<1>11. CASE OpenBuilder
    BY <1>11, ViewSteps DEF OpenBuilder, appVars, meraVars, ControlInv,
       IdentitiesOK, AgentsAreFounded, Passkeys, Made
<1>12. CASE CreatePasskeyAgent
    <2>1. /\ builderIdentity \in Made /\ mode' = "MONAD_TESTNET"
          /\ agents' = agents \cup {PasskeyAgent(credentialOf[builderIdentity])}
          /\ UNCHANGED <<builderIdentity, registrations, meraVars>>
        BY <1>12 DEF CreatePasskeyAgent, SignWithSession, ControlInv, IdentitiesOK
    <2>2. Passkeys' = Passkeys /\ credentialOf[builderIdentity] \in Passkeys
        BY <2>1 DEF Passkeys, Made, meraVars
    <2>3. AgentsAreFounded'
        BY <2>1, <2>2 DEF ControlInv, AgentsAreFounded, PasskeyAgent
    <2>4. QED
        BY <2>1, <2>3, ViewSteps DEF ControlInv, IdentitiesOK
<1>13. CASE CreateDynamicAgent
    <2>1. /\ agents' = agents \cup {[from |-> "wallet", which |-> activeWallet]}
          /\ UNCHANGED <<mode, adapter, builderIdentity, registrations, meraVars>>
        BY <1>13 DEF CreateDynamicAgent
    <2>2. AgentsAreFounded'
        BY <2>1 DEF meraVars, ControlInv, AgentsAreFounded, Passkeys, Made
    <2>3. QED
        BY <2>1, <2>2, ViewSteps DEF ControlInv, IdentitiesOK
<1>14. CASE publishAgent
    BY <1>14, ViewSteps DEF publishAgent, appVars, meraVars, ControlInv,
       IdentitiesOK, AgentsAreFounded, Passkeys, Made
<1>15. QED
    BY <1>1, <1>2, <1>3, <1>5, <1>6, <1>7, <1>8, <1>9, <1>10, <1>11, <1>12,
       <1>13, <1>14, CeremonyKeeps, RegistrationKeeps
       DEF SessionNext, handleSwitchControl

THEOREM ControlInvariant == SessionSpec => []ControlInv
BY ControlInit, ControlStep, PTL DEF SessionSpec

\* Whichever ceremonies follow each other, the session before was ended
\* (meraSession.ts:31, :78).
THEOREM OneSessionLives == SessionSpec => []OnlyActiveSessionLives
BY ControlInvariant, PTL DEF ControlInv

\* Under the local mode no adapter of the chain is in use (App.tsx:61-153).
THEOREM LocalIsLocal == SessionSpec => []LocalModeIsLocal
BY ControlInvariant, PTL DEF ControlInv

\* An agent that the builder says was made from a passkey stands for one that
\* a ceremony made, and one it says was published for a registration that was
\* mined (PasskeyModal.tsx:97).  Of agents made from a connected wallet, and
\* of those without either, it says nothing: the code gives them any address,
\* the zero address too.
THEOREM PasskeyAndRegisteredAgentsStand == SessionSpec => []AgentsAreFounded
BY ControlInvariant, PTL DEF ControlInv
-----------------------------------------------------------------------------
(* Executions.  What an agent has paid, in all by its executions and on a  *)
(* day by any purchase, is a sum over all calls, in which those that       *)
(* settled nothing count nothing: so a settlement changes one entry of it. *)

PaidBy(a) ==
    [c \in Calls |-> IF c \in Paid(a) THEN transactions[c].amount ELSE 0]
SettledOn(a, d) ==
    {c \in Calls : /\ transactions[c].status = "SETTLED"
                   /\ transactions[c].buyer = a
                   /\ transactions[c].day = d}
PaidOn(a, d) ==
    [c \in Calls |-> IF c \in SettledOn(a, d) THEN transactions[c].amount ELSE 0]

KeptTransaction ==
    [buyer : Registered, amount : Amounts, day : Nat,
     status : {"PENDING", "SETTLED", "FAILED"}]
ExecutionCall ==
    [op : Executors, at : {"opening", "sending"},
     result : {"none", "sent", "ok", "failed"}, agent : Registered,
     amount : Amounts, wallet : Wallets \cup {NoWallet}]
PurchaseCall == [op : {"buy"}, at : {"paying"}, agent : Registered]
Fates == {"nothing", "pending", "simulated", "mined", "lost", "elsewhere"}
Done == {"mined", "simulated"}

ExecutionTypeOK ==
    /\ balances \in [Registered -> Int]
    /\ moved \in [Registered -> Int]
    /\ policies \in [Registered -> Policies]
    /\ transactions \in [Calls -> {NoTransaction} \cup KeptTransaction]
    /\ tick \in Nat
    /\ calls \in [Calls -> {NoCall, Finished} \cup ExecutionCall \cup PurchaseCall]
    /\ sent \in [Calls -> Fates]
    /\ activeWallet \in Wallets \cup {NoWallet}

\* An execution that runs has settled nothing yet, and one that succeeds had
\* its transaction mined, or made up; a purchase that runs is not settled.
CallOK(c) ==
    /\ calls[c] \in {NoCall} \cup ExecutionCall => transactions[c] = NoTransaction
    /\ calls[c] \in ExecutionCall /\ calls[c].result = "ok" => sent[c] \in Done
    /\ calls[c] \in PurchaseCall =>
          /\ sent[c] = "elsewhere"
          /\ transactions[c].status = "PENDING"
          /\ transactions[c].buyer = calls[c].agent
    /\ transactions[c].status = "SETTLED" => sent[c] \in Done \cup {"elsewhere"}
    /\ transactions[c] # NoTransaction => transactions[c].day <= Today(tick)
CallsInv == \A c \in Calls : CallOK(c)

\* Each settlement may have been rounded, by half a milli-MON.
Half == Milli \div 2
Books(a) == Endowment[a] + moved[a] - Total(PaidBy(a))
BooksInv ==
    \A a \in Registered :
        /\ Books(a) - Half * Cardinality(Paid(a)) <= balances[a]
        /\ balances[a] <= Books(a) + Half * Cardinality(Paid(a))

\* What the policy said of an execution when it began is still so while it is
\* not overtaken, on any later day as well.
Affordable(a, amount) ==
    /\ balances[a] - amount >= policies[a].minRetainedBalance
    /\ \A d \in Nat : d >= Today(tick) =>
          Total(PaidOn(a, d)) + amount <= policies[a].dailySpendingLimit
Pays(c, a, amount) ==
    calls[c] \in ExecutionCall /\ calls[c].agent = a /\ calls[c].amount = amount
LimitsInv ==
    \A c \in Calls \ overtaken, a \in Registered, amount \in Amounts :
        Pays(c, a, amount) => Affordable(a, amount)

ExecutionInv == ExecutionTypeOK /\ CallsInv /\ BooksInv /\ LimitsInv

LEMMA CallsFinite == IsFiniteSet(Calls)
BY FS_Interval, StoreAssumption DEF Calls

LEMMA WhatIsKept ==
    ASSUME ExecutionTypeOK, NEW c \in Calls, transactions[c] # NoTransaction
    PROVE  /\ transactions[c].buyer \in Registered
           /\ transactions[c].amount \in Amounts /\ transactions[c].amount \in Nat
           /\ transactions[c].day \in Nat
<1>1. transactions[c] \in KeptTransaction
    BY DEF ExecutionTypeOK
<1>2. QED
    BY <1>1, ExecutionAssumption DEF KeptTransaction

LEMMA NothingIsNotSettled == NoTransaction.status # "SETTLED"
BY DEF NoTransaction

LEMMA AmountsAddUp ==
    ASSUME NEW S, IsFiniteSet(S), \A c \in S : transactions[c].amount \in Nat
    PROVE  (CHOOSE iter : iter = [s \in SUBSET S |->
              IF s = {} THEN 0
              ELSE transactions[CHOOSE x \in s : TRUE].amount
                   + iter[s \ {CHOOSE x \in s : TRUE}]])[S]
           = Total([c \in S |-> transactions[c].amount])
<1> DEFINE f == [c \in S |-> transactions[c].amount]
           first(s) == CHOOSE x \in s : TRUE
           Adds(iter) == iter = [s \in SUBSET S |->
              IF s = {} THEN 0
              ELSE transactions[CHOOSE x \in s : TRUE].amount
                   + iter[s \ {CHOOSE x \in s : TRUE}]]
<1>1. f \in [S -> Nat]
    OBVIOUS
<1>2. ASSUME NEW iter PROVE Adds(iter) <=> IsSum(iter, S, f)
  <2>1. \A s \in SUBSET S : s # {} => first(s) \in S
    OBVIOUS
  <2>2. \A s \in SUBSET S : s # {} =>
            f[first(s)] = transactions[first(s)].amount
    BY <2>1
  <2>3. [s \in SUBSET S |-> IF s = {} THEN 0
              ELSE transactions[first(s)].amount + iter[s \ {first(s)}]]
        = [s \in SUBSET S |-> IF s = {} THEN 0
              ELSE f[first(s)] + iter[s \ {first(s)}]]
    BY <2>2
  <2>4. QED
    BY <2>3 DEF IsSum
<1>3. \E iter : Adds(iter)
    BY <1>1, <1>2, SumsAreSums
<1>4. Adds(CHOOSE iter : Adds(iter))
    BY <1>3
<1>5. (CHOOSE iter : Adds(iter))[S] = Total(f)
    BY <1>1, <1>2, <1>4, SumIsTotal
<1>6. QED
    BY <1>5

LEMMA SumOverCalls ==
    ASSUME ExecutionTypeOK, NEW P \in SUBSET Calls,
           \A c \in P : transactions[c].status = "SETTLED"
    PROVE  LET over == [c \in Calls |->
                           IF c \in P THEN transactions[c].amount ELSE 0]
           IN  Sum(P) = Total(over) /\ over \in [Calls -> Nat]
<1> DEFINE over == [c \in Calls |-> IF c \in P THEN transactions[c].amount ELSE 0]
<1>1. \A c \in P : transactions[c].amount \in Nat
    BY WhatIsKept, NothingIsNotSettled
<1>2. over \in [Calls -> Nat]
    BY <1>1
<1>3. IsFiniteSet(P)
    BY CallsFinite, FS_Subset
<1>4. Sum(P) = Total([c \in P |-> transactions[c].amount])
    BY <1>1, <1>3, AmountsAddUp DEF Sum, AmountOf, MapThenSumSet, MapThenFoldSet
<1>5. [c \in P |-> transactions[c].amount] = [c \in P |-> over[c]]
    OBVIOUS
<1>6. \A c \in Calls \ P : over[c] = 0
    OBVIOUS
<1> HIDE DEF over
<1>7. QED
    BY <1>2, <1>4, <1>5, <1>6, TotalRestricted DEF over

LEMMA PaidIsNat ==
    ASSUME ExecutionTypeOK, NEW a, NEW d
    PROVE  /\ PaidBy(a) \in [Calls -> Nat] /\ PaidOn(a, d) \in [Calls -> Nat]
           /\ Total(PaidBy(a)) \in Nat /\ Total(PaidOn(a, d)) \in Nat
           /\ Sum(Paid(a)) = Total(PaidBy(a))
           /\ dailySpent(a) = Total(PaidOn(a, Today(tick)))
<1>1. PaidBy(a) \in [Calls -> Nat] /\ Sum(Paid(a)) = Total(PaidBy(a))
  <2>1. Paid(a) \in SUBSET Calls
        /\ \A c \in Paid(a) : transactions[c].status = "SETTLED"
    BY DEF Paid
  <2>2. QED
    BY <2>1, SumOverCalls DEF PaidBy
<1>2. ASSUME NEW day
      PROVE  /\ PaidOn(a, day) \in [Calls -> Nat]
             /\ Sum(SettledOn(a, day)) = Total(PaidOn(a, day))
  <2>1. SettledOn(a, day) \in SUBSET Calls
        /\ \A c \in SettledOn(a, day) : transactions[c].status = "SETTLED"
    BY DEF SettledOn
  <2>2. QED
    BY <2>1, SumOverCalls DEF PaidOn
<1>3. SettledToday(a) = SettledOn(a, Today(tick))
    BY DEF SettledToday, SettledOn
<1>4. dailySpent(a) = Sum(SettledOn(a, Today(tick)))
    BY <1>3 DEF dailySpent, Sum, AmountOf, MapThenSumSet, MapThenFoldSet
<1>5. QED
    BY <1>1, <1>2, <1>4, CallsFinite, TotalIsNat

LEMMA PaidIsCounted ==
    ASSUME NEW a
    PROVE  IsFiniteSet(Paid(a)) /\ Cardinality(Paid(a)) \in Nat
<1>1. Paid(a) \subseteq Calls
    BY DEF Paid
<1>2. QED
    BY <1>1, CallsFinite, FS_Subset, FS_CardinalityType

LEMMA PolicyNumbers ==
    ASSUME ExecutionTypeOK, NEW a \in Registered
    PROVE  /\ policies[a].dailySpendingLimit \in Nat
           /\ policies[a].minRetainedBalance \in Nat
<1>1. policies[a] \in Policies
    BY DEF ExecutionTypeOK
<1>2. QED
    BY <1>1, StoreAssumption

LEMMA TodayIsNat ==
    ASSUME ExecutionTypeOK PROVE Today(tick) \in Nat
BY DEF ExecutionTypeOK, Today, HoursPerTick

\* What the policy permits can be afforded, today and on any later day.
LEMMA PermittedIsAffordable ==
    ASSUME ExecutionInv, NEW a, NEW amount \in Amounts, NEW o,
           validateTransaction(a, amount, o) = {}
    PROVE  a \in Registered /\ Affordable(a, amount)
<1>1. a \in Registered
    BY DEF validateTransaction
<1> DEFINE policy == policies[a]
           rules == [MIN_RETAINED_BALANCE |-> ~LeavesReserve(a, amount),
                     MAX_TRANSACTION_LIMIT |-> amount > policy.maxPerTransaction,
                     DAILY_SPENDING_LIMIT |->
                         dailySpent(a) + amount > policy.dailySpendingLimit,
                     CATEGORY_RESTRICTION |->
                         o \notin policy.allowedObjects \cup {Uncategorised}]
<1>2. {rule \in DOMAIN rules : rules[rule]} = {}
    BY <1>1 DEF validateTransaction
<1>3. ~rules["MIN_RETAINED_BALANCE"] /\ ~rules["DAILY_SPENDING_LIMIT"]
    <2>1. {"MIN_RETAINED_BALANCE", "DAILY_SPENDING_LIMIT"} \subseteq DOMAIN rules
        OBVIOUS
    <2> HIDE DEF rules
    <2>2. QED
        BY <1>2, <2>1
<1>4. /\ LeavesReserve(a, amount)
      /\ ~(dailySpent(a) + amount > policies[a].dailySpendingLimit)
    BY <1>3
<1> HIDE DEF rules
<1>5. policies[a].dailySpendingLimit \in Nat /\ amount \in Nat
    BY <1>1, PolicyNumbers, ExecutionAssumption DEF ExecutionInv
<1>6. ExecutionTypeOK
    BY DEF ExecutionInv
<1>7. ASSUME NEW d \in Nat, d >= Today(tick)
      PROVE  Total(PaidOn(a, d)) + amount <= policies[a].dailySpendingLimit
    <2>1. dailySpent(a) = Total(PaidOn(a, Today(tick))) /\ dailySpent(a) \in Nat
        BY <1>6, PaidIsNat
    <2>2. CASE d = Today(tick)
        BY <1>4, <1>5, <2>1, <2>2
    <2>3. CASE d # Today(tick)
        <3>1. \A c \in Calls : transactions[c] # NoTransaction =>
                  transactions[c].day \in Nat /\ transactions[c].day <= Today(tick)
            BY <1>6, WhatIsKept DEF ExecutionInv, CallsInv, CallOK
        <3>2. \A c \in Calls : transactions[c].status = "SETTLED" =>
                  transactions[c].day # d
            BY <1>6, <1>7, <2>3, <3>1, NothingIsNotSettled, TodayIsNat
        <3>3. \A c \in Calls : PaidOn(a, d)[c] = 0
            BY <3>2 DEF PaidOn, SettledOn
        <3>4. Total(PaidOn(a, d)) = 0
            BY <1>6, <3>3, PaidIsNat, TotalZero
        <3>5. QED
            BY <1>4, <1>5, <2>1, <3>4
    <2>4. QED
        BY <2>2, <2>3
<1>8. balances[a] - amount >= policies[a].minRetainedBalance
    BY <1>4 DEF LeavesReserve
<1>9. QED
    BY <1>1, <1>7, <1>8 DEF Affordable

-----------------------------------------------------------------------------
(* Steps that move no money                                                *)

booksVars == <<balances, policies, transactions, tick, moved>>

LEMMA BooksStay ==
    ASSUME UNCHANGED booksVars,
           \A c \in Calls : transactions[c].status = "SETTLED" => sent'[c] = sent[c]
    PROVE  /\ \A a : Paid(a)' = Paid(a) /\ PaidBy(a)' = PaidBy(a)
           /\ \A a, amount : Affordable(a, amount)' <=> Affordable(a, amount)
           /\ BooksInv => BooksInv'
<1>1. \A a : Paid(a)' = Paid(a)
    BY DEF booksVars, Paid
<1>2. \A a : PaidBy(a)' = PaidBy(a)
    BY <1>1 DEF booksVars, PaidBy
<1>3. \A a, d : PaidOn(a, d)' = PaidOn(a, d)
    BY DEF booksVars, PaidOn, SettledOn
<1>4. \A a, amount : Affordable(a, amount)' <=> Affordable(a, amount)
    BY <1>3 DEF booksVars, Affordable, Today
<1>5. BooksInv => BooksInv'
    BY <1>1, <1>2 DEF booksVars, BooksInv, Books
<1>6. QED
    BY <1>1, <1>2, <1>4, <1>5

\* An execution begins with what its agent can afford, goes on, or is over.
LEMMA CallMoves ==
    ASSUME ExecutionInv, UNCHANGED booksVars, overtaken' = overtaken,
           NEW c \in Calls, calls[c] \in {NoCall} \cup ExecutionCall,
           NEW x \in {Finished} \cup ExecutionCall,
           calls' = [calls EXCEPT ![c] = x],
           NEW fate \in Fates, sent' = [sent EXCEPT ![c] = fate],
           x \in ExecutionCall /\ x.result = "ok" => fate \in Done,
           activeWallet' \in Wallets \cup {NoWallet},
           x \in ExecutionCall => c \in overtaken \/ Affordable(x.agent, x.amount)
    PROVE  ExecutionInv'
<1>1. ExecutionTypeOK /\ CallsInv /\ BooksInv /\ LimitsInv
    BY DEF ExecutionInv
<1>2. transactions' = transactions /\ balances' = balances
      /\ policies' = policies /\ tick' = tick /\ moved' = moved
    BY DEF booksVars
<1>3. calls'[c] = x /\ \A d \in Calls \ {c} : calls'[d] = calls[d]
    BY <1>1 DEF ExecutionTypeOK
<1>4. sent'[c] = fate /\ \A d \in Calls \ {c} : sent'[d] = sent[d]
    BY <1>1 DEF ExecutionTypeOK
<1>5. ExecutionTypeOK'
  <2>1. calls' \in [Calls -> {NoCall, Finished} \cup ExecutionCall \cup PurchaseCall]
    BY <1>1 DEF ExecutionTypeOK
  <2>2. sent' \in [Calls -> Fates]
    BY <1>1 DEF ExecutionTypeOK
  <2>3. QED
    BY <1>1, <1>2, <2>1, <2>2 DEF ExecutionTypeOK
<1>6. transactions[c] = NoTransaction
    BY <1>1 DEF CallsInv, CallOK
<1>7. CallsInv'
  <2> SUFFICES ASSUME NEW d \in Calls PROVE CallOK(d)'
    BY DEF CallsInv
  <2>1. Today(tick)' = Today(tick)
    BY <1>2 DEF Today
  <2>2. CASE d = c
    <3>1. x \notin PurchaseCall
      BY DEF ExecutionCall, PurchaseCall, Executors, Finished
    <3>2. QED
      BY <2>2, <1>2, <1>3, <1>4, <1>6, <3>1, NothingIsNotSettled DEF CallOK
  <2>3. CASE d # c
    <3>1. CallOK(d)
      BY <1>1 DEF CallsInv
    <3>2. QED
      BY <2>1, <2>3, <3>1, <1>2, <1>3, <1>4 DEF CallOK
  <2>4. QED
    BY <2>2, <2>3
<1>8. \A d \in Calls : transactions[d].status = "SETTLED" => sent'[d] = sent[d]
    BY <1>4, <1>6, NothingIsNotSettled
<1>9. BooksInv'
    BY <1>1, <1>8, BooksStay
<1>10. LimitsInv'
  <2> SUFFICES ASSUME NEW d \in Calls \ overtaken, NEW a \in Registered,
                      NEW amount \in Amounts, Pays(d, a, amount)'
               PROVE  Affordable(a, amount)'
    BY DEF LimitsInv
  <2>1. Affordable(a, amount)
    BY <1>1, <1>3 DEF LimitsInv, Pays
  <2>2. QED
    BY <1>8, <2>1, BooksStay
<1>11. QED
    BY <1>5, <1>7, <1>9, <1>10 DEF ExecutionInv

LEMMA ExecutionStarts == ExecutionInit => ExecutionInv
<1> SUFFICES ASSUME ExecutionInit PROVE ExecutionInv
  OBVIOUS
<1>1. /\ balances = [a \in Registered |-> Endowment[a]]
      /\ moved = [a \in Registered |-> 0]
      /\ policies = [a \in Registered |-> DefaultPolicy]
      /\ transactions = [c \in Calls |-> NoTransaction]
      /\ tick = FirstTick
      /\ calls = [c \in Calls |-> NoCall]
      /\ sent = [c \in Calls |-> "nothing"]
      /\ activeWallet = NoWallet
  BY DEF ExecutionInit, StoreInit, WalletInit
<1>2. ExecutionTypeOK
  BY <1>1, StoreAssumption DEF ExecutionTypeOK, Fates
<1>3. \A c \in Calls : /\ transactions[c] = NoTransaction
                       /\ transactions[c].status # "SETTLED"
                       /\ calls[c] \notin ExecutionCall \cup PurchaseCall
  BY <1>1, NothingIsNotSettled
     DEF ExecutionCall, PurchaseCall, NoCall, Executors
<1>4. CallsInv
  BY <1>3 DEF CallsInv, CallOK
<1>5. \A a : Paid(a) = {}
  BY <1>3 DEF Paid
<1>6. ASSUME NEW a PROVE Total(PaidBy(a)) = 0 /\ Cardinality(Paid(a)) = 0
  <2>1. \A c \in Calls : PaidBy(a)[c] = 0
    BY <1>5 DEF PaidBy
  <2>2. QED
    BY <2>1, <1>2, <1>5, PaidIsNat, TotalZero, FS_EmptySet
<1>7. BooksInv
  <2> SUFFICES ASSUME NEW a \in Registered
               PROVE  /\ Books(a) - Half * Cardinality(Paid(a)) <= balances[a]
                      /\ balances[a] <= Books(a) + Half * Cardinality(Paid(a))
    BY DEF BooksInv
  <2>1. Books(a) = Endowment[a] + 0 - 0 /\ Endowment[a] \in Nat
    BY <1>1, <1>6, StoreAssumption DEF Books
  <2>2. QED
    BY <1>1, <1>6, <2>1 DEF Half, Milli
<1>8. LimitsInv
  BY <1>3 DEF LimitsInv, Pays
<1>9. QED
  BY <1>2, <1>4, <1>7, <1>8 DEF ExecutionInv

\* An execution that is over, whatever became of it, or that never began.
LEMMA ExecutionEnds ==
    ASSUME ExecutionInv, UNCHANGED booksVars, UNCHANGED <<sent, overtaken>>,
           UNCHANGED activeWallet,
           NEW c \in Calls, calls[c] \in {NoCall} \cup ExecutionCall, Return(c)
    PROVE  ExecutionInv'
<1> DEFINE x == Finished
           fate == sent[c]
<1>1. fate \in Fates /\ sent' = [sent EXCEPT ![c] = fate]
  BY DEF ExecutionInv, ExecutionTypeOK
<1>2. activeWallet' \in Wallets \cup {NoWallet}
  BY DEF ExecutionInv, ExecutionTypeOK
<1>3. x \in {Finished} \cup ExecutionCall /\ x \notin ExecutionCall
  BY DEF Finished, ExecutionCall, Executors
<1>4. calls' = [calls EXCEPT ![c] = x]
  BY DEF Return
<1> HIDE DEF x, fate
<1>5. QED
  BY <1>1, <1>2, <1>3, <1>4, CallMoves

LEMMA SendKeeps ==
    ASSUME ExecutionInv, UNCHANGED booksVars, UNCHANGED <<activeWallet, overtaken>>,
           NEW c \in Calls, calls[c] = NoCall,
           NEW executor \in Executors, NEW agent \in Registered,
           NEW amount \in Amounts, NEW wallet \in Wallets \cup {NoWallet},
           Affordable(agent, amount),
           NEW result \in {"sent", "ok"}, NEW fate \in Fates,
           result = "ok" => fate \in Done,
           Suspend(c, [execution(executor, agent, amount, wallet)
                        EXCEPT !.at = "sending", !.result = result]),
           sent' = [sent EXCEPT ![c] = fate]
    PROVE  ExecutionInv'
<1> DEFINE first == execution(executor, agent, amount, wallet)
           next == [first EXCEPT !.at = "sending"]
           x == [next EXCEPT !.result = result]
<1>1. next = [op |-> executor, at |-> "sending", result |-> "none",
              agent |-> agent, amount |-> amount, wallet |-> wallet]
  BY DEF execution
<1>2. calls' = [calls EXCEPT ![c] = x]
  BY DEF Suspend
<1> HIDE DEF next
<1>3. x = [op |-> executor, at |-> "sending", result |-> result,
           agent |-> agent, amount |-> amount, wallet |-> wallet]
  BY <1>1
<1> HIDE DEF x
<1>4. x \in ExecutionCall
  BY <1>3 DEF ExecutionCall
<1>5. x.agent = agent /\ x.amount = amount /\ x.result = result
  BY <1>3
<1>6. activeWallet' \in Wallets \cup {NoWallet}
  BY DEF ExecutionInv, ExecutionTypeOK
<1>7. QED
  BY <1>2, <1>4, <1>5, <1>6, CallMoves

LEMMA executeMetaMaskKeeps ==
    ASSUME ExecutionInv, NEW c \in Calls, NEW agent \in AgentIds,
           NEW amount \in Amounts, NEW recipient, NEW category, NEW approve,
           executeMetaMask(c, agent, amount, recipient, category, approve)
    PROVE  ExecutionInv'
<1>1. calls[c] = NoCall
  BY DEF executeMetaMask, IsNew
<1>2. UNCHANGED booksVars /\ UNCHANGED <<activeWallet, overtaken>>
  BY DEF executeMetaMask, booksVars, walletVars, historyVars
<1>3. CASE Halt(c)
  BY <1>1, <1>2, <1>3, ExecutionEnds DEF Halt
<1>4. CASE /\ ~Halts(agent, amount, recipient, category, approve)
           /\ signAndSubmit(c, execution("metaMask", agent, amount, NoWallet))
  <2>1. validateTransaction(agent, amount, category) = {}
    BY <1>4 DEF Halts
  <2>2. agent \in Registered /\ Affordable(agent, amount)
    BY <2>1, PermittedIsAffordable
  <2>3. "pending" \in Fates /\ "simulated" \in Fates /\ "simulated" \in Done
        /\ "metaMask" \in Executors
    BY DEF Fates, Done, Executors
  <2>4. CASE Send(c, execution("metaMask", agent, amount, NoWallet))
    BY <1>1, <1>2, <2>2, <2>3, <2>4, SendKeeps DEF Send
  <2>5. CASE /\ Suspend(c, [execution("metaMask", agent, amount, NoWallet)
                             EXCEPT !.at = "sending", !.result = "ok"])
             /\ sent' = [sent EXCEPT ![c] = "simulated"]
    BY <1>1, <1>2, <2>2, <2>3, <2>5, SendKeeps
  <2>6. QED
    BY <1>3, <1>4, <2>4, <2>5 DEF signAndSubmit
<1>5. QED
  BY <1>3, <1>4 DEF executeMetaMask

LEMMA executeDynamicKeeps ==
    ASSUME ExecutionInv, NEW c \in Calls, NEW agent \in AgentIds,
           NEW amount \in Amounts, NEW category,
           executeDynamic(c, agent, amount, category)
    PROVE  ExecutionInv'
<1>1. calls[c] = NoCall
  BY DEF executeDynamic, IsNew
<1>2. UNCHANGED booksVars /\ UNCHANGED <<activeWallet, overtaken>>
  BY DEF executeDynamic, booksVars, walletVars, historyVars
<1>3. CASE Halt(c)
  BY <1>1, <1>2, <1>3, ExecutionEnds DEF Halt
<1>4. CASE /\ validateTransaction(agent, amount, category) = {}
           /\ activeWallet \in OnMonad
           /\ \/ Send(c, execution("dynamic", agent, amount, activeWallet))
              \/ /\ Suspend(c, [execution("dynamic", agent, amount, activeWallet)
                                EXCEPT !.at = "opening"])
                 /\ UNCHANGED sent
  <2>1. agent \in Registered /\ Affordable(agent, amount)
    BY <1>4, PermittedIsAffordable
  <2> DEFINE w == activeWallet
  <2>2. w \in Wallets \cup {NoWallet} /\ "dynamic" \in Executors
    BY <1>4, ExecutionAssumption DEF Executors
  <2>3. CASE Send(c, execution("dynamic", agent, amount, w))
    <3>1. "pending" \in Fates
      BY DEF Fates
    <3>2. QED
      BY <1>1, <1>2, <2>1, <2>2, <2>3, <3>1, SendKeeps DEF Send
  <2>4. CASE /\ Suspend(c, [execution("dynamic", agent, amount, w)
                             EXCEPT !.at = "opening"])
             /\ UNCHANGED sent
    <3> DEFINE x == [execution("dynamic", agent, amount, w)
                       EXCEPT !.at = "opening"]
               fate == sent[c]
    <3>1. x = [op |-> "dynamic", at |-> "opening", result |-> "none",
               agent |-> agent, amount |-> amount, wallet |-> w]
      BY DEF execution
    <3>2. calls' = [calls EXCEPT ![c] = x]
      BY <2>4 DEF Suspend
    <3> HIDE DEF x
    <3>3. x \in ExecutionCall /\ x.result # "ok"
      BY <2>1, <2>2, <3>1 DEF ExecutionCall
    <3>4. x.agent = agent /\ x.amount = amount
      BY <3>1
    <3>5. fate \in Fates /\ sent' = [sent EXCEPT ![c] = fate]
      BY <2>4 DEF ExecutionInv, ExecutionTypeOK
    <3>6. activeWallet' \in Wallets \cup {NoWallet}
      BY <1>2, <2>2
    <3> HIDE DEF fate, w
    <3>7. QED
      BY <1>1, <1>2, <2>1, <3>2, <3>3, <3>4, <3>5, <3>6, CallMoves
  <2>5. QED
    BY <1>4, <2>3, <2>4
<1>5. QED
  BY <1>3, <1>4 DEF executeDynamic

\* A call that is under way goes on for the same agent and amount.
Answered(call, result) == [call EXCEPT !.result = result]
SentBy(call) == [call EXCEPT !.at = "sending", !.result = "sent"]

LEMMA CallRecord ==
    ASSUME NEW call \in ExecutionCall
    PROVE  call = [op |-> call.op, at |-> call.at, result |-> call.result,
                   agent |-> call.agent, amount |-> call.amount,
                   wallet |-> call.wallet]
BY DEF ExecutionCall

LEMMA AnsweredCall ==
    ASSUME NEW call \in ExecutionCall, NEW result \in {"sent", "ok", "failed"}
    PROVE  LET x == Answered(call, result)
           IN  /\ x \in ExecutionCall /\ x.result = result
               /\ x.agent = call.agent /\ x.amount = call.amount
<1> DEFINE x == [op |-> call.op, at |-> call.at, result |-> result,
                 agent |-> call.agent, amount |-> call.amount,
                 wallet |-> call.wallet]
<1>1. Answered(call, result) = x
    BY CallRecord DEF Answered
<1>2. x \in ExecutionCall
    BY DEF ExecutionCall
<1>3. QED
    BY <1>1, <1>2

LEMMA SentCall ==
    ASSUME NEW call \in ExecutionCall
    PROVE  LET x == SentBy(call)
           IN  /\ x \in ExecutionCall /\ x.result = "sent"
               /\ x.agent = call.agent /\ x.amount = call.amount
<1> DEFINE first == [call EXCEPT !.at = "sending"]
           x == [op |-> call.op, at |-> "sending", result |-> "sent",
                 agent |-> call.agent, amount |-> call.amount,
                 wallet |-> call.wallet]
<1>1. first = [op |-> call.op, at |-> "sending", result |-> call.result,
               agent |-> call.agent, amount |-> call.amount,
               wallet |-> call.wallet]
    BY CallRecord
<1> HIDE DEF first
<1>2. [first EXCEPT !.result = "sent"] = x
    BY <1>1
<1>3. SentBy(call) = x
    BY <1>2 DEF SentBy, first
<1>4. x \in ExecutionCall
    BY DEF ExecutionCall
<1>5. QED
    BY <1>3, <1>4

LEMMA GoesOnKeeps ==
    ASSUME ExecutionInv, UNCHANGED booksVars, UNCHANGED <<activeWallet, overtaken>>,
           NEW c \in Calls, calls[c] \in ExecutionCall,
           NEW x \in ExecutionCall, calls' = [calls EXCEPT ![c] = x],
           x.agent = calls[c].agent, x.amount = calls[c].amount,
           NEW fate \in Fates, sent' = [sent EXCEPT ![c] = fate],
           x.result = "ok" => fate \in Done
    PROVE  ExecutionInv'
<1>1. c \in overtaken \/ Affordable(x.agent, x.amount)
  BY DEF ExecutionInv, LimitsInv, Pays, ExecutionCall
<1>2. activeWallet' \in Wallets \cup {NoWallet}
  BY DEF ExecutionInv, ExecutionTypeOK
<1>3. QED
  BY <1>1, <1>2, CallMoves

LEMMA RunningIsExecution ==
    ASSUME ExecutionTypeOK, NEW c \in Calls
    PROVE  /\ IsRunning(c) <=> calls[c] \in ExecutionCall
           /\ IsAt(c, "dynamic", "opening") => calls[c] \in ExecutionCall
           /\ IsAt(c, "buy", "paying") <=> calls[c] \in PurchaseCall
<1>1. calls[c] \in {NoCall, Finished} \cup ExecutionCall \cup PurchaseCall
  BY DEF ExecutionTypeOK
<1>2. NoCall.op = "none" /\ Finished.op = "none"
  BY DEF NoCall, Finished
<1>3. \A call \in ExecutionCall : call.op \in Executors
  BY DEF ExecutionCall
<1>4. \A call \in PurchaseCall : call.op = "buy" /\ call.at = "paying"
  BY DEF PurchaseCall
<1>5. QED
  BY <1>1, <1>2, <1>3, <1>4 DEF IsRunning, IsAt, Executors

LEMMA DynamicOpenedKeeps ==
    ASSUME ExecutionInv, NEW c \in Calls, DynamicOpened(c)
    PROVE  ExecutionInv'
<1>1. calls[c] \in ExecutionCall
  BY RunningIsExecution DEF DynamicOpened, ExecutionInv
<1>2. UNCHANGED booksVars /\ UNCHANGED <<activeWallet, overtaken>>
  BY DEF DynamicOpened, booksVars, historyVars
<1>3. CASE Return(c) /\ UNCHANGED sent
  BY <1>1, <1>2, <1>3, ExecutionEnds
<1>4. CASE /\ Suspend(c, [calls[c] EXCEPT !.at = "sending", !.result = "sent"])
           /\ sent' = [sent EXCEPT ![c] = "pending"]
  <2> DEFINE x == SentBy(calls[c])
  <2>1. "pending" \in Fates
    BY DEF Fates
  <2>2. calls' = [calls EXCEPT ![c] = x]
    BY <1>4 DEF Suspend, SentBy
  <2>3. x \in ExecutionCall /\ x.result = "sent"
        /\ x.agent = calls[c].agent /\ x.amount = calls[c].amount
    BY <1>1, SentCall
  <2> HIDE DEF x
  <2>4. QED
    BY <1>1, <1>2, <1>4, <2>1, <2>2, <2>3, GoesOnKeeps
<1>5. QED
  BY <1>3, <1>4 DEF DynamicOpened

LEMMA AnswerKeeps ==
    ASSUME ExecutionInv, NEW c \in Calls, Answer(c)
    PROVE  ExecutionInv'
<1>1. calls[c] \in ExecutionCall
  BY RunningIsExecution DEF Answer, ExecutionInv
<1>2. UNCHANGED booksVars /\ UNCHANGED <<activeWallet, overtaken>>
  BY DEF Answer, booksVars, walletVars, historyVars
<1>3. PICK fate \in {"mined", "lost"}, result \in {"ok", "failed"} :
          /\ result = "ok" => fate = "mined"
          /\ sent' = [sent EXCEPT ![c] = fate]
          /\ calls' = [calls EXCEPT ![c].result = result]
  BY DEF Answer
<1> DEFINE x == Answered(calls[c], result)
<1>4. calls' = [calls EXCEPT ![c] = x]
  BY <1>3 DEF Answered
<1>5. x \in ExecutionCall /\ x.result = result
      /\ x.agent = calls[c].agent /\ x.amount = calls[c].amount
  BY <1>1, AnsweredCall
<1> HIDE DEF x
<1>6. fate \in Fates /\ "mined" \in Done
  BY DEF Fates, Done
<1>7. QED
  BY <1>1, <1>2, <1>3, <1>4, <1>5, <1>6, GoesOnKeeps

LEMMA ExecutionFailsKeeps ==
    ASSUME ExecutionInv, NEW c \in Calls, ExecutionFails(c)
    PROVE  ExecutionInv'
<1>1. calls[c] \in ExecutionCall
  BY RunningIsExecution DEF ExecutionFails, ExecutionInv
<1>2. UNCHANGED booksVars /\ UNCHANGED <<sent, overtaken>>
      /\ UNCHANGED activeWallet /\ Return(c)
  BY DEF ExecutionFails, booksVars, walletVars, historyVars
<1>3. QED
  BY <1>1, <1>2, ExecutionEnds

-----------------------------------------------------------------------------
(* Steps that move money                                                   *)

LEMMA RoundingIsSmall ==
    ASSUME NEW n \in Int
    PROVE  RoundMilli(n) \in Int /\ n - Half <= RoundMilli(n) /\ RoundMilli(n) <= n + Half
BY DEF RoundMilli, Milli, Half

\* Whatever happens to one agent's money or policy, its executions that are
\* under way are overtaken, and those of the others do not notice.
LEMMA OthersStay ==
    ASSUME ExecutionInv, NEW a \in Registered,
           UNCHANGED tick,
           \A b \in Registered \ {a} :
              balances'[b] = balances[b] /\ policies'[b] = policies[b],
           \A c \in Calls : transactions'[c] # transactions[c] =>
              /\ transactions[c] # NoTransaction => transactions[c].buyer = a
              /\ transactions'[c] # NoTransaction => transactions'[c].buyer = a,
           \A c \in Calls : calls'[c] \in ExecutionCall =>
              /\ calls'[c] = calls[c]
              /\ calls[c].agent = a => c \in overtaken',
           overtaken \subseteq overtaken'
    PROVE  LimitsInv'
<1> SUFFICES ASSUME NEW c \in Calls \ overtaken', NEW b \in Registered,
                    NEW amount \in Amounts, Pays(c, b, amount)'
             PROVE  Affordable(b, amount)'
  BY DEF LimitsInv
<1>1. Pays(c, b, amount) /\ b # a /\ c \in Calls \ overtaken
  BY DEF Pays
<1>2. Affordable(b, amount)
  BY <1>1 DEF ExecutionInv, LimitsInv
<1>3. ASSUME NEW x \in Calls, NEW d
      PROVE  /\ x \in SettledOn(b, d)' <=> x \in SettledOn(b, d)
             /\ x \in SettledOn(b, d) => transactions'[x] = transactions[x]
  BY <1>1, NothingIsNotSettled DEF SettledOn
<1>4. \A d : PaidOn(b, d)' = PaidOn(b, d)
  BY <1>3 DEF PaidOn
<1>5. QED
  BY <1>1, <1>2, <1>4 DEF Affordable, Today

\* The books of an agent whose transactions were not settled by an execution.
LEMMA BooksFollow ==
    ASSUME ExecutionInv, NEW a \in Registered,
           \A b \in Registered : Paid(b)' = Paid(b),
           \A c \in Calls : transactions[c].status = "SETTLED" =>
                               transactions'[c].amount = transactions[c].amount,
           balances' \in [Registered -> Int], moved' \in [Registered -> Int],
           moved'[a] - moved[a] = balances'[a] - balances[a],
           \A b \in Registered \ {a} :
              balances'[b] = balances[b] /\ moved'[b] = moved[b]
    PROVE  BooksInv'
<1> SUFFICES ASSUME NEW b \in Registered
             PROVE  /\ (Books(b) - Half * Cardinality(Paid(b)) <= balances[b])'
                    /\ (balances[b] <= Books(b) + Half * Cardinality(Paid(b)))'
  BY DEF BooksInv
<1>1. PaidBy(b)' = PaidBy(b) /\ Paid(b)' = Paid(b)
  BY DEF PaidBy, Paid
<1> DEFINE paid == Total(PaidBy(b))
           most == Half * Cardinality(Paid(b))
<1>2. /\ Books(b)' = Endowment[b] + moved'[b] - paid
      /\ (Half * Cardinality(Paid(b)))' = most
  BY <1>1 DEF Books, Half, Milli
<1>3. Books(b) = Endowment[b] + moved[b] - paid
  BY DEF Books
<1>4. paid \in Int /\ most \in Int /\ Endowment[b] \in Int
  <2>1. Total(PaidBy(b)) \in Nat /\ Cardinality(Paid(b)) \in Nat
    BY PaidIsNat, PaidIsCounted DEF ExecutionInv
  <2>2. Half \in Nat /\ Endowment[b] \in Nat
    BY StoreAssumption DEF Half, Milli
  <2>3. QED
    BY <2>1, <2>2
<1>5. /\ balances[b] \in Int /\ balances'[b] \in Int
      /\ moved[b] \in Int /\ moved'[b] \in Int
      /\ moved'[b] - moved[b] = balances'[b] - balances[b]
  BY DEF ExecutionInv, ExecutionTypeOK
<1>6. Books(b) - most <= balances[b] /\ balances[b] <= Books(b) + most
  BY DEF ExecutionInv, BooksInv
<1> HIDE DEF paid, most
<1>7. QED
  BY <1>2, <1>3, <1>4, <1>5, <1>6

LEMMA handleUpdatePolicyKeeps ==
    ASSUME ExecutionInv, NEW a \in Registered, NEW policy \in Policies,
           handleUpdatePolicy(a, policy)
    PROVE  ExecutionInv'
<1>1. ExecutionTypeOK /\ CallsInv /\ BooksInv
  BY DEF ExecutionInv
<1>2. /\ policies' = [policies EXCEPT ![a] = policy]
      /\ overtaken' = overtaken \cup UnderWay(a)
      /\ UNCHANGED <<balances, transactions, tick, calls, activeWallet, sent, moved>>
  BY DEF handleUpdatePolicy, updatePolicy, Overtakes, walletVars
<1>3. ExecutionTypeOK'
  BY <1>1, <1>2 DEF ExecutionTypeOK
<1>4. CallsInv'
  BY <1>1, <1>2 DEF CallsInv, CallOK, Today
<1>5. BooksInv'
  BY <1>1, <1>2 DEF BooksInv, Books, Paid, PaidBy
<1>6. \A c \in Calls : calls'[c] \in ExecutionCall /\ calls[c].agent = a
                          => c \in overtaken'
  BY <1>1, <1>2, RunningIsExecution DEF UnderWay
<1>7. \A b \in Registered \ {a} : policies'[b] = policies[b]
  BY <1>1, <1>2 DEF ExecutionTypeOK
<1>8. LimitsInv'
  BY <1>2, <1>6, <1>7, OthersStay
<1>9. QED
  BY <1>3, <1>4, <1>5, <1>8 DEF ExecutionInv

\* What another call leaves of a balance, it has moved.
LEMMA MovesToMoves ==
    ASSUME ExecutionTypeOK, NEW a \in Registered, NEW delta \in Int,
           \/ MovesTo(a, Shifted(balances, a, delta))
           \/ UNCHANGED <<balances, moved>>
    PROVE  /\ balances' \in [Registered -> Int] /\ moved' \in [Registered -> Int]
           /\ moved'[a] - moved[a] = balances'[a] - balances[a]
           /\ \A b \in Registered \ {a} :
                 balances'[b] = balances[b] /\ moved'[b] = moved[b]
<1>1. balances \in [Registered -> Int] /\ moved \in [Registered -> Int]
  BY DEF ExecutionTypeOK
<1>2. CASE UNCHANGED <<balances, moved>>
  BY <1>1, <1>2
<1>3. CASE MovesTo(a, Shifted(balances, a, delta))
  <2> DEFINE left == RoundMilli(balances[a] + delta)
             change == left - balances[a]
  <2>1. left \in Int
    <3>1. balances[a] + delta \in Int
      BY <1>1
    <3>2. QED
      BY <3>1, RoundingIsSmall
  <2>2. Shifted(balances, a, delta) = [balances EXCEPT ![a] = left]
    BY DEF Shifted
  <2> HIDE DEF left
  <2>3. /\ balances' = [balances EXCEPT ![a] = left]
        /\ moved' = [moved EXCEPT ![a] = @ + change]
    BY <1>1, <1>3, <2>2 DEF MovesTo
  <2>4. QED
    BY <1>1, <2>1, <2>3
<1>4. QED
  BY <1>2, <1>3

LEMMA moveBalanceKeeps ==
    ASSUME ExecutionInv, NEW c \in Calls, NEW a \in Registered,
           NEW amount \in Amounts, moveBalance(c, a, amount)
    PROVE  ExecutionInv'
<1>1. ExecutionTypeOK /\ CallsInv /\ BooksInv
  BY DEF ExecutionInv
<1>2. /\ calls[c] = NoCall /\ calls' = [calls EXCEPT ![c] = Finished]
      /\ overtaken' = overtaken \cup UnderWay(a)
      /\ sent' = [sent EXCEPT ![c] = "elsewhere"]
      /\ UNCHANGED <<policies, transactions, tick, activeWallet>>
  BY DEF moveBalance, IsNew, Return, Overtakes, walletVars
<1>3. PICK delta \in Int : MovesTo(a, Shifted(balances, a, delta))
  <2>1. amount \in Int /\ -amount \in Int
    BY ExecutionAssumption
  <2>2. QED
    BY <2>1 DEF moveBalance
<1>4. /\ balances' \in [Registered -> Int] /\ moved' \in [Registered -> Int]
      /\ moved'[a] - moved[a] = balances'[a] - balances[a]
      /\ \A b \in Registered \ {a} :
            balances'[b] = balances[b] /\ moved'[b] = moved[b]
  BY <1>1, <1>3, MovesToMoves
<1>5. transactions[c] = NoTransaction /\ transactions[c].status # "SETTLED"
  BY <1>1, <1>2, NothingIsNotSettled DEF CallsInv, CallOK
<1>6. /\ calls'[c] = Finished /\ \A d \in Calls \ {c} : calls'[d] = calls[d]
      /\ sent'[c] = "elsewhere" /\ \A d \in Calls \ {c} : sent'[d] = sent[d]
  BY <1>1, <1>2 DEF ExecutionTypeOK
<1>7. Finished \notin ExecutionCall \cup PurchaseCall \cup {NoCall}
  BY DEF Finished, ExecutionCall, PurchaseCall, Executors, NoCall
<1>8. ExecutionTypeOK'
  BY <1>1, <1>2, <1>4 DEF ExecutionTypeOK, Fates
<1>9. CallsInv'
  <2> SUFFICES ASSUME NEW d \in Calls PROVE CallOK(d)'
    BY DEF CallsInv
  <2>1. CallOK(d)
    BY <1>1 DEF CallsInv
  <2>2. CASE d = c
    BY <2>2, <1>2, <1>5, <1>6, <1>7 DEF CallOK
  <2>3. CASE d # c
    BY <2>1, <2>3, <1>2, <1>6 DEF CallOK, Today
  <2>4. QED
    BY <2>2, <2>3
<1>10. \A b \in Registered : Paid(b)' = Paid(b)
  BY <1>2, <1>5, <1>6 DEF Paid
<1>11. BooksInv'
  BY <1>2, <1>4, <1>10, BooksFollow
<1>12. \A d \in Calls : calls'[d] \in ExecutionCall =>
          calls'[d] = calls[d] /\ (calls[d].agent = a => d \in overtaken')
  BY <1>1, <1>2, <1>6, <1>7, RunningIsExecution DEF UnderWay
<1>13. LimitsInv'
  BY <1>2, <1>4, <1>12, OthersStay
<1>14. QED
  BY <1>8, <1>9, <1>11, <1>13 DEF ExecutionInv

LEMMA buyKeeps ==
    ASSUME ExecutionInv, NEW c \in Calls, NEW a \in Registered,
           NEW amount \in Amounts, NEW object, buy(c, a, amount, object)
    PROVE  ExecutionInv'
<1>1. ExecutionTypeOK /\ CallsInv /\ BooksInv
  BY DEF ExecutionInv
<1> DEFINE it == [buyer |-> a, amount |-> amount, day |-> Today(tick),
                  status |-> "PENDING"]
           call == [op |-> "buy", at |-> "paying", agent |-> a]
<1>2. /\ calls[c] = NoCall /\ calls' = [calls EXCEPT ![c] = call]
      /\ transactions' = [transactions EXCEPT ![c] = it]
      /\ overtaken' = overtaken \cup UnderWay(a)
      /\ sent' = [sent EXCEPT ![c] = "elsewhere"]
      /\ UNCHANGED <<policies, tick, activeWallet>>
  BY DEF buy, IsNew, Suspend, Overtakes, walletVars
<1>3. /\ balances' \in [Registered -> Int] /\ moved' \in [Registered -> Int]
      /\ moved'[a] - moved[a] = balances'[a] - balances[a]
      /\ \A b \in Registered \ {a} :
            balances'[b] = balances[b] /\ moved'[b] = moved[b]
  <2>1. -amount \in Int
    BY ExecutionAssumption
  <2>2. \/ MovesTo(a, Shifted(balances, a, -amount))
        \/ UNCHANGED <<balances, moved>>
    BY DEF buy
  <2>3. QED
    BY <1>1, <2>1, <2>2, MovesToMoves
<1>4. transactions[c] = NoTransaction /\ transactions[c].status # "SETTLED"
  BY <1>1, <1>2, NothingIsNotSettled DEF CallsInv, CallOK
<1>5. /\ it \in KeptTransaction /\ it.status = "PENDING" /\ it.buyer = a
      /\ it.day = Today(tick)
  BY <1>1, TodayIsNat DEF KeptTransaction
<1>6. call \in PurchaseCall /\ call \notin ExecutionCall \cup {NoCall}
      /\ call.agent = a
  BY DEF PurchaseCall, ExecutionCall, Executors, NoCall
<1> HIDE DEF it, call
<1>7. /\ calls'[c] = call /\ \A d \in Calls \ {c} : calls'[d] = calls[d]
      /\ transactions'[c] = it
      /\ \A d \in Calls \ {c} : transactions'[d] = transactions[d]
      /\ sent'[c] = "elsewhere" /\ \A d \in Calls \ {c} : sent'[d] = sent[d]
  BY <1>1, <1>2 DEF ExecutionTypeOK
<1>8. ExecutionTypeOK'
  <2>1. transactions' \in [Calls -> {NoTransaction} \cup KeptTransaction]
    BY <1>1, <1>2, <1>5 DEF ExecutionTypeOK
  <2>2. calls' \in [Calls -> {NoCall, Finished} \cup ExecutionCall \cup PurchaseCall]
    BY <1>1, <1>2, <1>6 DEF ExecutionTypeOK
  <2>3. QED
    BY <1>1, <1>2, <1>3, <2>1, <2>2 DEF ExecutionTypeOK, Fates
<1>9. CallsInv'
  <2> SUFFICES ASSUME NEW d \in Calls PROVE CallOK(d)'
    BY DEF CallsInv
  <2>1. CallOK(d)
    BY <1>1 DEF CallsInv
  <2>2. Today(tick)' = Today(tick) /\ Today(tick) <= Today(tick)
    BY <1>1, <1>2, TodayIsNat DEF Today
  <2>3. CASE d = c
    BY <2>2, <2>3, <1>5, <1>6, <1>7 DEF CallOK
  <2>4. CASE d # c
    BY <2>1, <2>2, <2>4, <1>7 DEF CallOK
  <2>5. QED
    BY <2>3, <2>4
<1>10. \A b \in Registered : Paid(b)' = Paid(b)
  BY <1>4, <1>5, <1>7 DEF Paid
<1>11. \A d \in Calls : transactions[d].status = "SETTLED" =>
                           transactions'[d].amount = transactions[d].amount
  BY <1>4, <1>7
<1>12. BooksInv'
  BY <1>3, <1>10, <1>11, BooksFollow
<1>13. \A d \in Calls : calls'[d] \in ExecutionCall =>
          calls'[d] = calls[d] /\ (calls[d].agent = a => d \in overtaken')
  BY <1>1, <1>2, <1>6, <1>7, RunningIsExecution DEF UnderWay
<1>14. \A d \in Calls : transactions'[d] # transactions[d] =>
          /\ transactions[d] # NoTransaction => transactions[d].buyer = a
          /\ transactions'[d] # NoTransaction => transactions'[d].buyer = a
  BY <1>4, <1>5, <1>7
<1>15. LimitsInv'
  BY <1>2, <1>3, <1>13, <1>14, OthersStay
<1>16. QED
  BY <1>8, <1>9, <1>12, <1>15 DEF ExecutionInv

LEMMA BuyEndsKeeps ==
    ASSUME ExecutionInv, NEW c \in Calls, BuyEnds(c)
    PROVE  ExecutionInv'
<1>1. ExecutionTypeOK /\ CallsInv /\ BooksInv
  BY DEF ExecutionInv
<1>2. calls[c] \in PurchaseCall /\ calls[c].agent \in Registered
  BY <1>1, RunningIsExecution DEF BuyEnds, PurchaseCall
<1>3. PICK a \in Registered : a = calls[c].agent
  BY <1>2
<1>4. PICK status \in {"SETTLED", "FAILED"} :
         transactions' = [transactions EXCEPT ![c].status = status]
  BY DEF BuyEnds, SetStatus
<1>5. /\ calls' = [calls EXCEPT ![c] = Finished]
      /\ overtaken' = overtaken \cup UnderWay(a)
      /\ UNCHANGED <<balances, policies, tick, activeWallet, sent, moved>>
  BY <1>3 DEF BuyEnds, Return, Overtakes, walletVars
<1>6. /\ sent[c] = "elsewhere" /\ transactions[c].status = "PENDING"
      /\ transactions[c].buyer = a
  BY <1>1, <1>2, <1>3 DEF CallsInv, CallOK
<1>7. transactions[c] # NoTransaction /\ transactions[c] \in KeptTransaction
  BY <1>1, <1>6 DEF NoTransaction, ExecutionTypeOK
<1> DEFINE it == [transactions[c] EXCEPT !.status = status]
<1>8. /\ it \in KeptTransaction /\ it.status = status /\ it.buyer = a
      /\ it.day = transactions[c].day /\ it.amount = transactions[c].amount
  BY <1>6, <1>7 DEF KeptTransaction
<1>9. transactions' = [transactions EXCEPT ![c] = it]
  BY <1>4
<1> HIDE DEF it
<1>10. /\ calls'[c] = Finished /\ \A d \in Calls \ {c} : calls'[d] = calls[d]
       /\ transactions'[c] = it
       /\ \A d \in Calls \ {c} : transactions'[d] = transactions[d]
  BY <1>1, <1>5, <1>9 DEF ExecutionTypeOK
<1>11. Finished \notin ExecutionCall \cup PurchaseCall \cup {NoCall}
  BY DEF Finished, ExecutionCall, PurchaseCall, Executors, NoCall
<1>12. ExecutionTypeOK'
  <2>1. transactions' \in [Calls -> {NoTransaction} \cup KeptTransaction]
    BY <1>1, <1>8, <1>9 DEF ExecutionTypeOK
  <2>2. QED
    BY <1>1, <1>5, <2>1 DEF ExecutionTypeOK
<1>13. CallsInv'
  <2> SUFFICES ASSUME NEW d \in Calls PROVE CallOK(d)'
    BY DEF CallsInv
  <2>1. CallOK(d) /\ CallOK(c)
    BY <1>1 DEF CallsInv
  <2>2. Today(tick)' = Today(tick)
    BY <1>5 DEF Today
  <2>3. CASE d = c
    BY <2>1, <2>2, <2>3, <1>5, <1>6, <1>7, <1>8, <1>10, <1>11 DEF CallOK
  <2>4. CASE d # c
    BY <2>1, <2>2, <2>4, <1>5, <1>10 DEF CallOK
  <2>5. QED
    BY <2>3, <2>4
<1>14. \A b \in Registered : Paid(b)' = Paid(b)
  BY <1>5, <1>6, <1>10 DEF Paid
<1>15. /\ balances' \in [Registered -> Int] /\ moved' \in [Registered -> Int]
       /\ moved'[a] - moved[a] = balances'[a] - balances[a]
  BY <1>1, <1>5 DEF ExecutionTypeOK
<1>16. \A d \in Calls : transactions[d].status = "SETTLED" =>
                           transactions'[d].amount = transactions[d].amount
  BY <1>6, <1>10
<1>17. BooksInv'
  BY <1>5, <1>14, <1>15, <1>16, BooksFollow
<1>18. \A d \in Calls : calls'[d] \in ExecutionCall =>
          calls'[d] = calls[d] /\ (calls[d].agent = a => d \in overtaken')
  BY <1>1, <1>5, <1>10, <1>11, RunningIsExecution DEF UnderWay
<1>19. LimitsInv'
  BY <1>5, <1>6, <1>8, <1>10, <1>18, OthersStay
<1>20. QED
  BY <1>12, <1>13, <1>17, <1>19 DEF ExecutionInv

\* The settlement of an execution: the debit and the record together keep the
\* books, up to the rounding of the debit.
LEMMA ExecutionSettlesKeeps ==
    ASSUME ExecutionInv, NEW c \in Calls, ExecutionSettles(c)
    PROVE  /\ ExecutionInv'
           /\ c \in overtaken \/ \A a \in Registered :
                 calls[c].agent = a =>
                    /\ balances'[a] + Half >= policies'[a].minRetainedBalance
                    /\ Total(PaidOn(a, Today(tick))')
                          <= policies'[a].dailySpendingLimit
<1>1. ExecutionTypeOK /\ CallsInv /\ BooksInv /\ LimitsInv
  BY DEF ExecutionInv
<1>2. calls[c] \in ExecutionCall /\ calls[c].result = "ok"
  BY <1>1, RunningIsExecution DEF ExecutionSettles, Succeeded
<1>3. calls[c].agent \in Registered /\ calls[c].amount \in Amounts
  BY <1>2 DEF ExecutionCall
<1>4. Today(tick) \in Nat
  BY <1>1, TodayIsNat
<1>5. PICK a \in Registered, m \in Amounts, today \in Nat :
          a = calls[c].agent /\ m = calls[c].amount /\ today = Today(tick)
  BY <1>3, <1>4
<1>6. m \in Nat /\ balances[a] \in Int
  BY <1>1, ExecutionAssumption DEF ExecutionTypeOK
<1> DEFINE it == [buyer |-> a, amount |-> m, day |-> today, status |-> "SETTLED"]
           left == RoundMilli(balances[a] + -m)
<1>7. /\ transactions' = [transactions EXCEPT ![c] = it]
      /\ balances' = [balances EXCEPT ![a] = left]
      /\ calls' = [calls EXCEPT ![c] = Finished]
      /\ overtaken' = overtaken \cup (UnderWay(a) \ {c})
      /\ policies' = policies /\ tick' = tick /\ sent' = sent
      /\ moved' = moved /\ activeWallet' = activeWallet
  BY <1>5 DEF ExecutionSettles, Debit, Shifted, Return, walletVars
<1>8. left \in Int /\ balances[a] - m - Half <= left
      /\ left <= balances[a] - m + Half
  <2>1. balances[a] + -m \in Int /\ balances[a] + -m = balances[a] - m
    BY <1>6
  <2>2. QED
    BY <2>1, RoundingIsSmall
<1>9. transactions[c] = NoTransaction /\ transactions[c].status # "SETTLED"
      /\ sent[c] \in Done
  BY <1>1, <1>2, NothingIsNotSettled DEF CallsInv, CallOK
<1>10. it \in KeptTransaction /\ it.status = "SETTLED" /\ it.buyer = a
      /\ it.amount = m /\ it.day = today
  BY <1>6, <1>5 DEF KeptTransaction
<1> HIDE DEF it, left
<1>11. /\ transactions'[c] = it
       /\ \A d \in Calls \ {c} : transactions'[d] = transactions[d]
       /\ calls'[c] = Finished
       /\ \A d \in Calls \ {c} : calls'[d] = calls[d]
       /\ balances' \in [Registered -> Int] /\ balances'[a] = left
       /\ \A b \in Registered \ {a} : balances'[b] = balances[b]
  BY <1>1, <1>7, <1>8 DEF ExecutionTypeOK
<1>12. Finished \notin ExecutionCall \cup PurchaseCall \cup {NoCall}
  BY DEF Finished, ExecutionCall, PurchaseCall, Executors, NoCall
<1>13. ExecutionTypeOK'
  <2>1. transactions' \in [Calls -> {NoTransaction} \cup KeptTransaction]
    BY <1>1, <1>7, <1>10 DEF ExecutionTypeOK
  <2>2. QED
    BY <1>1, <1>7, <1>11, <2>1 DEF ExecutionTypeOK
<1>14. CallsInv'
  <2> SUFFICES ASSUME NEW d \in Calls PROVE CallOK(d)'
    BY DEF CallsInv
  <2>1. CallOK(d)
    BY <1>1 DEF CallsInv
  <2>2. Today(tick)' = today /\ today <= today
    BY <1>5, <1>7 DEF Today
  <2>3. CASE d = c
    BY <2>2, <2>3, <1>7, <1>9, <1>10, <1>11, <1>12 DEF CallOK
  <2>4. CASE d # c
    BY <2>1, <2>2, <2>4, <1>5, <1>7, <1>11 DEF CallOK
  <2>5. QED
    BY <2>3, <2>4
<1>15. "elsewhere" \notin Done
  BY DEF Done
<1>16. /\ c \notin Paid(a) /\ Paid(a)' = Paid(a) \cup {c}
       /\ \A b : b # a => Paid(b)' = Paid(b)
  BY <1>7, <1>9, <1>10, <1>11, <1>15 DEF Paid
<1>17. Cardinality(Paid(a)') = Cardinality(Paid(a)) + 1
       /\ Cardinality(Paid(a)) \in Nat
  BY <1>16, PaidIsCounted, FS_AddElement
<1>18. \A d : /\ c \notin SettledOn(a, d)
              /\ SettledOn(a, d)' = IF d = today THEN SettledOn(a, d) \cup {c}
                                    ELSE SettledOn(a, d)
  BY <1>9, <1>10, <1>11 DEF SettledOn
<1>19. /\ \A x \in Calls \ {c} : PaidBy(a)[x] = PaidBy(a)'[x]
       /\ PaidBy(a)[c] = 0 /\ PaidBy(a)'[c] = m
       /\ \A x \in Calls \ {c} : PaidOn(a, today)[x] = PaidOn(a, today)'[x]
       /\ PaidOn(a, today)[c] = 0 /\ PaidOn(a, today)'[c] = m
  BY <1>10, <1>11, <1>16, <1>18 DEF PaidBy, PaidOn
<1>20. /\ PaidBy(a) \in [Calls -> Nat] /\ PaidOn(a, today) \in [Calls -> Nat]
       /\ Total(PaidBy(a)) \in Nat /\ Total(PaidOn(a, today)) \in Nat
  BY <1>1, PaidIsNat
<1>21. PaidBy(a)' \in [Calls -> Nat] /\ PaidOn(a, today)' \in [Calls -> Nat]
  <2>1. PaidBy(a)' = [x \in Calls |-> IF x = c THEN m ELSE PaidBy(a)[x]]
    BY <1>19 DEF PaidBy
  <2>2. PaidOn(a, today)' = [x \in Calls |-> IF x = c THEN m ELSE PaidOn(a, today)[x]]
    BY <1>19 DEF PaidOn
  <2>3. QED
    BY <2>1, <2>2, <1>6, <1>20
<1>22. Total(PaidBy(a)') + 0 = Total(PaidBy(a)) + m
       /\ Total(PaidOn(a, today)') + 0 = Total(PaidOn(a, today)) + m
       /\ Total(PaidBy(a)') \in Nat /\ Total(PaidOn(a, today)') \in Nat
  BY <1>19, <1>20, <1>21, CallsFinite, TotalPoint, TotalIsNat
<1>23. BooksInv'
  <2> SUFFICES ASSUME NEW b \in Registered
               PROVE  /\ (Books(b) - Half * Cardinality(Paid(b)) <= balances[b])'
                      /\ (balances[b] <= Books(b) + Half * Cardinality(Paid(b)))'
    BY DEF BooksInv
  <2>1. CASE b # a
    <3>1. PaidBy(b)' = PaidBy(b) /\ Paid(b)' = Paid(b)
      <4>1. Paid(b)' = Paid(b)
        BY <2>1, <1>16
      <4>2. c \notin Paid(b)
        BY <1>9 DEF Paid
      <4>3. QED
        BY <4>1, <4>2, <1>11 DEF PaidBy
    <3>2. Books(b)' = Books(b) /\ (Half * Cardinality(Paid(b)))' = Half * Cardinality(Paid(b))
      BY <3>1, <1>7 DEF Books, Half, Milli
    <3>3. QED
      BY <2>1, <3>2, <1>1, <1>11 DEF BooksInv
  <2>2. CASE b = a
    <3> DEFINE paid == Total(PaidBy(a))
               after == Total(PaidBy(a)')
               count == Cardinality(Paid(a))
    <3>1. Books(a) = Endowment[a] + moved[a] - paid
      BY DEF Books
    <3>2. Books(a)' = Endowment[a] + moved[a] - after
      BY <1>7 DEF Books
    <3>3. (Half * Cardinality(Paid(a)))' = 50 * (count + 1)
          /\ Half * Cardinality(Paid(a)) = 50 * count /\ Half = 50
      BY <1>17 DEF Half, Milli
    <3>4. Endowment[a] \in Int /\ moved[a] \in Int
      BY <1>1, StoreAssumption DEF ExecutionTypeOK
    <3>5. paid \in Nat /\ after \in Nat /\ count \in Nat /\ after + 0 = paid + m
      BY <1>17, <1>20, <1>22
    <3>6. Books(a) - 50 * count <= balances[a] /\ balances[a] <= Books(a) + 50 * count
      BY <1>1, <3>3 DEF BooksInv
    <3> HIDE DEF paid, after, count
    <3>7. Books(a)' - 50 * (count + 1) <= left /\ left <= Books(a)' + 50 * (count + 1)
      BY <1>6, <1>8, <3>1, <3>2, <3>3, <3>4, <3>5, <3>6
    <3>8. QED
      BY <2>2, <1>11, <3>3, <3>7
  <2>3. QED
    BY <2>1, <2>2
<1>24. \A d \in Calls : calls'[d] \in ExecutionCall =>
          calls'[d] = calls[d] /\ (calls[d].agent = a => d \in overtaken')
  BY <1>1, <1>7, <1>11, <1>12, RunningIsExecution DEF UnderWay
<1>25. \A d \in Calls : transactions'[d] # transactions[d] =>
          /\ transactions[d] # NoTransaction => transactions[d].buyer = a
          /\ transactions'[d] # NoTransaction => transactions'[d].buyer = a
  BY <1>9, <1>10, <1>11
<1>26. LimitsInv'
  BY <1>7, <1>11, <1>24, <1>25, OthersStay
<1>27. ASSUME c \notin overtaken
       PROVE  /\ left + Half >= policies[a].minRetainedBalance
              /\ Total(PaidOn(a, today)') <= policies[a].dailySpendingLimit
  <2>1. Affordable(a, m)
    BY <1>1, <1>2, <1>5, <1>27 DEF LimitsInv, Pays
  <2>2. balances[a] - m >= policies[a].minRetainedBalance
        /\ Total(PaidOn(a, today)) + m <= policies[a].dailySpendingLimit
    BY <2>1, <1>5 DEF Affordable
  <2>3. policies[a].minRetainedBalance \in Nat /\ Half \in Nat
        /\ policies[a].dailySpendingLimit \in Nat
    BY <1>1, PolicyNumbers DEF Half, Milli
  <2> DEFINE before == Total(PaidOn(a, today))
             after == Total(PaidOn(a, today)')
  <2>4. before \in Nat /\ after \in Nat /\ after + 0 = before + m
    BY <1>20, <1>22
  <2> HIDE DEF before, after
  <2>5. after <= policies[a].dailySpendingLimit
    BY <1>6, <2>2, <2>3, <2>4 DEF before
  <2>6. QED
    BY <1>6, <1>8, <2>2, <2>3, <2>5 DEF after
<1>28. QED
  BY <1>5, <1>7, <1>11, <1>13, <1>14, <1>23, <1>26, <1>27 DEF ExecutionInv, Today

-----------------------------------------------------------------------------
(* All steps                                                               *)

LEMMA TimePassesKeeps ==
    ASSUME ExecutionInv, TimePasses,
           UNCHANGED <<walletVars, metaMask, sent, historyVars>>
    PROVE  ExecutionInv'
<1>1. ExecutionTypeOK /\ CallsInv /\ BooksInv /\ LimitsInv
  BY DEF ExecutionInv
<1>2. /\ balances' = balances /\ policies' = policies /\ calls' = calls
      /\ transactions' = transactions /\ sent' = sent /\ moved' = moved
      /\ overtaken' = overtaken /\ activeWallet' = activeWallet
      /\ tick \in Nat /\ tick' = tick + 1
  BY <1>1 DEF TimePasses, walletVars, historyVars, ExecutionTypeOK
<1>3. Today(tick) \in Nat /\ Today(tick)' \in Nat /\ Today(tick) <= Today(tick)'
  BY <1>2 DEF Today, HoursPerTick
<1>4. ExecutionTypeOK'
  BY <1>1, <1>2 DEF ExecutionTypeOK
<1>5. CallsInv'
  <2> SUFFICES ASSUME NEW d \in Calls PROVE CallOK(d)'
    BY DEF CallsInv
  <2>1. CallOK(d)
    BY <1>1 DEF CallsInv
  <2>2. transactions[d] # NoTransaction => transactions[d].day \in Nat
    BY <1>1, WhatIsKept
  <2>3. QED
    BY <1>2, <1>3, <2>1, <2>2 DEF CallOK
<1>6. \A a : Paid(a)' = Paid(a) /\ PaidBy(a)' = PaidBy(a)
             /\ \A d : PaidOn(a, d)' = PaidOn(a, d)
  BY <1>2 DEF Paid, PaidBy, PaidOn, SettledOn
<1>7. BooksInv'
  BY <1>1, <1>2, <1>6 DEF BooksInv, Books
<1>8. ASSUME NEW a, NEW amount, Affordable(a, amount)
      PROVE  Affordable(a, amount)'
  <2>1. \A d \in Nat : d >= Today(tick)' => d >= Today(tick)
    BY <1>3
  <2>2. QED
    BY <1>2, <1>6, <1>8, <2>1 DEF Affordable
<1>9. LimitsInv'
  <2> SUFFICES ASSUME NEW d \in Calls \ overtaken, NEW a \in Registered,
                      NEW amount \in Amounts, Pays(d, a, amount)
               PROVE  Affordable(a, amount)'
    BY <1>2 DEF LimitsInv, Pays
  <2>1. QED
    BY <1>1, <1>8 DEF LimitsInv
<1>10. QED
  BY <1>4, <1>5, <1>7, <1>9 DEF ExecutionInv

\* The wallet comes and goes, and the executions do not notice.
LEMMA WalletStays ==
    ASSUME ExecutionInv, activeWallet' \in Wallets \cup {NoWallet},
           UNCHANGED <<balances, policies, transactions, tick, calls, sent,
                       historyVars>>
    PROVE  ExecutionInv'
<1>1. ExecutionTypeOK /\ CallsInv /\ BooksInv /\ LimitsInv
  BY DEF ExecutionInv
<1>2. UNCHANGED <<balances, policies, transactions, tick, calls, sent, moved,
                  overtaken>>
  BY DEF historyVars
<1>3. ExecutionTypeOK'
  BY <1>1, <1>2 DEF ExecutionTypeOK
<1>4. UNCHANGED booksVars
      /\ \A c \in Calls : transactions[c].status = "SETTLED" => sent'[c] = sent[c]
  BY <1>2 DEF booksVars
<1>5. CallsInv'
  BY <1>1, <1>2 DEF CallsInv, CallOK, Today
<1>6. BooksInv' /\ \A a, amount : Affordable(a, amount) => Affordable(a, amount)'
  BY <1>1, <1>4, BooksStay
<1>7. \A c \in Calls : \A a, amount : Pays(c, a, amount)' <=> Pays(c, a, amount)
  BY <1>2 DEF Pays
<1>8. LimitsInv'
  BY <1>1, <1>2, <1>6, <1>7 DEF LimitsInv
<1>9. QED
  BY <1>3, <1>5, <1>6, <1>8 DEF ExecutionInv

LEMMA ExecutionStep == ExecutionInv /\ [ExecutionNext]_executionVars => ExecutionInv'
<1> SUFFICES ASSUME ExecutionInv, [ExecutionNext]_executionVars
             PROVE  ExecutionInv'
  OBVIOUS
<1>1. activeWallet \in Wallets \cup {NoWallet}
  BY DEF ExecutionInv, ExecutionTypeOK
<1>2. ASSUME NEW c \in Calls, Execute(c) PROVE ExecutionInv'
  <2>1. PICK agent \in AgentIds, amount \in Amounts,
             category \in Objects \cup {Uncategorised} :
            \/ executeDynamic(c, agent, amount, category)
            \/ \E recipient \in Recipients :
                  \/ executeEconomicTransaction(c, agent, amount, recipient,
                                                category)
                  \/ \E approve \in BOOLEAN :
                        executeMetaMask(c, agent, amount, recipient, category,
                                        approve)
    BY <1>2 DEF Execute
  <2>2. QED
    BY <2>1, executeDynamicKeeps, executeMetaMaskKeeps
    DEF executeEconomicTransaction
<1>3. ASSUME NEW c \in Calls, ExecutionGoesOn(c) PROVE ExecutionInv'
  BY <1>3, DynamicOpenedKeeps, AnswerKeeps, ExecutionFailsKeeps,
     ExecutionSettlesKeeps DEF ExecutionGoesOn
<1>4. ASSUME NEW c \in Calls, BuyEnds(c) PROVE ExecutionInv'
  BY <1>4, BuyEndsKeeps
<1>5. CASE RestOfSDK
  BY <1>5, handleUpdatePolicyKeeps, moveBalanceKeeps, buyKeeps DEF RestOfSDK
<1>6. CASE initializeFromConfig
  BY <1>1, <1>6, WalletStays DEF initializeFromConfig, walletVars
<1>7. CASE /\ WalletStep
           /\ UNCHANGED <<balances, policies, objects, records, transactions,
                          tick, calls, metaMask, sent, historyVars>>
  <2>1. activeWallet' \in Wallets \cup {NoWallet}
    BY <1>1, <1>7 DEF WalletStep, setActiveWallet, ClientOpened, disconnect
  <2>2. QED
    BY <1>7, <2>1, WalletStays
<1>8. CASE TimePasses /\ UNCHANGED <<walletVars, metaMask, sent, historyVars>>
  BY <1>8, TimePassesKeeps
<1>9. CASE UNCHANGED executionVars
  BY <1>1, <1>9, WalletStays DEF executionVars, walletVars
<1>10. QED
  BY <1>2, <1>3, <1>4, <1>5, <1>6, <1>7, <1>8, <1>9 DEF ExecutionNext

THEOREM ExecutionInvariant == ExecutionSpec => []ExecutionInv
BY ExecutionStarts, ExecutionStep, PTL DEF ExecutionSpec

\* The treasury and the transactions of an agent tell one story, up to half a
\* milli-MON for each execution that settled, however many executions overlap,
\* whatever becomes of each, however small the amounts are and whatever else
\* moves the balance (policyGatedExecutor.ts:155-191,
\* dynamicPolicyExecutor.ts:76-103, store.ts:102).
THEOREM BooksAlwaysBalance == ExecutionSpec => []BooksBalance
<1>1. ExecutionInv => BooksBalance
  <2> SUFFICES ASSUME ExecutionInv, NEW a \in Registered
               PROVE  /\ \A c \in Paid(a) : sent[c] \in {"mined", "simulated"}
                      /\ -((Milli \div 2) * Cardinality(Paid(a))) <= Drift(a)
                      /\ Drift(a) <= (Milli \div 2) * Cardinality(Paid(a))
    BY DEF BooksBalance
  <2>1. ExecutionTypeOK /\ BooksInv /\ CallsInv
    BY DEF ExecutionInv
  <2>2. \A c \in Paid(a) : sent[c] \in {"mined", "simulated"}
    BY <2>1 DEF Paid, CallsInv, CallOK, Done
  <2>3. Sum(Paid(a)) = Total(PaidBy(a)) /\ Total(PaidBy(a)) \in Nat
    BY <2>1, PaidIsNat
  <2> DEFINE most == (Milli \div 2) * Cardinality(Paid(a))
             paid == Total(PaidBy(a))
  <2>4. most \in Nat /\ paid \in Nat
    BY <2>3, PaidIsCounted DEF Milli
  <2>5. balances[a] \in Int /\ moved[a] \in Int /\ Endowment[a] \in Nat
    BY <2>1, StoreAssumption DEF ExecutionTypeOK
  <2>6. Drift(a) = balances[a] - (Endowment[a] + moved[a] - paid)
    BY <2>3 DEF Drift
  <2>7. /\ (Endowment[a] + moved[a] - paid) - most <= balances[a]
        /\ balances[a] <= (Endowment[a] + moved[a] - paid) + most
    BY <2>1 DEF BooksInv, Books, Half
  <2> HIDE DEF most, paid
  <2>8. -most <= Drift(a) /\ Drift(a) <= most
    BY <2>4, <2>5, <2>6, <2>7
  <2>9. QED
    BY <2>2, <2>8 DEF most
<1>2. QED
  BY <1>1, ExecutionInvariant, PTL

\* The total of the day is what the policy engine adds up.
Fits(a) ==
    /\ balances[a] + Half >= policies[a].minRetainedBalance
    /\ Total(PaidOn(a, Today(tick))) <= policies[a].dailySpendingLimit
FitsIsWithinLimits == \A a \in Registered : Fits(a) => WithinLimits(a)

LEMMA DayIsAddedUp == ExecutionInv => FitsIsWithinLimits
<1> SUFFICES ASSUME ExecutionInv, NEW a \in Registered, Fits(a)
             PROVE  WithinLimits(a)
  BY DEF FitsIsWithinLimits
<1>1. dailySpent(a) = Total(PaidOn(a, Today(tick)))
  BY PaidIsNat DEF ExecutionInv
<1>2. QED
  BY <1>1 DEF Fits, WithinLimits, Half

\* Only the call itself settles an execution.
LEMMA SettlesItself ==
    ASSUME ExecutionInv, [ExecutionNext]_executionVars,
           NEW c \in Calls, NEW a \in Registered, SettlesFor(c, a)
    PROVE  ExecutionSettles(c)
<1>1. ExecutionTypeOK /\ CallsInv
  BY DEF ExecutionInv
<1>2. calls[c] \in ExecutionCall /\ transactions[c].status # "SETTLED"
      /\ transactions'[c] # transactions[c] /\ ~IsAt(c, "buy", "paying")
      /\ calls[c] # NoCall
  <2>1. calls[c] \in ExecutionCall /\ transactions[c].status # "SETTLED"
    BY <1>1, RunningIsExecution, NothingIsNotSettled
       DEF SettlesFor, CallsInv, CallOK
  <2>2. QED
    BY <2>1 DEF SettlesFor, IsAt, ExecutionCall, Executors, NoCall
<1>3. ASSUME NEW d, transactions' = [transactions EXCEPT ![d] = transactions'[d]]
      PROVE  d = c
  BY <1>1, <1>2, <1>3 DEF ExecutionTypeOK
<1>4. ASSUME NEW d \in Calls, Execute(d) PROVE FALSE
  BY <1>2, <1>4 DEF Execute, executeDynamic, executeEconomicTransaction, executeMetaMask
<1>5. ASSUME NEW d \in Calls, ExecutionGoesOn(d) PROVE ExecutionSettles(c)
  <2>1. ExecutionSettles(d)
    BY <1>2, <1>5 DEF ExecutionGoesOn, DynamicOpened, Answer, ExecutionFails
  <2>2. transactions' = [transactions EXCEPT ![d] = transactions'[d]]
    BY <1>1, <2>1 DEF ExecutionSettles, ExecutionTypeOK
  <2>3. QED
    BY <1>3, <2>1, <2>2
<1>6. ASSUME NEW d \in Calls, BuyEnds(d) PROVE FALSE
  <2>1. transactions' = [transactions EXCEPT ![d] = transactions'[d]]
    BY <1>1, <1>6 DEF BuyEnds, SetStatus, ExecutionTypeOK
  <2>2. d = c
    BY <1>3, <2>1
  <2>3. QED
    BY <1>2, <1>6, <2>2 DEF BuyEnds
<1>7. ASSUME RestOfSDK PROVE FALSE
  <2>1. PICK b \in Registered, d \in Calls, amount \in Amounts, object \in Objects :
           buy(d, b, amount, object)
    BY <1>2, <1>7 DEF RestOfSDK, handleUpdatePolicy, updatePolicy, moveBalance
  <2>2. transactions' = [transactions EXCEPT ![d] = transactions'[d]]
        /\ calls[d] = NoCall
    BY <1>1, <2>1 DEF buy, IsNew, ExecutionTypeOK
  <2>3. QED
    BY <1>2, <1>3, <2>2
<1>8. ASSUME initializeFromConfig \/ TimePasses \/ UNCHANGED transactions PROVE FALSE
  BY <1>2, <1>8 DEF initializeFromConfig, TimePasses
<1>9. QED
  BY <1>4, <1>5, <1>6, <1>7, <1>8 DEF ExecutionNext, executionVars

\* The checks that were made before the wallet was asked still hold when it has
\* answered, unless the execution was overtaken, for any policies, amounts and
\* number of payments, and also across midnight (policyGatedExecutor.ts:85,
\* :173; dynamicPolicyExecutor.ts:37, :88; App.tsx:157).
THEOREM LimitsHoldUnlessOvertaken == ExecutionSpec => LimitsUnlessOvertaken
<1> DEFINE Keeps == \A c \in Calls \ overtaken, a \in Registered :
                       SettlesFor(c, a) => WithinLimits(a)'
<1>1. ExecutionInv /\ FitsIsWithinLimits' /\ [ExecutionNext]_executionVars
         => [Keeps]_executionVars
  <2> SUFFICES ASSUME ExecutionInv, FitsIsWithinLimits',
                      [ExecutionNext]_executionVars,
                      NEW c \in Calls \ overtaken, NEW a \in Registered,
                      SettlesFor(c, a)
               PROVE  WithinLimits(a)'
    OBVIOUS
  <2>1. ExecutionSettles(c)
    BY SettlesItself
  <2>2. calls[c].agent = a
    BY DEF SettlesFor
  <2>3. /\ balances'[a] + Half >= policies'[a].minRetainedBalance
        /\ Total(PaidOn(a, Today(tick))') <= policies'[a].dailySpendingLimit
    BY <2>1, <2>2, ExecutionSettlesKeeps
  <2>4. Fits(a)'
    BY <2>3 DEF Fits, Half
  <2>5. QED
    BY <2>4 DEF FitsIsWithinLimits
<1>2. QED
  BY <1>1, DayIsAddedUp, ExecutionInvariant, PTL DEF ExecutionSpec, LimitsUnlessOvertaken

=============================================================================
