----------------------------- MODULE MCWallets ------------------------------
(***************************************************************************)
(* The wallets of the page as its two users see them: the executors of     *)
(* agents' payments, and the sessions that say who controls and signs.     *)
(* A behaviour is one of one of them, the other stays as it was.           *)
(*                                                                         *)
(* Payments: one agent with a treasury, one connection of a wallet,        *)
(* executions across midnight.  Passkeys: one from an earlier visit and a  *)
(* new one, two ceremonies that succeed, one connection, one registration. *)
(* Connections: two of them, and one ceremony that succeeds.               *)
(***************************************************************************)
EXTENDS GatedExecution, Session

CONSTANTS alice, stranger, mobile, browser, api, old, new

VARIABLE user

paymentVars == <<balances, policies, objects, records, transactions, tick,
                 calls, metaMask, sent, historyVars>>
controlVars == <<meraVars, appVars, viewVars>>
pageVars == <<paymentVars, walletVars, controlVars, user>>

Limits == [maxPerTransaction |-> 400, dailySpendingLimit |-> 500,
           minRetainedBalance |-> 100, requireApprovalAbove |-> 200,
           allowedObjects |-> {}, autoRecoveryEnabled |-> TRUE,
           autoTransferEnabled |-> TRUE]

\* What the operator may change the policy to, and back.
Stricter == [Limits EXCEPT !.minRetainedBalance = 440]
TwoPolicies == {Limits, Stricter}
MCEndowment == [a \in Registered |-> 800]
MCOwner == [o \in Objects |-> alice]
NoSeeds == [e \in {} |-> NoRecord]

PageInit ==
    /\ ExecutionInit /\ SessionInit
    /\ user \in {"payments", "passkeys", "connections"}
    /\ user # "payments" => metaMask = "starting"

PaymentsRun ==
    /\ user = "payments" /\ ExecutionNext /\ opened' <= 1
    /\ UNCHANGED <<controlVars, user>>
SessionsRun ==
    /\ user # "payments" /\ SessionNext
    /\ IF user = "passkeys" THEN opened' <= 1 ELSE Cardinality(Made') <= 1
    /\ UNCHANGED <<paymentVars, user>>

PageSpec == PageInit /\ [][PaymentsRun \/ SessionsRun]_pageVars

=============================================================================
