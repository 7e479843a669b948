---------------------------- MODULE AgentRuntime ----------------------------
(***************************************************************************)
(* src/sdk/agent/runtime.ts and the user interface as the two callers of   *)
(* one SDK, and the escrow manager they share (src/sdk/escrow.ts).  The    *)
(* runtime dispatches what a model proposes: a capability, then the        *)
(* policy, then the engine or the escrow manager.  The views of            *)
(* src/components call the escrow manager themselves.                      *)
(***************************************************************************)
EXTENDS EconomicEngine

CONSTANTS
    Capabilities,  \* agent -> the capabilities it was given
    Edited,        \* bound: the agents whose policy somebody edits
    Amounts        \* amounts that are paid and locked

ASSUME RuntimeAssumption ==
    /\ Capabilities \in [Registered -> SUBSET {"canPurchaseServices",
                                               "canUseEscrow",
                                               "canRecoverValue"}]
    /\ Edited \subseteq Registered
    /\ Amounts \subseteq Nat

runtimeVars == <<storeVars, calls, settleVars>>

-----------------------------------------------------------------------------
(* Escrows.  The funds are locked first and the record is made when that   *)
(* is answered; deliveries are noted in the store alone; a release marks   *)
(* the record before it asks for the payment; a refund asks for the        *)
(* payment whatever the record says.                                       *)

escrowCall(op, e) == [op |-> op, at |-> "start", result |-> "none",
                      escrow |-> e]

createEscrow(c, buyer, seller, amount) ==
    /\ IsNew(c)
    /\ lockFunds(c, [op |-> "createEscrow", at |-> "start", result |-> "none",
                     buyer |-> buyer, seller |-> seller, amount |-> amount],
                 "locking", buyer, amount)
    /\ UNCHANGED <<policies, objects, records, transactions, tick, settleVars>>

\* The lock is answered: only now is there a record of it.
EscrowLocked(c) ==
    LET call == calls[c]
    IN  /\ IsAt(c, "createEscrow", "locking") /\ Answered(c)
        /\ IF call.result = "ok"
           THEN records' = [records EXCEPT ![c] =
                    [buyer |-> call.buyer, seller |-> call.seller,
                     amount |-> call.amount, status |-> "LOCKED",
                     hashIsHex |-> FALSE]]
           ELSE UNCHANGED records
        /\ Return(c)
        /\ UNCHANGED <<balances, policies, objects, transactions, tick,
                       settleVars>>

\* Any hash is accepted here; one without 0x can never be released.
submitDelivery(e, isHex) ==
    /\ records[e].status = "LOCKED"
    /\ records' = [records EXCEPT ![e].status = "DELIVERED",
                                  ![e].hashIsHex = isHex]
    /\ UNCHANGED <<balances, policies, objects, transactions, tick, calls,
                   settleVars>>

verifyAndReleaseAgain(c, e) ==
    /\ IsNew(c)
    /\ records[e] # NoRecord /\ records[e].hashIsHex
    /\ releaseEscrow(c, escrowCall("release", e), "releasing", e)
    /\ UNCHANGED <<policies, objects, transactions, tick, adapter, switches,
                   chainEscrows, chainOwner, payments>>

\* VERIFIED is recorded, and then the release asked for: the local adapter
\* has replaced it by RELEASED before the call is suspended.
verifyAndRelease(c, e) ==
    /\ IsNew(c)
    /\ records[e].status = "DELIVERED" /\ records[e].hashIsHex
    /\ releaseEscrow(c, escrowCall("release", e), "releasing", e)
    /\ UNCHANGED <<policies, objects, transactions, tick, adapter, switches,
                   chainEscrows, chainOwner, payments>>

refund(c, e) ==
    /\ IsNew(c)
    /\ records[e] # NoRecord
    /\ refundEscrow(c, escrowCall("refund", e), "refunding", e)
    /\ UNCHANGED <<policies, objects, transactions, tick, adapter, switches,
                   chainEscrows, chainOwner, payments, releases>>

\* The answer is passed on; the store is left as it is.
EscrowEnds(c) ==
    /\ \/ IsAt(c, "release", "releasing")
       \/ IsAt(c, "refund", "refunding")
    /\ Answered(c)
    /\ Return(c)
    /\ UNCHANGED <<storeVars, settleVars>>

EscrowResumes(c) == EscrowLocked(c) \/ EscrowEnds(c)

-----------------------------------------------------------------------------
(* Callers                                                                 *)

\* checkAgentCapability.
May(agent, capability) ==
    agent \in Registered /\ capability \in Capabilities[agent]

\* dispatchAction for a purchase.
DispatchPurchase(c, agent, seller, o, amount) ==
    /\ May(agent, "canPurchaseServices")
    /\ buy(c, agent, seller, o, amount)

\* dispatchAction for an escrow: no await separates the policy's answer from
\* the lock, but nothing of the escrow ever counts towards the daily limit.
DispatchEscrow(c, agent, seller, amount) ==
    /\ May(agent, "canUseEscrow")
    /\ validateTransaction(agent, amount, Uncategorised) = {}
    /\ createEscrow(c, agent, seller, amount)

dispatchAction(c) ==
    \E agent \in AgentIds, seller \in AgentIds, amount \in Amounts :
        \/ DispatchEscrow(c, agent, seller, amount)
        \/ \E o \in Objects : DispatchPurchase(c, agent, seller, o, amount)

\* The escrow and discovery views lock, deliver, release and refund without
\* asking the policy.
ViewAction(c) ==
    \/ \E buyer \in Registered, seller \in AgentIds, amount \in Amounts :
          createEscrow(c, buyer, seller, amount)
    \/ \E e \in Escrows : verifyAndRelease(c, e) \/ refund(c, e)

\* Each call goes on once it has its answer.
Resume(c) == BuyResumes(c) \/ EscrowResumes(c)

PolicyEdit == \E a \in Edited, policy \in Policies :
                  updatePolicy(a, policy) /\ UNCHANGED settleVars

RuntimeInit == StoreInit /\ SettlementInit

RuntimeNext ==
    \/ \E c \in Calls : dispatchAction(c) \/ ViewAction(c) \/ Resume(c)
    \/ \E c \in Calls : Mined(c) \/ NotMined(c)
    \/ \E e \in Escrows : ActOnChain(e)
    \/ \E e \in Escrows, isHex \in BOOLEAN : submitDelivery(e, isHex)
    \/ setSettlementAdapter
    \/ PolicyEdit
    \/ TimePasses /\ UNCHANGED settleVars

RuntimeSpec == RuntimeInit /\ [][RuntimeNext]_runtimeVars

-----------------------------------------------------------------------------
(* Properties                                                              *)

RuntimeTypeOK == StoreTypeOK /\ SettlementTypeOK

\* However purchases, locks and answers interleave, a purchase is paid at most
\* once; it is recorded as settled only if it was paid, and as refused only if
\* it was not (engine.ts:52-117).
SettledMeansPaid ==
    \A c \in Calls :
        /\ payments[c] <= 1
        /\ transactions[c].status = "SETTLED" => payments[c] = 1
        /\ transactions[c].status = "BLOCKED_BY_POLICY" => payments[c] = 0

\* The store pays the seller of an escrow at most once, and only after a
\* delivery whose hash could be verified (escrow.ts:86-119).  The contract pays
\* at most once too, but neither knows of the other: a seller can have both
\* payments if the adapter was exchanged, since the escrow locked on the chain
\* is then released in the store while its parties release it on the chain
\* (ECONEscrow.sol:112-144).  Without an exchange only one of the two ever
\* holds or pays an escrow.
SellerPaidOnce ==
    \A e \in Escrows :
        /\ releases[e] <= 1
        /\ releases[e] = 1 /\ chainEscrows[e] # "NONE" => switches > 0
        /\ releases[e] = 1 =>
              /\ records[e] # NoRecord
              /\ records[e].hashIsHex
              /\ records[e].status \notin {"LOCKED", "DELIVERED"}

\* Coin leaves the store for a purchase only if that leaves the buyer the
\* reserve its policy asks for and is within its limit for one transaction:
\* no call gets between the check and the local payment (engine.ts:52, :95).
ReserveKept ==
    [][\A c \in Calls :
          payments'[c] > payments[c] /\ balances' # balances =>
             LET buyer == transactions'[c].buyer
             IN  /\ balances'[buyer] >= policies[buyer].minRetainedBalance
                 /\ transactions'[c].amount <= policies[buyer].maxPerTransaction
      ]_runtimeVars

=============================================================================
