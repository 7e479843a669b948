----------------------------- MODULE Settlement -----------------------------
(***************************************************************************)
(* The two settlement adapters behind one interface.                       *)
(*                                                                         *)
(* LocalSettlementAdapter moves balances and objects of the store before   *)
(* its caller's await returns.  MonadSettlementAdapter sends a transaction *)
(* and waits for its receipt: the chain changes, the store does not, and   *)
(* the caller may be told of a failure although the transaction counts.    *)
(* ECON.setSettlementAdapter exchanges one for the other at any time.      *)
(***************************************************************************)
EXTENDS EconomicStore

CONSTANTS
    FirstAdapter,  \* the adapter the SDK is built with
    MaxSwitches    \* bound: exchanges of the adapter that are explored

ASSUME SettlementAssumption ==
    FirstAdapter \in {"local", "monad"} /\ MaxSwitches \in Nat

VARIABLES
    adapter,       \* the adapter in use
    switches,      \* how often it was exchanged
    chainEscrows,  \* escrow -> its status on ECONEscrow
    chainOwner,    \* object -> its owner on ECONEconomicObject
    payments,      \* history: purchase -> payments made for it
    releases       \* history: escrow -> times the store paid its seller

settleVars == <<adapter, switches, chainEscrows, chainOwner, payments,
                releases>>

SettlementInit ==
    /\ adapter = FirstAdapter
    /\ switches = 0
    /\ chainEscrows = [e \in Escrows |-> "NONE"]
    /\ chainOwner = OwnerAtFirst
    /\ payments = [c \in Calls |-> 0]
    /\ releases = [e \in Escrows |-> 0]

SettlementTypeOK ==
    /\ adapter \in {"local", "monad"}
    /\ switches \in 0..MaxSwitches
    /\ chainEscrows \in
          [Escrows -> {"NONE", "LOCKED", "DELIVERED", "RELEASED", "REFUNDED"}]
    /\ chainOwner \in [Objects -> AgentIds]
    /\ payments \in [Calls -> Nat]
    /\ releases \in [Escrows -> Nat]

IsLocal == adapter = "local"

\* A request that a call awaits: its result is "sent" while the Monad
\* adapter waits for the wallet and the receipt.
Outcome(call, place, result) == [call EXCEPT !.at = place, !.result = result]
Answered(c) == calls[c].result \in {"ok", "failed"}

\* Awaiting a request of the local adapter, which has run; or of the other:
\* without a signer, or for an address that is none, it fails at once.
Await(c, call, place, succeeds) ==
    \/ IsLocal /\ Suspend(c, Outcome(call, place,
                                     IF succeeds THEN "ok" ELSE "failed"))
    \/ /\ ~IsLocal
       /\ \E result \in {"sent", "failed"} :
             Suspend(c, Outcome(call, place, result))

-----------------------------------------------------------------------------
(* LocalSettlementAdapter                                                  *)

CanTransfer(from, to, amount) ==
    /\ from \in Registered /\ balances[from] >= amount
    /\ to \in Registered

\* transfer(from, to, amount), paid for by the call c.
transfer(c, call, place, from, to, amount) ==
    LET succeeds == CanTransfer(from, to, amount)
    IN  /\ Await(c, call, place, succeeds)
        /\ IF IsLocal /\ succeeds
           THEN /\ balances' = Shifted(Shifted(balances, from, -amount),
                                       to, amount)
                /\ payments' = [payments EXCEPT ![c] = @ + 1]
           ELSE UNCHANGED <<balances, payments>>

\* transferEconomicObject(o, from, to).
transferEconomicObject(c, call, place, o, from, to) ==
    LET succeeds == objects[o].owner = from /\ o \in Transferable
    IN  /\ Await(c, call, place, succeeds)
        /\ IF IsLocal /\ succeeds
           THEN UpdateObject(o, "ACTIVE", to)
           ELSE UNCHANGED objects

\* lockEscrow: the seller need not be an agent of the store.
CanLock(buyer, amount) == buyer \in Registered /\ balances[buyer] >= amount

lockFunds(c, call, place, buyer, amount) ==
    LET succeeds == CanLock(buyer, amount)
    IN  /\ Await(c, call, place, succeeds)
        /\ balances' = IF IsLocal /\ succeeds
                       THEN Shifted(balances, buyer, -amount)
                       ELSE balances

\* releaseEscrow and refundEscrow look at the record, not at its status.
releaseEscrow(c, call, place, e) ==
    /\ Await(c, call, place, TRUE)
    /\ IF IsLocal
       THEN /\ balances' = Shifted(balances, records[e].seller,
                                   records[e].amount)
            /\ SetEscrow(e, "RELEASED")
            /\ releases' = [releases EXCEPT ![e] = @ + 1]
       ELSE /\ SetEscrow(e, "VERIFIED")
            /\ UNCHANGED <<balances, releases>>

refundEscrow(c, call, place, e) ==
    /\ Await(c, call, place, TRUE)
    /\ IF IsLocal
       THEN /\ balances' = Shifted(balances, records[e].buyer,
                                   records[e].amount)
            /\ SetEscrow(e, "REFUNDED")
       ELSE UNCHANGED <<balances, records>>

-----------------------------------------------------------------------------
(* MonadSettlementAdapter: what the chain does with what was sent          *)

\* The escrow transitions of ECONEscrow that the adapter calls.
ChainStep(from, to, e) ==
    /\ chainEscrows[e] \in from
    /\ chainEscrows' = [chainEscrows EXCEPT ![e] = to]

\* transfer pays, whoever signs for the payer.
MonadTransfer(c) ==
    /\ calls[c].at = "paying"
    /\ payments' = [payments EXCEPT ![c] = @ + 1]
    /\ UNCHANGED <<chainEscrows, chainOwner, releases>>

\* transferEconomicObject; the owner on the chain is the signer.
MonadMove(c) ==
    /\ calls[c].at = "moving"
    /\ chainOwner' = [chainOwner EXCEPT ![calls[c].object] = calls[c].whom]
    /\ UNCHANGED <<chainEscrows, payments, releases>>

MonadLock(c) ==
    /\ calls[c].at = "locking"
    /\ ChainStep({"NONE"}, "LOCKED", c)
    /\ UNCHANGED <<chainOwner, payments, releases>>

MonadRelease(c) ==
    /\ calls[c].at = "releasing"
    /\ ChainStep({"DELIVERED"}, "RELEASED", calls[c].escrow)
    /\ UNCHANGED <<chainOwner, payments, releases>>

MonadRefund(c) ==
    /\ calls[c].at = "refunding"
    /\ ChainStep({"LOCKED"}, "REFUNDED", calls[c].escrow)
    /\ UNCHANGED <<chainOwner, payments, releases>>

\* listEconomicObject: the listing is the marketplace's own.
MonadList(c) ==
    /\ calls[c].at = "listing"
    /\ UNCHANGED <<chainEscrows, chainOwner, payments, releases>>

Take(c) == \/ MonadTransfer(c) \/ MonadMove(c) \/ MonadLock(c)
           \/ MonadRelease(c) \/ MonadRefund(c) \/ MonadList(c)

AnswerWith(c, result) == calls' = [calls EXCEPT ![c].result = result]

\* The transaction is in a block; the receipt arrives, or the wait for it
\* ends in an error, which the adapter reports as a failure.
Mined(c) ==
    /\ calls[c].at \notin {"idle", "done"} /\ calls[c].result = "sent"
    /\ Take(c)
    /\ \E result \in {"ok", "failed"} : AnswerWith(c, result)
    /\ UNCHANGED <<storeVars, adapter, switches>>

\* The wallet refuses, or the transaction reverts.
NotMined(c) ==
    /\ calls[c].at \notin {"idle", "done"} /\ calls[c].result = "sent"
    /\ AnswerWith(c, "failed")
    /\ UNCHANGED <<storeVars, settleVars>>

\* The contract is open to its parties without the SDK, which never delivers:
\* the seller delivers, a party or the contract's owner releases, and the
\* buyer, the owner or after the deadline anybody refunds.
ActOnChain(e) ==
    /\ \/ ChainStep({"LOCKED"}, "DELIVERED", e)
       \/ ChainStep({"DELIVERED"}, "RELEASED", e)
       \/ ChainStep({"LOCKED"}, "REFUNDED", e)
    /\ UNCHANGED <<storeVars, calls, adapter, switches, chainOwner, payments,
                   releases>>

\* ECON.setSettlementAdapter: a wallet connects or disconnects.
setSettlementAdapter ==
    /\ switches < MaxSwitches
    /\ switches' = switches + 1
    /\ adapter' = IF IsLocal THEN "monad" ELSE "local"
    /\ UNCHANGED <<storeVars, calls, chainEscrows, chainOwner, payments,
                   releases>>

=============================================================================
