------------------------------ MODULE RunRoute ------------------------------
(***************************************************************************)
(* backend/src: one agent's server, its POST /run handler, the in-memory   *)
(* idempotency store, the credit verifier and the credit settlement, over  *)
(* the vault they charge (ECONCreditVault) and the signer's pending        *)
(* transactions.                                                           *)
(*                                                                         *)
(* A handler is asynchronous: at[q] is the await request q is suspended    *)
(* at, and an action is what the event loop runs from one await to the     *)
(* next.  Other requests, the chain, the requester's own transactions, the *)
(* global timeout and a restart of the process come in between.            *)
(***************************************************************************)
EXTENDS ECONCreditVault, Sequences

CONSTANTS
    Requests,      \* the POST /run requests that arrive
    Keys,          \* spellings of reservation ids in request bodies
    IdOf,          \* spelling -> the bytes32 the vault decodes it to
    Senders,       \* the values of `requester' in request bodies
    Clients,       \* other accounts that send the vault transactions of
                   \* their own
    Signer,        \* the agent's operational key
    ThisAgent,     \* config.agentId
    Price,         \* config.priceCredits
    SafeInteger,   \* 2^53: up to it a JavaScript number holds every integer
    Spacings,      \* the distances between neighbouring JavaScript numbers,
                   \* the powers of two
    MaxRestarts    \* bound: restarts of the process that are explored

ASSUME RunAssumption ==
    /\ IdOf \in [Keys -> ReservationIds]
    /\ Senders \subseteq Accounts /\ Clients \subseteq Accounts \ {Owner, Signer}
    /\ Signer \in Payable
    /\ ThisAgent \in Agents
    /\ Price \in Amounts \ {0}
    /\ MaxRestarts \in Nat

\* ethers takes no number above 2^53 for an amount, so a larger price could
\* never be charged.
ASSUME NumberAssumption ==
    /\ SafeInteger \in Nat /\ Price <= SafeInteger
    /\ Spacings \subseteq Nat \ {0} /\ 1 \in Spacings

VARIABLES
    records,    \* the idempotency store: spelling -> record
    at,         \* request -> where its handler is suspended
    body,       \* request -> the reservation and requester its body names
    amountRead, \* request -> reservation.amount as the verifier read it
    answers,    \* request -> the HTTP response its client got
    pending,    \* the signer's broadcast transactions, in nonce order
    receipts,   \* <<request, "settle" or "release">> -> its transaction
    worked,     \* history: the requests whose task ran to its end
    restarts    \* the number of restarts so far

serverVars == <<records, at, body, amountRead, answers, worked, restarts>>
chainVars == <<pending, receipts>>
runVars == <<vars, serverVars, chainVars>>

-----------------------------------------------------------------------------
(* State                                                                   *)

Response(kind, returned) == [kind |-> kind, creditsReturned |-> returned]
Plain(kind) == Response(kind, 0)

\* "none" before an answer; "rejected" is 402, "busy" 409, "invalid" 400,
\* "timedOut" the middleware's 504, "error" the safety net's 500, "reset" a
\* connection that a restart closed.
Responses ==
    [kind : {"none", "completed", "failed", "rejected", "busy", "invalid",
             "timedOut", "error", "reset"},
     creditsReturned : Nat]

Unclaimed == Plain("unclaimed")
InFlight == Plain("inFlight")
IsOutcome(record) == record.kind \in {"completed", "failed"}

Waits == {"verifying", "checkingTx", "executing", "settling", "settleWait",
          "releasing", "releaseWait"}
Active(q) == at[q] \in Waits

NoBody == [key |-> "none", requester |-> NoAccount]
Id(q) == IdOf[body[q].key]

RunInit ==
    /\ Init
    /\ records = [k \in Keys |-> Unclaimed]
    /\ at = [q \in Requests |-> "idle"]
    /\ body = [q \in Requests |-> NoBody]
    /\ amountRead = [q \in Requests |-> 0]
    /\ answers = [q \in Requests |-> Plain("none")]
    /\ pending = <<>>
    /\ receipts = [t \in Requests \X {"settle", "release"} |-> "unsent"]
    /\ worked = {}
    /\ restarts = 0

RunTypeOK ==
    /\ TypeOK
    /\ records \in [Keys -> {Unclaimed, InFlight} \cup Responses]
    /\ at \in [Requests -> Waits \cup {"idle", "done"}]
    /\ body \in [Requests ->
          {NoBody} \cup [key : Keys, requester : Senders]]
    /\ amountRead \in [Requests -> Nat]
    /\ answers \in [Requests -> Responses]
    /\ pending \in Seq(Requests \X {"settle", "release"})
    /\ receipts \in [Requests \X {"settle", "release"} ->
          {"unsent", "pending", "mined", "reverted"}]
    /\ worked \subseteq Requests
    /\ restarts \in Nat

-----------------------------------------------------------------------------
(* The idempotency store and the response                                  *)

\* claim refuses any record, in flight or completed.
IsClaimableWhenNotDone(k) == ~IsOutcome(records[k])
IsClaimable(k) == records[k] = Unclaimed

ClaimFor(k) == records' = [records EXCEPT ![k] = InFlight]

Forget(k) == records' = [records EXCEPT ![k] = Unclaimed]

\* The first response is the one the client gets.
Unanswered(q) == answers[q].kind = "none"
Answer(q, response) ==
    answers' = IF Unanswered(q)
               THEN [answers EXCEPT ![q] = response]
               ELSE answers

Goto(q, place) == at' = [at EXCEPT ![q] = place]

-----------------------------------------------------------------------------
(* Receiving a request: everything up to the first await                   *)

\* Zod or the business rules refuse the body.
Invalid(q) ==
    /\ at[q] = "idle"
    /\ Goto(q, "done")
    /\ Answer(q, Plain("invalid"))
    /\ UNCHANGED <<vars, chainVars, records, body, amountRead, worked, restarts>>

\* The stored response is replayed, or the reservation is being processed.
Repeat(q, k, requester) ==
    /\ at[q] = "idle"
    /\ ~IsClaimable(k)
    /\ body' = [body EXCEPT ![q] = [key |-> k, requester |-> requester]]
    /\ Goto(q, "done")
    /\ Answer(q, IF IsOutcome(records[k]) THEN records[k] ELSE Plain("busy"))
    /\ UNCHANGED <<vars, chainVars, records, amountRead, worked, restarts>>

Accept(q, k, requester) ==
    /\ at[q] = "idle"
    /\ IsClaimable(k)
    /\ body' = [body EXCEPT ![q] = [key |-> k, requester |-> requester]]
    /\ ClaimFor(k)
    /\ Goto(q, "verifying")
    /\ UNCHANGED <<vars, chainVars, amountRead, answers, worked, restarts>>

-----------------------------------------------------------------------------
(* Verifying the payment                                                   *)

\* How far apart the JavaScript numbers around n are, and Number(n) of a
\* uint256.
Spacing(n) == SpacingOf(n, SafeInteger, Spacings)
AsNumber(n) == NearestNumber(n, SafeInteger, Spacings)

\* What verifyPayment demands of the reservation it reads.
IsPayment(r, requester) ==
    /\ r.requester = requester
    /\ r.agentId = ThisAgent
    /\ ~r.consumed /\ ~r.released
    /\ ~IsExpired(r)
    /\ AsNumber(r.amount) >= Price

ReadReservation(q) ==
    /\ at[q] = "verifying"
    /\ IsPayment(reservations[Id(q)], body[q].requester)
    /\ amountRead' = [amountRead EXCEPT ![q] = AsNumber(reservations[Id(q)].amount)]
    /\ Goto(q, "checkingTx")
    /\ UNCHANGED <<vars, chainVars, records, body, answers, worked, restarts>>

\* The receipt of payment.transactionHash: any transaction to the vault that
\* succeeded will do.
AcceptTransaction(q) ==
    /\ at[q] = "checkingTx"
    /\ Goto(q, "executing")
    /\ UNCHANGED <<vars, chainVars, records, body, amountRead, answers, worked,
                   restarts>>

\* Verification throws: a failed check, no such receipt, or an RPC error.
Reject(q) ==
    /\ at[q] \in {"verifying", "checkingTx"}
    /\ Forget(body[q].key)
    /\ Goto(q, "done")
    /\ Answer(q, Plain("rejected"))
    /\ UNCHANGED <<vars, chainVars, body, amountRead, worked, restarts>>

-----------------------------------------------------------------------------
(* Executing the task and settling                                         *)

FinishTask(q) ==
    /\ at[q] = "executing"
    /\ worked' = worked \cup {q}
    /\ Goto(q, "settling")
    /\ UNCHANGED <<vars, chainVars, records, body, amountRead, answers, restarts>>

\* The task throws, or withTimeout rejects first.
SettleAnyway(q) ==
    /\ at[q] = "executing"
    /\ Goto(q, "settling")
    /\ UNCHANGED <<vars, chainVars, records, body, amountRead, answers, worked,
                   restarts>>
FailTask(q) ==
    /\ at[q] = "executing"
    /\ Goto(q, "releasing")
    /\ UNCHANGED <<vars, chainVars, records, body, amountRead, answers, worked,
                   restarts>>

Broadcast(q, call) ==
    /\ pending' = Append(pending, <<q, call>>)
    /\ receipts' = [receipts EXCEPT ![<<q, call>>] = "pending"]

\* ethers estimates the gas of a call before it signs it, so a call that
\* would revert on the present state is not sent.  The node may have taken
\* the transaction although its answer is lost: the handler sees an error.
SubmitSettle(q) ==
    /\ at[q] = "settling"
    /\ SettleAllowed(Signer, Id(q), Price)
    /\ Broadcast(q, "settle")
    /\ \E place \in {"settleWait", "releasing"} : Goto(q, place)
    /\ UNCHANGED <<vars, records, body, amountRead, answers, worked, restarts>>

\* tx.wait() has a receipt.
IsMined(q, call) == receipts[<<q, call>>] = "mined"
IsReverted(q, call) == receipts[<<q, call>>] = "reverted"

\* Math.max(reservedAmount - consumedAmount, 0), on JavaScript numbers.
SurplusOfNone(q) == 0
Surplus(q) ==
    IF amountRead[q] >= Price THEN AsNumber(amountRead[q] - Price) ELSE 0

\* The outcome is recorded, then sent.  If the global timeout has answered
\* already, res.json throws into the catch that releases the reservation.
Complete(q) ==
    /\ at[q] = "settleWait"
    /\ IsMined(q, "settle")
    /\ LET success == Response("completed", Surplus(q))
       IN  /\ records' = [records EXCEPT ![body[q].key] = success]
           /\ Answer(q, success)
    /\ Goto(q, IF Unanswered(q) THEN "done" ELSE "releasing")
    /\ UNCHANGED <<vars, chainVars, body, amountRead, worked, restarts>>

\* Settling throws: the estimate or the mined transaction reverts, or an RPC
\* call fails.
SettleReverts(q) ==
    /\ \/ at[q] = "settling" /\ ~SettleAllowed(Signer, Id(q), Price)
       \/ at[q] = "settleWait" /\ IsReverted(q, "settle")
    /\ Goto(q, "releasing")
    /\ UNCHANGED <<vars, chainVars, records, body, amountRead, answers, worked,
                   restarts>>
SettleRpcError(q) ==
    /\ at[q] \in {"settling", "settleWait"}
    /\ Goto(q, "releasing")
    /\ UNCHANGED <<vars, chainVars, records, body, amountRead, answers, worked,
                   restarts>>

-----------------------------------------------------------------------------
(* Releasing, and the safety net around everything                         *)

\* The outer catch: the claim is dropped and the answer is 500.
CatchSilently(q) ==
    /\ Forget(body[q].key)
    /\ Goto(q, "done")
    /\ UNCHANGED answers
Catch(q) ==
    /\ Forget(body[q].key)
    /\ Goto(q, "done")
    /\ Answer(q, Plain("error"))

SubmitRelease(q) ==
    /\ at[q] = "releasing"
    /\ ReleaseAllowed(Signer, Id(q))
    /\ Broadcast(q, "release")
    /\ \/ Goto(q, "releaseWait") /\ UNCHANGED <<records, answers>>
       \/ Catch(q)
    /\ UNCHANGED <<vars, body, amountRead, worked, restarts>>

\* As in Complete; res.json throwing ends in the safety net, at once.
Fail(q) ==
    /\ at[q] = "releaseWait"
    /\ IsMined(q, "release")
    /\ LET failure == Response("failed", amountRead[q])
       IN  IF Unanswered(q)
           THEN /\ records' = [records EXCEPT ![body[q].key] = failure]
                /\ Answer(q, failure)
                /\ Goto(q, "done")
           ELSE Catch(q)
    /\ UNCHANGED <<vars, chainVars, body, amountRead, worked, restarts>>

ReleaseReverts(q) ==
    /\ \/ at[q] = "releasing" /\ ~ReleaseAllowed(Signer, Id(q))
       \/ at[q] = "releaseWait" /\ IsReverted(q, "release")
    /\ Catch(q)
    /\ UNCHANGED <<vars, chainVars, body, amountRead, worked, restarts>>
ReleaseRpcError(q) ==
    /\ at[q] \in {"releasing", "releaseWait"}
    /\ Catch(q)
    /\ UNCHANGED <<vars, chainVars, body, amountRead, worked, restarts>>

-----------------------------------------------------------------------------
(* The timeout middleware, the process, the chain and the clients          *)

\* 504 to the client; req.timedOut, which it also sets, is read nowhere, so
\* the handler goes on.
GlobalTimeout(q) ==
    /\ Active(q) /\ Unanswered(q)
    /\ Answer(q, Plain("timedOut"))
    /\ UNCHANGED <<vars, chainVars, records, at, body, amountRead, worked,
                   restarts>>

\* The process stops and starts again: the store and the handlers are gone,
\* broadcast transactions are not.
Restart ==
    /\ restarts < MaxRestarts
    /\ restarts' = restarts + 1
    /\ records' = [k \in Keys |-> Unclaimed]
    /\ at' = [q \in Requests |-> IF Active(q) THEN "done" ELSE at[q]]
    /\ answers' = [q \in Requests |->
                      IF Active(q) /\ Unanswered(q) THEN Plain("reset")
                      ELSE answers[q]]
    /\ UNCHANGED <<vars, chainVars, body, amountRead, worked>>

\* The signer's next transaction is included in a block.
Mine ==
    /\ pending # <<>>
    /\ pending' = Tail(pending)
    /\ LET tx == Head(pending)
           id == Id(tx[1])
           Include == receipts' = [receipts EXCEPT ![tx] = "mined"]
       IN  \/ tx[2] = "settle" /\ settleReservation(Signer, id, Price) /\ Include
           \/ tx[2] = "release" /\ releaseReservation(Signer, id) /\ Include
           \/ /\ IF tx[2] = "settle" THEN ~SettleAllowed(Signer, id, Price)
                                     ELSE ~ReleaseAllowed(Signer, id)
              /\ receipts' = [receipts EXCEPT ![tx] = "reverted"]
              /\ UNCHANGED vars
    /\ UNCHANGED serverVars

\* Transactions of others: the deployer names the agent's key; a client
\* reserves, takes back or recycles, and settles what has no controller yet.
Others ==
    /\ \/ setAgentController(Owner, ThisAgent, Signer)
       \/ \E client \in Clients, id \in ReservationIds :
             \/ \E agentId \in Agents, value \in Amounts, expiresAt \in Expiries :
                   reserveCreditsWithDirectPayment(client, id, agentId, value,
                                                   expiresAt)
             \/ \E amount \in Amounts : settleReservation(client, id, amount)
             \/ releaseReservation(client, id)
             \/ recycleReservation(client, id)
       \/ Tick
    /\ UNCHANGED <<serverVars, chainVars>>

-----------------------------------------------------------------------------

\* What the event loop runs when an await of q returns, and withTimeout's
\* timer.  That a task finishes, or an RPC call fails, is not promised.
Handle(q) ==
    \/ ReadReservation(q) \/ AcceptTransaction(q) \/ Reject(q)
    \/ FailTask(q)
    \/ SubmitSettle(q) \/ SettleReverts(q) \/ Complete(q)
    \/ SubmitRelease(q) \/ ReleaseReverts(q) \/ Fail(q)

RunNext ==
    \/ \E q \in Requests :
          \/ Invalid(q)
          \/ \E k \in Keys, requester \in Senders :
                Repeat(q, k, requester) \/ Accept(q, k, requester)
          \/ Handle(q)
          \/ FinishTask(q) \/ SettleRpcError(q) \/ ReleaseRpcError(q)
          \/ GlobalTimeout(q)
    \/ Restart
    \/ Mine
    \/ Others

RunSpec == RunInit /\ [][RunNext]_runVars

\* Node runs the callback of every await that returns and of every timer, and
\* the chain includes the transactions it was sent.
Fairness == WF_runVars(Mine) /\ \A q \in Requests : WF_runVars(Handle(q))

FairRunSpec == RunSpec /\ Fairness

-----------------------------------------------------------------------------
(* Properties                                                              *)

\* At most one handler works on one spelling of a reservation, whatever the
\* timeouts, failures and restarts, and the store shows it: a claim is in
\* flight exactly while a handler holds it and has not recorded an outcome.
\* A lost claim would let two tasks run; an orphaned one blocks every retry.
ClaimsHeld ==
    \A k \in Keys :
        LET holders == {q \in Requests : Active(q) /\ body[q].key = k}
        IN  /\ Cardinality(holders) <= 1
            /\ records[k] = InFlight => holders # {}
            /\ records[k] = Unclaimed => holders = {}

\* Once the agent's key is its controller, a reservation for the agent is
\* charged exactly the price, and only after its task ran to the end for the
\* requester who made it: no mixture of timeouts, RPC errors, lost answers
\* and restarts charges for work that was not done.
ChargedForWork ==
    [][\A id \in ReservationIds :
          LET r == reservations[id]
          IN  ~r.consumed /\ reservations'[id].consumed
              /\ r.agentId = ThisAgent /\ agentControllers[ThisAgent] = Signer =>
                 /\ reservations'[id].consumedAmount = Price
                 /\ \E q \in worked :
                       Id(q) = id /\ body[q].requester = r.requester]_runVars

\* Of all the transactions the server sends about one reservation, over any
\* number of requests, spellings and restarts, at most one takes effect.
ClosedByOneCall ==
    \A id \in ReservationIds :
        Cardinality({tx \in DOMAIN receipts :
                        receipts[tx] = "mined" /\ Id(tx[1]) = id}) <= 1

\* What is said of a reservation of so much: exact, or at most that many halves
\* off.
IsClose(said, exact, amount, halves) ==
    IF amount <= SafeInteger
    THEN said = exact
    ELSE -halves <= 2 * (said - exact) /\ 2 * (said - exact) <= halves

\* The response is what the vault did, also when it is replayed: a client that
\* is told "completed" has been charged the price and has the rest back, one
\* that is told "failed" was charged nothing and has everything back, and
\* creditsReturned says how much that is: to the wei for a reservation of up
\* to 2^53 wei.  A larger one is read as a JavaScript number, and what is said
\* is then off by up to half the spacing of the numbers there, twice if the
\* price is taken off it.
OutcomeIsTrue ==
    \A q \in Requests :
        LET r == reservations[Id(q)]
            said == answers[q].creditsReturned
        IN  /\ answers[q].kind = "completed" =>
                  /\ r.consumed /\ r.consumedAmount = Price
                  /\ IsClose(said, r.amount - r.consumedAmount, r.amount,
                             Spacing(r.amount)
                                 + Spacing(AsNumber(r.amount) - Price))
            /\ answers[q].kind = "failed" =>
                  /\ r.released /\ ~r.consumed
                  /\ IsClose(said, r.amount, r.amount, Spacing(r.amount))

\* Every request the server takes up ends, answered, even if the task never
\* returns, and gives its claim back or turns it into an outcome.
EveryRequestEnds ==
    \A q \in Requests :
        Active(q) ~> /\ at[q] = "done" /\ ~Unanswered(q)
                     /\ \A k \in Keys : body[q].key = k => records[k] # InFlight

=============================================================================
