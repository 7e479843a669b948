----------------------------- MODULE AgentGuild -----------------------------
(***************************************************************************)
(* The guild of Python agents.                                             *)
(*                                                                         *)
(* agent_ecosystem/contracts/CreditVault.sol: the credits of the guild's   *)
(* agents, which the admin grants, agents reserve, consume and spend, and  *)
(* a pool of what was recycled tops up.  A call that reverts is an action  *)
(* that is not enabled.  No function looks at the time but reserve, whose  *)
(* caller names a future one.                                              *)
(*                                                                         *)
(* agent_ecosystem/agents: the pipeline of scout, analyst and executor,    *)
(* each of which pays for its stage out of its own credits.  A payment is  *)
(* three or four calls over the network: read the balance, ask for a       *)
(* top-up and read again when it is short, spend.  The vault moves on in   *)
(* between.  A stage whose payment raises ends the pipeline.               *)
(***************************************************************************)
EXTENDS Naturals, EtherTotals, Sequences

CONSTANTS
    GuildAgents,   \* accounts that call the vault
    ReservationIds,
    Amounts,       \* amounts that calls name
    MaxGranted,    \* bound: credits granted in all
    Pipelines,     \* processes that run the orchestrator
    Stages,        \* the agents of the stages, in their order
    Cost,          \* agent -> credits its stage costs
    Others,        \* agents that call the vault otherwise
    MaxRuns        \* bound: times each stage is begun

ASSUME GuildParameters ==
    /\ IsFiniteSet(GuildAgents) /\ IsFiniteSet(ReservationIds)
    /\ Amounts \subseteq Nat \ {0} /\ MaxGranted \in Nat

ASSUME PipelineParameters ==
    /\ Stages \in Seq(GuildAgents) /\ Stages # << >>
    /\ Cost \in [GuildAgents -> Nat] /\ Others \subseteq GuildAgents
    /\ MaxRuns \in Nat

VARIABLES
    registered,
    balances,
    reservations,
    reservePool,
    guildGranted,   \* history: credits the admin granted
    spent,          \* history: agent -> credits it spent
    guildConsumed   \* history: credits consumed out of reservations

guildVars == <<registered, balances, reservations, reservePool, guildGranted,
               spent, guildConsumed>>

VARIABLES
    stage,    \* pipeline -> the stage it is in, 0 when it does not run
    call,     \* pipeline -> the call it makes next
    short,    \* pipeline -> the credits it found missing
    paidFor,  \* history: agent -> its stages that went through
    guessed,  \* history: of these, those whose balance could not be read
    begun     \* history: agent -> its stages that were begun

pipelineVars == <<stage, call, short, paidFor, guessed, begun>>
guildSystemVars == <<guildVars, pipelineVars>>

-----------------------------------------------------------------------------
(* The vault                                                               *)

NoReservation == [active |-> FALSE, remaining |-> 0]
IsActive(id) == reservations[id].active

VaultInit ==
    /\ registered = {}
    /\ balances = [a \in GuildAgents |-> 0]
    /\ reservations = [id \in ReservationIds |-> NoReservation]
    /\ reservePool = 0 /\ guildGranted = 0 /\ guildConsumed = 0
    /\ spent = [a \in GuildAgents |-> 0]

GrantTo(agent, amount) ==
    /\ guildGranted + amount <= MaxGranted
    /\ guildGranted' = guildGranted + amount
    /\ balances' = [balances EXCEPT ![agent] = @ + amount]
    /\ UNCHANGED <<reservations, reservePool, spent, guildConsumed>>

registerAgent(agent, initialCredits) ==
    /\ agent \notin registered
    /\ registered' = registered \cup {agent}
    /\ GrantTo(agent, initialCredits)

grantCredits(agent, amount) ==
    /\ agent \in registered
    /\ GrantTo(agent, amount)
    /\ UNCHANGED registered

reserveCredits(sender, id, amount, transferable) ==
    /\ sender \in registered /\ balances[sender] >= amount
    /\ ~IsActive(id)
    /\ balances' = [balances EXCEPT ![sender] = @ - amount]
    /\ reservations' = [reservations EXCEPT ![id] =
          [owner |-> sender, amount |-> amount, remaining |-> amount,
           transferable |-> transferable, active |-> TRUE]]
    /\ UNCHANGED <<registered, reservePool, guildGranted, spent, guildConsumed>>

MayClose(sender, id) == IsActive(id) /\ sender = reservations[id].owner

consumeCredits(sender, id, amount) ==
    LET remaining == reservations[id].remaining - amount
    IN  /\ MayClose(sender, id) /\ amount <= reservations[id].remaining
        /\ reservations' = [reservations EXCEPT ![id].remaining = remaining,
                                                ![id].active = remaining # 0]
        /\ guildConsumed' = guildConsumed + amount
        /\ UNCHANGED <<registered, balances, reservePool, guildGranted, spent>>

CloseReservation(id) ==
    reservations' = [reservations EXCEPT ![id].remaining = 0,
                                         ![id].active = FALSE]

releaseCredits(sender, id) ==
    /\ MayClose(sender, id)
    /\ balances' = [balances EXCEPT ![sender] = @ + reservations[id].remaining]
    /\ CloseReservation(id)
    /\ UNCHANGED <<registered, reservePool, guildGranted, spent, guildConsumed>>

recycleWholeCredits(id) ==
    /\ IsActive(id) /\ reservations[id].transferable
    /\ reservePool' = reservePool + reservations[id].amount
    /\ CloseReservation(id)
    /\ UNCHANGED <<registered, balances, guildGranted, spent, guildConsumed>>
recycleCredits(id) ==
    /\ IsActive(id) /\ reservations[id].transferable
    /\ reservePool' = reservePool + reservations[id].remaining
    /\ CloseReservation(id)
    /\ UNCHANGED <<registered, balances, guildGranted, spent, guildConsumed>>

MaySpend(sender, amount) ==
    sender \in registered /\ balances[sender] >= amount

spend(sender, amount) ==
    /\ MaySpend(sender, amount)
    /\ balances' = [balances EXCEPT ![sender] = @ - amount]
    /\ spent' = [spent EXCEPT ![sender] = @ + amount]
    /\ UNCHANGED <<registered, reservations, reservePool, guildGranted, guildConsumed>>

\* All of it, or nothing: then only an event says that it was asked for.
requestTopUp(sender, amountNeeded) ==
    /\ sender \in registered
    /\ IF reservePool >= amountNeeded
       THEN /\ reservePool' = reservePool - amountNeeded
            /\ balances' = [balances EXCEPT ![sender] = @ + amountNeeded]
       ELSE UNCHANGED <<reservePool, balances>>
    /\ UNCHANGED <<registered, reservations, guildGranted, spent, guildConsumed>>

-----------------------------------------------------------------------------
(* The pipeline                                                            *)

GuildInit ==
    /\ VaultInit
    /\ stage = [p \in Pipelines |-> 0]
    /\ call = [p \in Pipelines |-> "read"]
    /\ short = [p \in Pipelines |-> 0]
    /\ paidFor = [a \in GuildAgents |-> 0]
    /\ guessed = [a \in GuildAgents |-> 0]
    /\ begun = [a \in GuildAgents |-> 0]

AgentOf(p) == Stages[stage[p]]
CostOf(p) == Cost[AgentOf(p)]

\* What the vault says, or 100 when the call fails.
get_balance(a, readable) == IF readable THEN balances[a] ELSE 100

Begin(p, n) ==
    /\ begun[Stages[n]] < MaxRuns
    /\ begun' = [begun EXCEPT ![Stages[n]] = @ + 1]
    /\ stage' = [stage EXCEPT ![p] = n]
    /\ call' = [call EXCEPT ![p] = "read"]

\* The orchestrator is run: the scout fetches, which never fails.
Run(p) ==
    /\ stage[p] = 0 /\ Begin(p, 1)
    /\ UNCHANGED <<guildVars, short, paidFor, guessed>>

At(p, what) == stage[p] # 0 /\ call[p] = what
Goes(p, what) == call' = [call EXCEPT ![p] = what] /\ UNCHANGED stage
Raises(p) == stage' = [stage EXCEPT ![p] = 0] /\ UNCHANGED call

Pays(p, readable) == Goes(p, IF readable THEN "spend" ELSE "spend unread")

ReadBalance(p) ==
    /\ At(p, "read")
    /\ \E readable \in BOOLEAN :
          LET balance == get_balance(AgentOf(p), readable)
          IN  IF balance < CostOf(p)
              THEN /\ short' = [short EXCEPT ![p] = CostOf(p) - balance]
                   /\ Goes(p, "top-up")
              ELSE Pays(p, readable) /\ UNCHANGED short
    /\ UNCHANGED <<guildVars, paidFor, guessed, begun>>

\* _send_tx: the call is mined, and may revert, which nothing looks at; or
\* it is lost; and either way the receipt may not arrive.
Sent(Succeeds, Call, receipt) ==
    \/ Call
    \/ (receipt => ~Succeeds) /\ UNCHANGED guildVars

request_topup(p) ==
    /\ At(p, "top-up")
    /\ \E receipt \in BOOLEAN :
          /\ Sent(AgentOf(p) \in registered,
                  requestTopUp(AgentOf(p), short[p]), receipt)
          /\ IF receipt THEN Goes(p, "read again") ELSE Raises(p)
    /\ UNCHANGED <<short, paidFor, guessed, begun>>

ReadAgainHopes(p) ==
    /\ At(p, "read again")
    /\ Pays(p, TRUE)
    /\ UNCHANGED <<guildVars, short, paidFor, guessed, begun>>
ReadAgain(p) ==
    /\ At(p, "read again")
    /\ \E readable \in BOOLEAN :
          IF get_balance(AgentOf(p), readable) < CostOf(p)
          THEN Raises(p) ELSE Pays(p, readable)
    /\ UNCHANGED <<guildVars, short, paidFor, guessed, begun>>

\* The stage is over, and the next one begins.
GoesThrough(p) ==
    /\ paidFor' = [paidFor EXCEPT ![AgentOf(p)] = @ + 1]
    /\ guessed' = IF At(p, "spend unread")
                  THEN [guessed EXCEPT ![AgentOf(p)] = @ + 1] ELSE guessed
    /\ IF stage[p] < Len(Stages) THEN Begin(p, stage[p] + 1)
       ELSE Raises(p) /\ UNCHANGED begun

spend_credits(p) ==
    /\ At(p, "spend") \/ At(p, "spend unread")
    /\ \E receipt \in BOOLEAN :
          /\ Sent(MaySpend(AgentOf(p), CostOf(p)),
                  spend(AgentOf(p), CostOf(p)), receipt)
          /\ IF receipt THEN GoesThrough(p)
             ELSE Raises(p) /\ UNCHANGED <<paidFor, guessed, begun>>
    /\ UNCHANGED short

\* The admin, and agents outside the pipelines.
VaultCall ==
    /\ \/ \E a \in GuildAgents, amount \in Amounts :
             registerAgent(a, amount) \/ grantCredits(a, amount)
       \/ \E id \in ReservationIds : recycleCredits(id)
       \/ \E a \in Others, amount \in Amounts, id \in ReservationIds :
             \/ \E transferable \in BOOLEAN :
                   reserveCredits(a, id, amount, transferable)
             \/ consumeCredits(a, id, amount) \/ releaseCredits(a, id)
             \/ spend(a, amount) \/ requestTopUp(a, amount)
    /\ UNCHANGED pipelineVars

GuildNext ==
    \/ VaultCall
    \/ \E p \in Pipelines :
          \/ Run(p) \/ ReadBalance(p) \/ request_topup(p) \/ ReadAgain(p)
          \/ spend_credits(p)

GuildSpec == GuildInit /\ [][GuildNext]_guildSystemVars

-----------------------------------------------------------------------------
(* Properties                                                              *)

\* Every credit the admin granted is in one place: a balance, an active
\* reservation, the pool, or it was spent or consumed, whatever is reserved
\* again under the id of a reservation that is over (CreditVault.sol:61-148).
CreditsAddUp ==
    Total(balances) + reservePool + guildConsumed + Total(spent)
        + Total([id \in ReservationIds |-> reservations[id].remaining])
    = guildGranted

\* No more stages go through unpaid than had a balance that could not be read,
\* which counts as 100; and no stage is paid for twice.  What was read is there
\* when it is spent, a top-up that was refused stops the stage, and receipts
\* that are lost end it (base_agent.py:45-89, executor_agent.py:16).
StagesArePaid ==
    \A n \in 1..Len(Stages) :
        LET a == Stages[n]
        IN  /\ paidFor[a] * Cost[a] <= spent[a] + guessed[a] * Cost[a]
            /\ spent[a] <= begun[a] * Cost[a]

=============================================================================
