----------------------------- MODULE CREWorkflow -----------------------------
(***************************************************************************)
(* integrations/chainlink-cre: the workflow that Chainlink's scheduler     *)
(* triggers, and the harness that simulates it for a candidate, a          *)
(* strategy, a policy and an upstream that may fail.  Both decide in one   *)
(* go; what they settle is a transaction hash they draw.  The harness      *)
(* remembers, for a caller that gives it a set, the objects it settled.    *)
(***************************************************************************)
EXTENDS Naturals

CONSTANTS
    Candidates,   \* economic objects
    Scheduled,    \* the one that the scheduled workflow knows
    Caps,         \* values of maxAutonomousCapMon, in tenths of a MON
    MaxWindows,   \* bound: sets the callers make
    MaxHour,      \* bound: the hour of the clock
    MaxTriggers   \* bound: executions

ASSUME WorkflowAssumption ==
    Scheduled \in Candidates /\ Caps \subseteq Nat /\ MaxWindows \in Nat
    /\ MaxHour \in Nat /\ MaxTriggers \in Nat

VARIABLES
    previousExecutions,  \* the set of the callers that have one
    windows,             \* sets the callers made
    hour,
    triggers,            \* history: executions
    settled,             \* history: candidate -> its settlements since the
                         \* present set was made
    untracked            \* history: of these, those of callers without a set

workflowVars ==
    <<previousExecutions, windows, hour, triggers, settled, untracked>>

Strategies == {"SELL", "TRANSFER", "KEEP", "REFUND"}

\* The value the simulated recommendation expects, in tenths of a MON.
qwenValue(strategy) ==
    [SELL |-> 128, TRANSFER |-> 142, KEEP |-> 0, REFUND |-> 50][strategy]

WorkflowInit ==
    /\ previousExecutions = {} /\ windows = 0 /\ hour = 0 /\ triggers = 0
    /\ settled = [c \in Candidates |-> 0]
    /\ untracked = [c \in Candidates |-> 0]

Triggered == triggers < MaxTriggers /\ triggers' = triggers + 1

\* What the harness finds out about a candidate.
IsDuplicate(c) == c \in previousExecutions
IsExpired(terms) == terms.expiryHour <= hour \/ terms.status = "EXPIRED"
IsSoulbound(terms, config) ==
    ~terms.transferable /\ ~config.allowSoulboundMovement
IsBlocked(strategy, config) ==
    strategy = "TRANSFER" /\ ~config.policyAllowsTransfer
IsOverCap(strategy, config) == qwenValue(strategy) > config.maxAutonomousCap

\* A settlement, and what remembers it.
SettleUntracked(c) ==
    /\ settled' = [settled EXCEPT ![c] = @ + 1]
    /\ untracked' = [untracked EXCEPT ![c] = @ + 1]
    /\ UNCHANGED previousExecutions
SettleForgotten(c) ==
    /\ settled' = [settled EXCEPT ![c] = @ + 1]
    /\ UNCHANGED <<untracked, previousExecutions>>
SettleTracked(c) ==
    /\ settled' = [settled EXCEPT ![c] = @ + 1]
    /\ previousExecutions' = previousExecutions \cup {c}
    /\ UNCHANGED untracked
SettlesNothing == UNCHANGED <<previousExecutions, settled, untracked>>

simulateWorkflowExecution(c, terms, strategy, config, apiFailure, hasSet) ==
    /\ Triggered
    /\ IF \/ apiFailure \/ (hasSet /\ IsDuplicate(c)) \/ IsExpired(terms)
          \/ IsSoulbound(terms, config) \/ IsBlocked(strategy, config)
          \/ IsOverCap(strategy, config)
       THEN SettlesNothing
       ELSE IF hasSet THEN SettleTracked(c) ELSE SettleUntracked(c)
    /\ UNCHANGED <<windows, hour>>

\* The scheduled workflow knows one candidate, which is transferable and does
\* not expire, one strategy and no set, and asks nobody.
onRecoveryScanTrigger(config) ==
    /\ Triggered
    /\ IF IsOverCap("TRANSFER", config) THEN SettlesNothing
                                        ELSE SettleUntracked(Scheduled)
    /\ UNCHANGED <<windows, hour>>

\* The callers begin with a new set.
NewWindow ==
    /\ windows < MaxWindows /\ windows' = windows + 1
    /\ previousExecutions' = {}
    /\ settled' = [c \in Candidates |-> 0]
    /\ untracked' = [c \in Candidates |-> 0]
    /\ UNCHANGED <<hour, triggers>>

AnHourPasses ==
    /\ hour < MaxHour /\ hour' = hour + 1
    /\ UNCHANGED <<previousExecutions, windows, triggers, settled, untracked>>

Terms == [expiryHour : {0, MaxHour}, transferable : BOOLEAN,
          status : {"STRANDED", "EXPIRED"}]
Configs == [allowSoulboundMovement : BOOLEAN, policyAllowsTransfer : BOOLEAN,
            maxAutonomousCap : Caps]

WorkflowNext ==
    \/ \E c \in Candidates, terms \in Terms, strategy \in Strategies,
          config \in Configs, apiFailure \in BOOLEAN, hasSet \in BOOLEAN :
          simulateWorkflowExecution(c, terms, strategy, config, apiFailure,
                                    hasSet)
    \/ \E config \in Configs : onRecoveryScanTrigger(config)
    \/ NewWindow
    \/ AnHourPasses

WorkflowSpec == WorkflowInit /\ [][WorkflowNext]_workflowVars

-----------------------------------------------------------------------------
(* Properties                                                              *)

\* Within one window the callers that share its set settle an object once at
\* most, in whichever order they are triggered, with whatever terms and
\* strategies, and however often the scheduled workflow or callers without a
\* set settle the same object beside them: these remember nothing
\* (creRunner.ts:96, :248, workflow.ts:162).
SettledOncePerWindow ==
    \A c \in Candidates : settled[c] <= untracked[c] + 1

=============================================================================
