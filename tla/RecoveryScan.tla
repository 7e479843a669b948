---------------------------- MODULE RecoveryScan ----------------------------
(***************************************************************************)
(* The CRE workflow over the collector (src/integrations/cre and its       *)
(* card): a scan picks an object, has a plan made, asks Qwen, lets the     *)
(* policy decide on what Qwen advises, and has the plan executed with an   *)
(* operator's approval.  Beside it the console executes plans, too.        *)
(***************************************************************************)
EXTENDS Recovery

CONSTANTS
    MaxScans,      \* bound: the scans that are run
    MaxCards,      \* bound: how often the card is mounted
    Advised,       \* what Qwen may advise
    Demo,          \* the objects a demonstration is run with: one, or none
    DemoOwner,     \* its owner
    Operated       \* bound: the agents whose policy is changed

\* Qwen may advise any strategy, none it knows, nothing at all, or, without a
\* strategy, the action of a transfer.
Advice == Strategies \cup {"OTHER", "none", "transfer"}

Scans == 1..MaxScans
NoScan == [at |-> "none"]
Reports == {"NO_CANDIDATES", "BLOCKED_BY_POLICY", "REVIEW_REQUIRED", "SUCCESS",
            "FAILED"}

ASSUME ScanAssumption ==
    /\ MaxScans \in Nat /\ MaxCards \in Nat \ {0} /\ Advised \subseteq Advice
    /\ Demo \subseteq Objects /\ Cardinality(Demo) <= 1
    /\ DemoOwner \in Registered /\ Operated \subseteq Registered
    \* The demonstration's object does not expire within the bound.
    /\ \A o \in Demo : Terms[o].expiry > LastTick

\* No object of the program states a transferability beside its flag, which
\* then decides (EconomicObjectRepository.ts:61-65).
ASSUME FlagAssumption ==
    \A o \in Objects : CanMove(o) => o \in Transferable

VARIABLES
    scans,         \* scan -> what it is about and how far it is
    card,          \* the mounted card: each has a service of its own
    processed,     \* card -> processedObjectIds of its service
    executing      \* the scan whose code runs, between two awaits

scanVars == <<scans, card, processed, executing>>
allVars == <<recoveryVars, scanVars>>

Nobody == 0

ScanInit ==
    /\ RecoveryInit
    /\ scans = [s \in Scans |-> NoScan]
    /\ card = 1
    /\ processed = [k \in 1..MaxCards |-> {}]
    /\ executing = Nobody

IsUnused(s) == scans[s] = NoScan /\ \A t \in 1..(s - 1) : scans[t] # NoScan
IsIn(s, place) == scans[s].at = place
Report(s, status) == scans' = [scans EXCEPT ![s].at = status]
IsReported(s) == scans[s].at \in Reports

\* handleRunScan: the button waits for the scan of this card.
CanRun(s) ==
    /\ IsUnused(s) /\ executing = Nobody
    /\ \A t \in Scans : scans[t] # NoScan /\ scans[t].card = card => IsReported(t)

-----------------------------------------------------------------------------
(* Finding an object, and asking Qwen                                      *)

\* What is found to be stranded, and was not swept by this service; which of
\* them is the first is left open.
IsCandidate(o) ==
    /\ ~Done(o) /\ objects[o].status # "EXPIRED"
    /\ objects[o].status = "STRANDED" \/ Remaining(o) > Terms[o].projected
    /\ o \notin processed[card]

Found(s, trigger, at, o, p) ==
    scans' = [scans EXCEPT ![s] =
        [at |-> at, trigger |-> trigger, card |-> card, object |-> o,
         plan |-> p, call |-> 0]]

\* The object is expired, or a plan is made for it, and Qwen asked.
Examine(s, trigger, o) ==
    \/ /\ tick >= Terms[o].expiry
       /\ UpdateObject(o, "EXPIRED", objects[o].owner)
       /\ Found(s, trigger, "NO_CANDIDATES", o, 0)
       /\ UNCHANGED <<balances, policies, records, transactions, tick, calls,
                      settleVars, planVars>>
    \/ /\ tick < Terms[o].expiry
       /\ \E p \in Plans : plan(p, o) /\ Found(s, trigger, "asking", o, p)

runWorkflowScan(s) ==
    /\ CanRun(s)
    /\ \/ /\ \E o \in Objects : IsCandidate(o) /\ Examine(s, "CRON_SCHEDULE", o)
          /\ UNCHANGED <<card, processed, executing>>
       \/ /\ \A o \in Objects : ~IsCandidate(o)
          /\ scans' = [scans EXCEPT ![s] =
                [at |-> "NO_CANDIDATES", trigger |-> "CRON_SCHEDULE",
                 card |-> card, plan |-> 0, call |-> 0]]
          /\ UNCHANGED <<recoveryVars, card, processed, executing>>

\* runBountyDemo: the object is put back, whoever has it, and scanned.
DemoGoods == [consumed |-> 0, value |-> Milli * 16400]

Seed(s, o) ==
    /\ objects' = [objects EXCEPT ![o] =
                      [owner |-> DemoOwner, status |-> "STRANDED"]]
    /\ goods' = [goods EXCEPT ![o] = DemoGoods]
    /\ processed' = [processed EXCEPT ![card] = @ \ {o}]
    /\ Found(s, "EVM_LOG_STRANDED", "seeded", o, 0)
    /\ executing' = s
    /\ UNCHANGED <<balances, policies, records, transactions, tick, calls,
                   settleVars, active, listings, plans, inFlight, executed,
                   planOf, card>>

runBountyDemo(s) ==
    /\ CanRun(s) /\ \E p \in Plans : plans[p] = NoPlan
    /\ \E o \in Demo : Seed(s, o)

ScanSeeded(s) ==
    /\ IsIn(s, "seeded")
    /\ Examine(s, "EVM_LOG_STRANDED", scans[s].object)
    /\ executing' = Nobody
    /\ UNCHANGED <<card, processed>>

-----------------------------------------------------------------------------
(* Qwen's answer, the policy's decision, and the execution                 *)

\* What is done if Qwen's advice is followed.
Proposed(p, advice) ==
    IF advice \in Strategies \cup {"OTHER"} THEN advice ELSE plans[p].strategy

Vetoed(o, advice) == advice \in {"TRANSFER", "transfer"} /\ o \notin Transferable

PolicyLeftToExecution(p, advice) == {}
PolicyOn(p, advice) ==
    validateRecovery(plans[p].owner, Proposed(p, advice), plans[p].expected)

\* The answer ends in a report without an execution.
ScanHalts(s, advice) ==
    LET it == scans[s]
    IN  /\ executing = Nobody /\ IsIn(s, "asking")
        /\ \/ Vetoed(it.object, advice) /\ Report(s, "BLOCKED_BY_POLICY")
           \/ /\ ~Vetoed(it.object, advice)
              /\ PolicyOn(it.plan, advice) # {}
              /\ Report(s, "REVIEW_REQUIRED")
        /\ UNCHANGED <<recoveryVars, card, processed, executing>>

\* The plan of the scan is its own copy: the store's is overwritten with it
\* when its execution starts, whatever became of that meanwhile.
Copy(p, advice) == [plans[p] EXCEPT !.strategy = Proposed(p, advice),
                                    !.status = "PROPOSED"]
KeyOf(copy) == <<copy.object, copy.strategy, copy.quantity>>

MayProceed(s, advice) ==
    /\ executing = Nobody /\ IsIn(s, "asking")
    /\ ~Vetoed(scans[s].object, advice)
    /\ PolicyOn(scans[s].plan, advice) = {}

ForgetSweep(s) == UNCHANGED processed
Sweep(s) ==
    processed' = [processed EXCEPT ![scans[s].card] = @ \cup {scans[s].object}]

\* The lock on the object is an error; a duplicate counts as a success.
ScanDeclined(s, advice) ==
    LET p == scans[s].plan
    IN  /\ MayProceed(s, advice)
        /\ \/ /\ Locked(p)
              /\ Report(s, "FAILED") /\ UNCHANGED processed
           \/ /\ ~Locked(p) /\ KeyOf(Copy(p, advice)) \in executed
              /\ Report(s, "SUCCESS") /\ Sweep(s)
        /\ UNCHANGED <<recoveryVars, card, executing>>

\* Else the copy is handed in, with the operator's approval.
ScanProceeds(s, advice) ==
    LET p == scans[s].plan
    IN  /\ MayProceed(s, advice)
        /\ ~Locked(p) /\ KeyOf(Copy(p, advice)) \notin executed
        /\ plans' = [plans EXCEPT ![p] = Copy(p, advice)]
        /\ Report(s, "executing") /\ executing' = s
        /\ UNCHANGED <<storeVars, calls, settleVars, goods, active, listings,
                       inFlight, executed, planOf, card, processed>>

ScanExecutes(s) ==
    /\ IsIn(s, "executing")
    /\ \E c \in Calls :
          /\ \/ executePlan(c, scans[s].plan, TRUE)
             \/ Abandon(c, scans[s].plan, TRUE)
          /\ scans' = [scans EXCEPT ![s] = [@ EXCEPT !.at = "recovering",
                                                    !.call = c]]
    /\ executing' = Nobody
    /\ UNCHANGED <<card, processed>>

\* What the execution came to: only an executed plan is a success.
ScanReports(s) ==
    /\ executing = Nobody /\ IsIn(s, "recovering")
    /\ calls[scans[s].call] = Finished
    /\ IF plans[scans[s].plan].status = "EXECUTED"
       THEN Report(s, "SUCCESS") /\ Sweep(s)
       ELSE Report(s, "FAILED") /\ UNCHANGED processed
    /\ UNCHANGED <<recoveryVars, card, executing>>

ScanResumes(s) ==
    \/ ScanSeeded(s) \/ ScanExecutes(s) \/ ScanReports(s)
    \/ \E advice \in Advised :
          ScanHalts(s, advice) \/ ScanDeclined(s, advice)
          \/ ScanProceeds(s, advice)

-----------------------------------------------------------------------------
(* Composition                                                             *)

\* The tab is left and opened again: a new service, while the scan of the old
\* one goes on.
Remount ==
    /\ executing = Nobody /\ card < MaxCards
    /\ card' = card + 1
    /\ UNCHANGED <<recoveryVars, scans, processed, executing>>

\* ConsoleRecoveryEngine: whatever plan there is, approved by the click; the
\* bound on calls leaves one to each scan.
handleExecuteSettlement(c) ==
    /\ c <= MaxCalls - Cardinality({s \in Scans : scans[s] = NoScan
                                      \/ scans[s].at \in {"seeded", "asking"}})
    /\ \E p \in Plans : executePlan(c, p, TRUE) \/ Abandon(c, p, TRUE)

\* An operator changes a policy.
changePolicy(a, policy) ==
    updatePolicy(a, policy) /\ UNCHANGED <<settleVars, planVars>>

Elsewhere ==
    /\ executing = Nobody
    /\ \/ \E c \in Calls : handleExecuteSettlement(c) \/ RecoveryResumes(c)
       \/ \E c \in Calls : (Mined(c) \/ NotMined(c)) /\ UNCHANGED planVars
       \/ setSettlementAdapter /\ UNCHANGED planVars
       \/ TimePasses /\ UNCHANGED <<settleVars, planVars>>
       \/ \E a \in Operated, policy \in Policies : changePolicy(a, policy)
    /\ UNCHANGED scanVars

ScanNext ==
    \/ \E s \in Scans : runWorkflowScan(s) \/ runBountyDemo(s) \/ ScanResumes(s)
    \/ Remount
    \/ Elsewhere

ScanSpec == ScanInit /\ [][ScanNext]_allVars

-----------------------------------------------------------------------------
(* Properties                                                              *)

\* Qwen reasons, the policy decides: what a scan starts to execute is what
\* the owner's policy permits at that moment, whatever Qwen advised and
\* however the policy was changed while it was asked
\* (creService.ts:226-281; the execution itself is told that an operator
\* approved, creService.ts:322).
AdviceIsChecked ==
    [][\A s \in Scans :
          IsIn(s, "executing") /\ ~(scans'[s].at = "executing") =>
             LET it == plans[scans[s].plan]
             IN  /\ validateRecovery(it.owner, it.strategy, it.expected) = {}
                 /\ it.strategy = "TRANSFER" => it.object \in Transferable
      ]_allVars

\* Scheduled scans of one service report the recovery of an object once, also
\* when the console executes plans for it, or the demonstration is run between
\* them (creService.ts:121, :323).
SweptOnce ==
    \A s, t \in Scans :
        /\ s < t
        /\ IsIn(s, "SUCCESS") /\ IsIn(t, "SUCCESS")
        /\ scans[s].trigger = "CRON_SCHEDULE" /\ scans[t].trigger = "CRON_SCHEDULE"
        /\ scans[s].card = scans[t].card /\ scans[s].object = scans[t].object
        => \E d \in (s + 1)..(t - 1) :
              /\ scans[d].trigger = "EVM_LOG_STRANDED"
              /\ scans[d].card = scans[s].card

-----------------------------------------------------------------------------
(* A statement of the repository's documents                               *)

\* "Idempotency: Processed object IDs are tracked per execution window to
\* prevent double-spends" (docs/integrations/chainlink-cre.md:184): no two
\* scheduled scans of one service have the same buyer pay for the same object.
PaysInBuyout(s) ==
    /\ scans[s] # NoScan /\ scans[s].trigger = "CRON_SCHEDULE"
    /\ scans[s].call # 0 /\ payments[scans[s].call] > 0
    /\ plans[scans[s].plan].strategy = "TRANSFER"
NoDoubleSpend ==
    \A s, t \in Scans :
        /\ s # t /\ PaysInBuyout(s) /\ PaysInBuyout(t)
        /\ scans[s].card = scans[t].card /\ scans[s].object = scans[t].object
        => plans[scans[s].plan].buyer # plans[scans[t].plan].buyer

=============================================================================
