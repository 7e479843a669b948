----------------------------- MODULE MCPrograms -----------------------------
(***************************************************************************)
(* The programs beside the application, which share nothing with it or     *)
(* with each other: the SDK's credit ledger, the agent guild and its vault *)
(* and the CRE workflow's harness.  A behaviour is one of one program, the *)
(* others stay as they were; each is at least as busy as its own bounds    *)
(* let it be.                                                              *)
(***************************************************************************)
EXTENDS CreditLedger, AgentGuild, CREWorkflow, TLC

CONSTANTS alice, bob, gpu, r1, r2, q1, scout, executor, client

VARIABLE program

GuildStages == <<scout, executor>>
GuildCost == [a \in GuildAgents |-> IF a = scout THEN 1 ELSE 2]

ProgramsInit ==
    /\ program \in {"ledger", "guild", "workflow"}
    /\ Init /\ GuildInit /\ WorkflowInit

LedgerRuns == Next /\ UNCHANGED <<guildSystemVars, workflowVars>>
GuildRuns == GuildNext /\ UNCHANGED <<vars, workflowVars>>
WorkflowRuns == WorkflowNext /\ UNCHANGED <<vars, guildSystemVars>>

ProgramsNext ==
    /\ UNCHANGED program
    /\ \/ program = "ledger" /\ LedgerRuns
       \/ program = "guild" /\ GuildRuns
       \/ program = "workflow" /\ WorkflowRuns

ProgramsSpec ==
    ProgramsInit /\ [][ProgramsNext]_<<program, vars, guildSystemVars, workflowVars>>

MCSymmetry == Permutations({alice, bob}) \cup Permutations({r1, r2})

=============================================================================
