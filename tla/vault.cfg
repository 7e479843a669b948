SPECIFICATION Spec
CONSTANTS
    deployer = deployer
    requester = requester
    agentKey = agentKey
    agent = agent
    NoAccount = NoAccount
    NoAgent = NoAgent
    Accounts <- MCAccounts
    Owner = deployer
    Payable <- MCPayable
    Agents <- MCAgents
    ReservationIds = {r1, r2}
    Amounts <- MCAmounts
    Expiries <- MCExpiries
    Endowment <- MCEndowment
    MaxTime = 2
INVARIANTS
    Solvent
    ClosedOnce
PROPERTIES
    ClaimsOnlySpent
    ImplementsCustody
