SPECIFICATION InstanceSpec
CONSTANTS
    deployer = deployer
    requester = requester
    agentKey = agentKey
    agent = agent
    otherAgent = otherAgent
    r1 = r1
    lower = lower
    upper = upper
    NoAccount = NoAccount
    NoAgent = NoAgent
    Accounts <- MCAccounts
    Owner = deployer
    Payable <- MCPayable
    Agents <- MCAgents
    ReservationIds = {r1}
    Amounts <- MCAmounts
    Expiries = {0, 1}
    Endowment <- MCEndowment
    MaxTime = 2
    Requests = {q1, q2}
    Keys = {lower, upper}
    IdOf <- MCIdOf
    Senders <- MCSenders
    Clients <- MCClients
    Signer = agentKey
    ThisAgent = agent
    Price = 2
    SafeInteger = 4
    Spacings = {1, 2, 4}
    MaxRestarts = 1
INVARIANTS
    ClaimsHeld
    ClosedByOneCall
    OutcomeIsTrue
PROPERTIES
    ChargedForWork
    EveryRequestEnds
CHECK_DEADLOCK FALSE
