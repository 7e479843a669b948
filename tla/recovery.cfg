SPECIFICATION RecoverySpec
CONSTANTS
    alice = alice
    bob = bob
    disk = disk
    pass = pass
    AgentIds = {alice, bob}
    Registered = {alice, bob}
    Objects = {disk, pass}
    Transferable = {disk}
    Policies <- OnePolicy
    DefaultPolicy <- Open
    MaxCalls = 2
    Seeded = {}
    SeededEscrow <- NoSeeds
    Endowment <- MCEndowment
    OwnerAtFirst <- MCOwner
    FirstTick = 0
    LastTick = 1
    FirstAdapter = "local"
    MaxSwitches = 1
    Terms <- MCTerms
    Late = {bob}
    MaxPlans = 2
    Approvals = {TRUE, FALSE}
    Bought = {disk}
    Prices = {600000}
INVARIANTS
    OneAtATime
    RecoveredAsReported
    ExecutedOnce
PROPERTIES
    LocksAreFreed
CHECK_DEADLOCK FALSE
