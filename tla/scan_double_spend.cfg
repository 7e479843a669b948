SPECIFICATION ScanSpec
CONSTANTS
    alice = alice
    bob = bob
    disk = disk
    pass = pass
    AgentIds = {alice, bob}
    Registered = {alice, bob}
    Objects = {disk, pass}
    Transferable = {disk}
    Policies <- MCPolicies
    DefaultPolicy <- Open
    MaxCalls = 3
    Seeded = {}
    SeededEscrow <- NoSeeds
    Endowment <- MCEndowment
    OwnerAtFirst <- MCOwner
    FirstTick = 1
    LastTick = 1
    FirstAdapter = "monad"
    MaxSwitches = 0
    Terms <- MCTerms
    Late = {}
    MaxPlans = 2
    Approvals = {TRUE}
    Bought = {}
    Prices = {}
    MaxScans = 2
    MaxCards = 2
    Advised = {"TRANSFER", "REFUND", "OTHER", "none"}
    Demo = {disk}
    DemoOwner = alice
    Operated = {alice}

INVARIANTS
    NoDoubleSpend
CHECK_DEADLOCK FALSE
