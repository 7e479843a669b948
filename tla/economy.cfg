SPECIFICATION RuntimeSpec
CONSTANTS
    alice = alice
    bob = bob
    carol = carol
    disk = disk
    e1 = e1
    Seeded = {e1}
    SeededEscrow <- MCSeededEscrow
    AgentIds = {alice, bob, carol}
    Registered = {alice, bob}
    Objects = {disk}
    Transferable = {disk}
    Policies <- TwoPolicies
    DefaultPolicy <- Strict
    MaxCalls = 2
    Endowment <- MCEndowment
    OwnerAtFirst <- MCOwner
    FirstTick = 3
    LastTick = 4
    FirstAdapter = "local"
    MaxSwitches = 2
    Capabilities <- MCCapabilities
    Amounts = {400}
    Edited = {alice}
INVARIANTS
    SettledMeansPaid
    SellerPaidOnce
PROPERTIES
    ReserveKept
CHECK_DEADLOCK FALSE
