SPECIFICATION FloorSpec
CONSTANTS
    zero = zero
    alice = alice
    bob = bob
    marketAddress = marketAddress
    escrowAddress = escrowAddress
    registry = registry
    l1 = l1
    l2 = l2
    e1 = e1
    e2 = e2
    NoAddress = NoAddress
    NoLink = NoLink
    Accounts = {alice, bob}
    Owner = bob
    Payable = {alice, bob}
    Amounts = {150, 180}
    Endowment <- MCEndowment
    MaxTime = 2
    Contracts = {marketAddress, escrowAddress}
    Objects = {o1}
    Operators = {marketAddress, escrowAddress}
    NewStatuses = {"ACTIVE", "STRANDED"}
    Expiries = {0, 1}
    Market = marketAddress
    ZeroId = zero
    FeeRecipients = {marketAddress, NoAddress}
    Listings = {l1, l2}
    Escrow = escrowAddress
    Registry = registry
    Escrows = {e1, e2}
    Deadlines = {1}
    LinkedAtDeployment = TRUE
INVARIANTS
    ApprovalIsCurrent
    MarketKeepsNothing
    EscrowSolvent
    CoinConserved
PROPERTIES
    ImplementsPayments
    MovedByRight
