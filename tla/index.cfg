\* Two accounts, one object, listing, escrow and reservation, one agent id
\* besides 0; up to two events wait.
SPECIFICATION IndexedSpec
CONSTANTS
    NoAddress = NoAddress
    NoLink = NoLink
    Accounts = {alice, bob}
    Owner = bob
    Payable = {alice, bob}
    Amounts = {100}
    Endowment <- EvenEndowment
    MaxTime = 1
    Contracts = {marketAddress, escrowAddress}
    Objects = {o1}
    Operators = {marketAddress, escrowAddress}
    NewStatuses = {"RECOVERED"}
    Expiries = {0}
    Market = marketAddress
    ZeroId = zero
    FeeRecipients = {}
    Listings = {l1}
    Escrow = escrowAddress
    Registry = registry
    Escrows = {e1, e2}
    Deadlines = {1}
    LinkedAtDeployment = TRUE
    AgentIds = {a1}
    ZeroAgent = zeroAgent
    Metadata = {m1}
    ReservationIds = {r1}
    EscrowLimit = 1
    FineWei = 16
    MonSpacings = {1, 3}
    Lag = 2
    Scopes = {{"objects", "marketplace"}, {"objects", "escrow"}, {"escrow"}, {"registry"}, {"vault"}}
    Timed = {{"escrow"}, {"vault"}}
    Spare = {e2}
INVARIANTS
    IndexFollowsChain
    IndexAddsUp
    OneWalletOneAgent
CHECK_DEADLOCK FALSE
