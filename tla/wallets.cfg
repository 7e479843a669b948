SPECIFICATION PageSpec
CONSTANTS
    alice = alice
    stranger = stranger
    mobile = mobile
    browser = browser
    api = api
    AgentIds = {alice, stranger}
    Registered = {alice}
    Objects = {api}
    Transferable = {}
    Policies <- TwoPolicies
    DefaultPolicy <- Limits
    MaxCalls = 2
    Seeded = {}
    SeededEscrow <- NoSeeds
    Endowment <- MCEndowment
    OwnerAtFirst <- MCOwner
    FirstTick = 3
    LastTick = 4
    Wallets = {mobile, browser}
    Connecting = {mobile}
    Injected = {browser}
    MaxOpenings = 2
    Amounts = {40, 400}
    Capable = {alice}
    OnMonad = {mobile, browser}
    old = old
    new = new
    Credentials = {old, new}
    Known = {old}
    MaxIdentities = 2
    MaxPublications = 1
INVARIANTS
    BooksBalance
    OnlyActiveSessionLives
PROPERTIES
    LimitsUnlessOvertaken
CHECK_DEADLOCK FALSE
