SPECIFICATION ProgramsSpec
CONSTANTS
    alice = alice
    bob = bob
    gpu = gpu
    r1 = r1
    r2 = r2
    q1 = q1
    Agents = {alice, bob}
    AssetTypes = {gpu}
    Reservations = {r1, r2}
    Requests = {q1}
    CreditAmounts = {1, 2}
    Grain = 2
    MaxRoundings = 9
    scout = scout
    executor = executor
    client = client
    GuildAgents = {scout, executor, client}
    Others = {client}
    ReservationIds = {i1}
    Amounts = {1, 2}
    Stages <- GuildStages
    Cost <- GuildCost
    MaxGranted = 5
    Pipelines = {p1}
    MaxRuns = 2
    Candidates = {c1, c2}
    Scheduled = c1
    Caps = {60, 130, 500}
    MaxWindows = 1
    MaxHour = 1
    MaxTriggers = 4
SYMMETRY MCSymmetry
INVARIANTS
    LedgerIsSound
    CreditsAddUp
    StagesArePaid
    SettledOncePerWindow
CHECK_DEADLOCK FALSE
