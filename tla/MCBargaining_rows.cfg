CONSTANTS
    e1 = e1
    e2 = e2
    l1 = l1
    l2 = l2
    Employers = {e1, e2}
    Locals = {l1, l2}
    Gone = Gone
    FirstEmployer <- MCFirstEmployer
    Terms <- MCTerms
    MaxCampaigns = 2
    MaxTurn = 5
    MaxUpheavals = 1
    MaxFund = 2
    StartFund = 2
    Dues = {1}
    Softenings = {0}
    DEADLINE_TURNS = 1
    MAX_OFFERS = 3
    DISPUTE_MAX_TURNS = 3
    REOPEN_COOLDOWN_TURNS = 1
    BAN_UPKEEP = 1
    STRIKE_CALL_COST = 1
    STRIKE_CALL_COOLDOWN_TURNS = 2
    CONCESSION_GAP = 0
    FORCED_GAP = 3
    TREND_STEP = 1
    STRIKE_DURATION_TURNS = 2
    STRIKE_COOLDOWN_TURNS = 3
    RATIFICATION_TURNS = 2
SPECIFICATION Spec
INVARIANT EmployersResolve
CHECK_DEADLOCK FALSE
