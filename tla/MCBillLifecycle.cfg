CONSTANTS
    both = both
    regional = regional
    r1 = r1
    Tariff = Tariff
    Laws = {both, regional, Tariff}
    Catalog = {both, regional}
    AllowedScope <- MCAllowedScope
    Baseline = {both}
    Regions = {r1}
    National = National
    Chambers <- TwoChambers
    Senate = "senate"
    Vacant = Vacant
    Tallies <- MCTallies
    NoTally = NoTally
    StartInfluence = 5
    MaxTurn = 7
    MaxBills = 2
SPECIFICATION Spec
INVARIANTS
    TypeOK
    LastSignedRules
    StoresAgree
    SignedThroughChambers
    NoBillHangs
    ChargesComeBackOnce
PROPERTY StatutesKept
CHECK_DEADLOCK FALSE
