CONSTANTS
    both = both
    regional = regional
    r1 = r1
    Tariff = Tariff
    Laws = {both, regional, Tariff}
    Catalog = {both, regional}
    AllowedScope <- MCAllowedScope
    Baseline = {both}
    Regions = {r1}
    National = National
    Chambers <- OneChamber
    Senate = "senate"
    Vacant = Vacant
    Tallies <- TwoTallies
    NoTally = NoTally
    StartInfluence = 5
    MaxTurn = 5
    MaxBills = 2
SPECIFICATION Spec
INVARIANTS
    RepealRemovesLaw
CHECK_DEADLOCK FALSE
