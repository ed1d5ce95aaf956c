CONSTANTS
    Regions = {"SCO", "NIR"}
    Reunifying = {"NIR"}
    Home = "NIR"
    MaxReferendums = 4
    MaxTurn = 12
    CAMPAIGN_WINDOW = 2
    CONVERSION_WINDOW = 2
    EXEC_WINDOW = 1
    SETTLED_COOLDOWN = 2
SPECIFICATION Spec
INVARIANTS
    TypeOK
    SecededByConsent
    NoReferendumHangs
PROPERTY UnionKept
CHECK_DEADLOCK FALSE
