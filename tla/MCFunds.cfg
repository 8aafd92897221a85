SPECIFICATION AreaSpec
CONSTANTS
    Slots = 3
    IntervalSeconds = 3
    MinDt = 2
    MaxDt = 3
    DelayGrowth <- MCQuarter
    StableGrowth <- MCEighth
    Prices = {0, 100, 160}
    Starts = {0, 4}
    MaxTime = 11
    MaxResets = 1
INVARIANTS
    TypesOK
    Solvent
    
    ProjectionsTrue
    MoneyConserved
    Conserved
    VaultBacksBalances
    HealthIsWorstCase
    StableInRange
PROPERTIES
    HealthNotWorse
    NotBeyondHealth
    FairPrice
CHECK_DEADLOCK FALSE
