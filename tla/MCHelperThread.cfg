SPECIFICATION HelperFairSpec
CONSTANTS
    g1 = g1
    g2 = g2
    g3 = g3
    Ghosts <- ThreeGhosts
    Advances = 3
INVARIANTS
    NoActDuringReset
    ReturnsWhenSynced
PROPERTIES
    EveryCallEnds
