SPECIFICATION Spec
CONSTANTS
    chip = chip
    core = core
    alu = alu
    phy = phy
    NumRanks = 3
    Names = {chip, core, alu, phy}
    Deployments <- MCDeployments
INVARIANTS TypeOK UniqueIDs ListeningMeansBound ReadyMeansListening NoRequestLost ExitsOnlyAtWrongPeer
PROPERTY EveryServerListens
CHECK_DEADLOCK FALSE
