SPECIFICATION Spec
CONSTANTS
    chip = chip
    core = core
    alu = alu
    phy = phy
    NumRanks = 3
    Names = {chip, core, alu, phy}
    Deployments <- LineAlone
INVARIANT SoundDeploymentsStart
CHECK_DEADLOCK FALSE
