SPECIFICATION Spec
CONSTANTS
    s1 = s1
    s2 = s2
    s3 = s3
    k1 = k1
    k2 = k2
    k3 = k3
    chip = chip
    llc = llc
    core = core
    alu = alu
    uncore = uncore
    mc = mc
    phy = phy
    die = die
    cluster = cluster
    fpu = fpu
    sram = sram
    Components = {chip, llc, core, alu, uncore, mc, phy, die, cluster, fpu, sram}
    Children <- MCChildren
    Watts <- MCWatts
    Servers = {s1, s2, s3}
    Clients = {k1, k2, k3}
    Owner <- MCOwner
    Peer <- MCPeer
    Home <- MCHome
    Programs <- StrayPrograms
    NoData = NoData
INVARIANT OnlyAwaitedReplies
CHECK_DEADLOCK FALSE
