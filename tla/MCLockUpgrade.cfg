CHECK_DEADLOCK FALSE
SPECIFICATION FairSpec
CONSTANTS
    t1 = t1
    t2 = t2
    t3 = t3
    r1 = r1
    r2 = r2
    Tx <- MCPair
    Res <- MCOneRow
    None = None
    Killable <- MCNobody
    UpgradeWaits <- AnyWait
PROPERTIES
    EverySleeperWakes
