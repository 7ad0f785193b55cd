SPECIFICATION FairSpec
CONSTANTS
    t1 = t1
    t2 = t2
    t3 = t3
    r1 = r1
    r2 = r2
    Tx <- MCTx
    Res <- MCRes
    None = None
    Killable <- MCKillable
    UpgradeWaits <- TimedOnly
INVARIANTS
    TypeOK
    HoldersCompatible
    IndexesAgree
    SleepersKnown
    NoOrphanedQueue
    NoWaitCycle
PROPERTIES
    VictimOnCycle
    FirstComeFirstServed
    EverySleeperWakes
    ImplementsTwoPL
