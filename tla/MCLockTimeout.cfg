SPECIFICATION Spec
CONSTANTS
    t1 = t1
    t2 = t2
    t3 = t3
    r1 = r1
    r2 = r2
    Tx <- MCTx
    Res <- MCOneRow
    None = None
    Killable <- MCNobody
    UpgradeWaits <- TimedOnly
INVARIANTS
    FrontIsBlocked
