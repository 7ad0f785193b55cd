SPECIFICATION ServersSpec
CONSTANTS
    Wire = {w1, w2}
    Rest = rest
    Console = console
    MaxTx = 2
    MaxStatements = 3
INVARIANT
    OneClientEach
CHECK_DEADLOCK FALSE
