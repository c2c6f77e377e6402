SPECIFICATION Spec
CONSTANTS
    eth0 = eth0
    bond0 = bond0
    rx = rx
    tx = tx
    Nics = {eth0}
    Bond = bond0
    Dirs = {rx, tx}
    OldBytes = 1
    MaxPackets = 3
    MaxFaults = 2
INVARIANTS
    TypeOK
    TotalsSound
    TotalsComplete
    RatesFresh
