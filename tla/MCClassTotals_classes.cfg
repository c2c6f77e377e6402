SPECIFICATION ClassSpec
CONSTANTS
    lanIngress = lanIngress
    wanEgress = wanEgress
    Classes = {lanIngress, wanEgress}
    MaxClassPackets = 5
    MaxClassFaults = 3
SYMMETRY Symmetry
INVARIANTS
    ClassTypeOK
    ReadHeld
    ClassSound
    
