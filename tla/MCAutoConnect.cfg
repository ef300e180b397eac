\* Three threads, two devices, probes of one device at the same time.
CONSTANTS
    Threads = {t1, t2, t3}
    Devices = {10, 20}
    Numbers <- Apart
    MaxClient = 1
    Overlap <- Probes
SPECIFICATION Spec
SYMMETRY MCSymmetry
INVARIANTS TypeOK InjectedOnce NoDoubleConnect ProbesReach ClosedClean
