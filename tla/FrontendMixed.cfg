SPECIFICATION Spec
CONSTANTS
    Tab = {t1, t2}
    NoTab = NoTab
    User = {ann, bob}
    Nobody = Nobody
    Flow = {f1, f2}
    Overlap = 1
    LoginsAlone = FALSE
    MaxToken = 3
    MaxFaults = 0
SYMMETRY Symmetry
INVARIANTS
    ActsAsShownUser
