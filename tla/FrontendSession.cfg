SPECIFICATION Spec
CONSTANTS
    Tab = {t1}
    NoTab = NoTab
    User = {ann, bob}
    Nobody = Nobody
    Flow = {f1, f2}
    Overlap = 2
    LoginsAlone = TRUE
    MaxToken = 3
    MaxFaults = 1
INVARIANTS
    TypeOK
    ActsAsShownUser
PROPERTIES
    NoTokenAfterLogout
    SignedInIsServed
    FlowsEnd
