SPECIFICATION Spec
CONSTANTS
    Replicas <- MCReplicas
    Image = {}
    Unset = Unset
    MaxUid = 2
    MaxOps = 3
    MaxLag = 2
INVARIANTS
    TypeOK
PROPERTIES
    NeverSteals
    SpecConverges
    StatusConverges
    OrphansAreCollected
CHECK_DEADLOCK FALSE
