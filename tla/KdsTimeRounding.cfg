\* The float division of _get_protection_gke_from_cache near L0 boundaries.
CONSTANTS
    Base <- MCBase
    Prec = 13
    Times <- MCTimes
SPECIFICATION Spec
INVARIANT CurrentIndexIsGkdiIndex
CHECK_DEADLOCK FALSE
