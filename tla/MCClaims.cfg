\* Three sessions at a time, claiming as often as they like.
CONSTANTS
    None = None
    Task = {t1, t2, t3}
    Peer = {A, B}
    Handle = {g, h}
SPECIFICATION ClaimSpec
SYMMETRY ClaimSymmetry
INVARIANTS ClaimTypeOK ClaimHonoured PeersHandleOwned
PROPERTY TableSpec
