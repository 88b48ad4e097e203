\* Two sessions at a time.
CONSTANTS
    None = None
    Task = {t1, t2}
    Peer = {A, B}
    Handle = {g, h}
SPECIFICATION ClaimSpec
INVARIANT OneHandlePerKey
