\* Two session tasks whose calls interleave.
CONSTANTS
    Conn = {k1, k2}
    Peer = {p, q}
    None = None
SPECIFICATION PresenceSpec
SYMMETRY Symmetry
INVARIANTS
    IndexesAgree
