\* Two connections of one key.
CONSTANTS
    None = None
    a1 = a1
    a2 = a2
    b1 = b1
    A = A
    B = B
    h = h
    Conn = {a1, a2}
    Peer = {A, B}
    Handle = {h}
    Sid = {}
    PubkeyOf <- Keys
    HandleOf <- NoHandles
    HasDb = FALSE
    Requests <- Silent
    PeerLists <- WatchB
    MaxRequests <- NoRequest
    ChanCap = 1
SPECIFICATION Spec
INVARIANT ConnectedPeersOnline
