\* A client that subscribes to a peer while the peer connects or leaves.
CONSTANTS
    None = None
    a1 = a1
    a2 = a2
    b1 = b1
    A = A
    B = B
    h = h
    Conn = {a1, b1}
    Peer = {A, B}
    Handle = {h}
    Sid = {}
    PubkeyOf <- Keys
    HandleOf <- NoHandles
    HasDb = FALSE
    Requests <- Subscribing
    PeerLists <- WatchB
    MaxRequests <- TwoByA
    ChanCap = 2
SPECIFICATION Spec
INVARIANT WatcherToldLast
