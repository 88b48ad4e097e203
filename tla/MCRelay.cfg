\* Two keys that open, accept and use a relay session, and leave, with full
\* channels on the way, while one of them watches the other.
CONSTANTS
    None = None
    a1 = a1
    a2 = a2
    b1 = b1
    A = A
    B = B
    h = h
    Conn = {a1, b1}
    Peer = {A, B}
    Handle = {h}
    Sid = {i1}
    PubkeyOf <- Keys
    HandleOf <- NoHandles
    HasDb = FALSE
    Requests <- Relaying
    PeerLists <- WatchB
    MaxRequests <- TwoByAOneByB
    ChanCap = 1
SPECIFICATION FairSpec
INVARIANTS RelayConsent RelaySessionsAttended WatcherTold
PROPERTY SessionsEnd
