\* Two connections of one key, with a handle to claim, that share its registry
\* entry and its subscriptions.
CONSTANTS
    None = None
    a1 = a1
    a2 = a2
    b1 = b1
    A = A
    B = B
    h = h
    Conn = {a1, a2}
    Peer = {A, B}
    Handle = {h}
    Sid = {}
    PubkeyOf <- Keys
    HandleOf <- AllWantH
    HasDb = TRUE
    Requests <- Asking
    PeerLists <- WatchA
    MaxRequests <- OneEach
    ChanCap = 1
SPECIFICATION Spec
INVARIANTS TypeOK NoGhostWatcher RegistryEntriesLive WatchersConnected
           OnlineUnlessOverlapped HandleIndexOwned
