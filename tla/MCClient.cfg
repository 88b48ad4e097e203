\* Two requests, a ping and one reconnection.
CONSTANTS
    Null = Null
    Requests = {1, 2}
    Pings = {3}
    Socket = {1, 2}
SPECIFICATION ClientSpec
INVARIANTS ClientTypeOK OwnReply ConnectSettles TimerPerEntry
PROPERTY CallsSettle
