SPECIFICATION RealtimeSpec
CONSTANTS
    Sockets = {v1, v2, v3}
    NoSocket = NoSocket
    Pushers = {p1}
    v1 = v1
    v2 = v2
    v3 = v3
    x = x
    y = y
    w1 = w1
    w2 = w2
    w3 = w3
    AgentIds = {x, y}
    Conversations = {c1}
    Connections = {w1, w2, w3}
    Broadcasts = {cast1}
    Owner <- Tabs
    older = older
    newer = newer
    a1 = a1
    a2 = a2
    b1 = b1
    b2 = b2
    payload1 = payload1
    payload2 = payload2
    Threads = {older, newer}
    Messages = {a1, a2, b1, b2}
    Payloads = {payload1, payload2}
    Batch <- Crossing
    ThreadOf <- Senders
    Requests = {r1, r2}
    Scanner = scanner
    NoRequest = none
    MaxFaults = 1
    Agents = {}
    NoAgent = nobody
CHECK_DEADLOCK FALSE
INVARIANTS GoneIsUnregistered KeysTogether OpenIsListed BroadcastReachesAll AckedIsStored
PROPERTIES DeadIsDropped BacklogEmpties
