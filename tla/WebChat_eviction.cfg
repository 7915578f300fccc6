SPECIFICATION WebChatSpec
CONSTANTS
    Sockets = {w1, w2, w3}
    NoSocket = NoSocket
    Pushers = {p1}
PROPERTY ServingStaysRegistered
CHECK_DEADLOCK FALSE
