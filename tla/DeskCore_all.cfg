SPECIFICATION Spec
CONSTANTS
    Agents = {a1, a2}
    NoAgent = NoAgent
    Messages = {m1, m2}
    NoArg = NoArg
    Sessions = {s1, s2}
    Endpoints = {"inbound", "takeover", "resolve", "status", "scan", "ai_escalate", "respond", "ai_reply"}
SYMMETRY Symmetry
INVARIANTS TypeOK ExclusiveIsFresh NoSilentMessage 
PROPERTIES AISwitchesWithOwner OwnershipKept
