SPECIFICATION PipelineSpec
CONSTANTS
    Agents = {a1}
    NoAgent = NoAgent
    Messages = {m1, m2}
    NoArg = NoArg
    Worker = w
    Sessions = {w, c1}
    Endpoints = {"inbound", "takeover", "resolve", "ai_escalate", "ai_reply"}
    BatchSize = 2
    Faults = {"crash", "redis", "database"}
    MaxEvents = 3
    MaxFaults = 2
CHECK_DEADLOCK FALSE
SYMMETRY Symmetry
INVARIANTS OneReplyPerEvent NothingSentUnstored  NoneStranded
