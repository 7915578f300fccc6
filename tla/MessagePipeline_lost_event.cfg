SPECIFICATION FairPipeline
CONSTANTS
    Agents = {a1}
    NoAgent = NoAgent
    Messages = {m1}
    NoArg = NoArg
    Worker = w
    Sessions = {w, c1}
    Endpoints = {"inbound", "takeover", "resolve", "ai_escalate", "ai_reply"}
    BatchSize = 2
    Faults = {"crash"}
    MaxEvents = 1
    MaxFaults = 1
CHECK_DEADLOCK FALSE
PROPERTIES AtLeastOnce
