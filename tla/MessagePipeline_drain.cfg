SPECIFICATION FairPipeline
CONSTANTS
    Agents = {a1}
    NoAgent = NoAgent
    Messages = {m1, m2}
    NoArg = NoArg
    Worker = w
    Sessions = {w, c1}
    Endpoints = {"inbound", "takeover", "resolve", "respond", "ai_escalate", "ai_reply"}
    BatchSize = 2
    Faults = {}
    MaxEvents = 2
    MaxFaults = 0
CHECK_DEADLOCK FALSE
PROPERTIES EventsAcknowledged SessionsEnd
