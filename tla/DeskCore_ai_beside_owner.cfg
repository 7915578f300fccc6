SPECIFICATION Spec
CONSTANTS
    Agents = {a1, a2}
    NoAgent = NoAgent
    Messages = {m1}
    NoArg = NoArg
    Sessions = {s1, s2}
    Endpoints = {"inbound", "takeover", "status"}
SYMMETRY Symmetry
INVARIANTS AISilentForOwner
