----------------------------- MODULE Ownership -----------------------------
(***************************************************************************)
(* What the agent inbox promises about a conversation, with no sessions,   *)
(* locks or snapshots: a conversation is open or not, and at most one      *)
(* agent owns it.  An agent becomes the owner only of an open conversation *)
(* nobody owns, and loses it only when the conversation is resolved, never *)
(* to another agent (the "silently evicted" race the takeover endpoint     *)
(* names).                                                                 *)
(***************************************************************************)
CONSTANTS Agents, NoAgent
VARIABLES owner, open

vars == <<owner, open>>

Init == owner = NoAgent /\ open = FALSE

\* The thread is created, or a finished one is reopened; an owner left behind
\* by a close that did not pass through "resolved" stays.
Open == ~open /\ open' = TRUE /\ owner' = owner

Close == open /\ open' = FALSE /\ owner' = owner

Claim(a) == open /\ owner = NoAgent /\ owner' = a /\ open' = open

Release == owner # NoAgent /\ owner' = NoAgent /\ open' = FALSE

Next == Open \/ Close \/ (\E a \in Agents : Claim(a)) \/ Release

Spec == Init /\ [][Next]_vars
============================================================================
