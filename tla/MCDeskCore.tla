---- MODULE MCDeskCore ----
\* DeskCore for TLC: the sessions are interchangeable, and so are the agents.
EXTENDS DeskCore, TLC

Symmetry == Permutations(Sessions) \cup Permutations(Agents) \cup Permutations(Messages)


============================
