---- MODULE MCMessagePipeline ----
\* MessagePipeline for TLC.  Clients and messages are interchangeable.
EXTENDS MessagePipeline, TLC

Symmetry == Permutations(Clients) \cup Permutations(Messages) \cup Permutations(Agents)
============================
