---- MODULE MCAgentSync ----
EXTENDS AgentSync, TLC
Symmetry == Permutations(Specs) \cup Permutations(Handlers)
====
