---- MODULE MCPushSync ----
EXTENDS PushSync, TLC
Symmetry == Permutations(Specs)
====
