------------------------- MODULE ObservedGeneration --------------------------
(***************************************************************************)
(* What the generations of a deployment promise to their readers (the      *)
(* Kubernetes observedGeneration pattern that models/gateway_deployment.py *)
(* names): every change of the desired state takes the next number, and    *)
(* the number reported as observed is one that was the desired one at the  *)
(* moment of the report.  Who asks, who reports, how long reports travel   *)
(* and how many of them are lost is left open.                             *)
(***************************************************************************)
EXTENDS Naturals

VARIABLES alive,      \* the deployment exists
          desired,    \* its desired generation, 0 when it does not exist
          observed    \* the generation last reported in place

vars == <<alive, desired, observed>>

Init == alive = FALSE /\ desired = 0 /\ observed = 0

Create == ~alive /\ alive' = TRUE /\ desired' = 1 /\ observed' = 0

Desire == alive /\ desired' = desired + 1 /\ UNCHANGED <<alive, observed>>

Observe == alive /\ observed' = desired /\ UNCHANGED <<alive, desired>>

Remove == alive /\ alive' = FALSE /\ desired' = 0 /\ observed' = 0

Next == Create \/ Desire \/ Observe \/ Remove

Spec == Init /\ [][Next]_vars
==============================================================================
