------------------------- MODULE MCLightningDeployment -------------------------
(* Instances of LightningDeployment for TLC. *)
EXTENDS LightningDeployment, TLC

\* Deployments of one model, or of models whose names are cut alike.
OneName == [d \in Deployments |-> "llmops-model"]

\* Every action treats accounts alike, DELETE handlers, and deployments of one name.
Interchangeable ==
    Permutations(Deployments) \cup Permutations(Accounts) \cup Permutations(Requests)

===============================================================================
