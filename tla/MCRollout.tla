------------------------------- MODULE MCRollout -------------------------------
\* Instances of Rollout for TLC.
EXTENDS Rollout

================================================================================
