--------------------------- MODULE MCPeeringToggle ---------------------------
\* Instances of PeeringToggle for TLC: requests and services are alike.
EXTENDS PeeringToggle, TLC

Handles == Permutations(Reqs) \cup Permutations(Svcs)
=============================================================================
