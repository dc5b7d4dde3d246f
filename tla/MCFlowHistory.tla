--------------------------- MODULE MCFlowHistory ---------------------------
\* Instances of FlowHistory for TLC: at most two flows, to one address.
EXTENDS FlowHistory

CONSTANTS f1, f2, d

OneDest == [f \in {f1, f2} |-> d]
=============================================================================
