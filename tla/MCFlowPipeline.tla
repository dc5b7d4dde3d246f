--------------------------- MODULE MCFlowPipeline ---------------------------
\* Instances of FlowPipeline for TLC.
EXTENDS FlowPipeline
=============================================================================
