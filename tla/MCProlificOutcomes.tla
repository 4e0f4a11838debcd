------------------------- MODULE MCProlificOutcomes -------------------------
\* Constant values for TLC.
EXTENDS ProlificOutcomes, TLC

CONSTANTS sub, tab, clerk, clerk2
=============================================================================
