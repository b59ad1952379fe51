--------------------------- MODULE MCControllerRun ---------------------------
\* Instances of ControllerRun for TLC.
EXTENDS ControllerRun

CONSTANTS competitor, advertising

TwoAgents == {competitor, advertising}
=============================================================================
