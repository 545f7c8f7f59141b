--------------------------- MODULE MCGraphRecovery --------------------------
EXTENDS GraphRecovery, MCGraphSync
=============================================================================
