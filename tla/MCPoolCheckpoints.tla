------------------------- MODULE MCPoolCheckpoints -------------------------
EXTENDS PoolCheckpoints
=============================================================================
