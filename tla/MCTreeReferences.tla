-------------------------- MODULE MCTreeReferences --------------------------
EXTENDS TreeReferences
=============================================================================
