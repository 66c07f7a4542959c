----------------------------- MODULE MCCtplPool -----------------------------
EXTENDS CtplPool
=============================================================================
