-------------------------- MODULE MCLifecycleHistory --------------------------
\* MCLifecycle's instances with the history variable.
EXTENDS MCLifecycle, LifecycleHistory
=============================================================================
