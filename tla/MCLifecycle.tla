---------------------------- MODULE MCLifecycle -----------------------------
\* Model-checking instances of the life of the process.
EXTENDS Lifecycle
=============================================================================
