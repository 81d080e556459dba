--------------------------- MODULE MCApiLifecycle ---------------------------
EXTENDS ApiLifecycle
=============================================================================
