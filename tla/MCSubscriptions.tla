--------------------------- MODULE MCSubscriptions ---------------------------
EXTENDS Subscriptions
==============================================================================
