--------------------------- MODULE MCSubscriptions ---------------------------
\* Instance of Subscriptions for TLC: the .cfg file gives the constants values.
EXTENDS Subscriptions
=============================================================================
