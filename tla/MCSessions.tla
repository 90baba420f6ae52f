----------------------------- MODULE MCSessions -----------------------------
\* Instance of Sessions for TLC: the .cfg files give the constants values.
EXTENDS Sessions
=============================================================================
