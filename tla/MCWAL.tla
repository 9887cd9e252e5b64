------------------------------- MODULE MCWAL --------------------------------
\* Model checking of the write-ahead log with arbitrary callers.
EXTENDS WALClients
=============================================================================
