-------------------------------- MODULE MCDB --------------------------------
\* Model checking of the durability of a database.
EXTENDS DB
=============================================================================
