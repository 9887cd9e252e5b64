------------------------------ MODULE MCTxPool ------------------------------
EXTENDS TxPool
=============================================================================
