----------------------------- MODULE MCTxMonitor -----------------------------
EXTENDS TxMonitor

=============================================================================
