----------------------------- MODULE MCHealthCheck -----------------------------
EXTENDS HealthCheck
=============================================================================
