------------------------------- MODULE MCLedger -------------------------------
(* What follows the ledger of the node: the local-state-query client of one *)
(* connection, and the health check with a connection of its own.  They     *)
(* share no state, and a behaviour is of one of them, while the other stays *)
(* as it begins.                                                            *)
EXTENDS MCStateQuery, HealthCheck

VARIABLE part

ledgerVars == <<part, vars, healthVars>>

InStateQuery  == part = "stateQuery" /\ UNCHANGED <<part, healthVars>>
InHealthCheck == part = "healthCheck" /\ UNCHANGED <<part, vars>>

LedgerInit ==
  /\ part \in {"stateQuery", "healthCheck"}
  /\ Init /\ HealthInit

LedgerNext ==
  \/ InStateQuery /\ Next
  \/ InHealthCheck /\ HealthNext

(* The fairness of FairSpec and of HealthFairSpec.                          *)
LedgerSpec ==
  /\ LedgerInit /\ [][LedgerNext]_ledgerVars
  /\ WF_ledgerVars(InStateQuery /\ Client)
  /\ WF_ledgerVars(InHealthCheck /\ Connect)
  /\ WF_ledgerVars(InHealthCheck /\ Follower)
  /\ SF_ledgerVars(InHealthCheck /\ OnIntersectFound)
  /\ WF_ledgerVars(InHealthCheck /\ Interpreter)
  /\ WF_ledgerVars(InHealthCheck /\ AdoptBlock)
  /\ WF_ledgerVars(InHealthCheck /\ ReleaseLock)
  /\ WF_ledgerVars(InHealthCheck /\ Tick)
=============================================================================
