------------------------------- MODULE MCServer -------------------------------
(* Sessions, and the chain-sync client of one: they share no state here, a  *)
(* queue between the two is written by one and read by the other, and a     *)
(* behaviour is of one of them, while the other stays as it begins.         *)
EXTENDS ChainSync, MCSession

VARIABLE part

serverVars == <<part, vars, sessionVars>>

InChainSync == part = "chainSync" /\ UNCHANGED <<part, sessionVars>>
InSession   == part = "session" /\ UNCHANGED <<part, vars>>

ServerInit ==
  /\ part \in {"chainSync", "session"}
  /\ Init /\ SessionInit

ServerNext ==
  \/ InChainSync /\ Next
  \/ InSession /\ SessionNext

(* The fairness of FairSpec and of SessionFairSpec.                         *)
ServerSpec ==
  /\ ServerInit /\ [][ServerNext]_serverVars
  /\ WF_serverVars(InChainSync /\ Client)
  /\ WF_serverVars(InChainSync /\ Node)
  /\ \A s \in Sessions :
       /\ WF_serverVars(InSession /\ Thread(s))
       /\ WF_serverVars(InSession /\ Worker(s))
=============================================================================
