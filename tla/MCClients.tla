------------------------------ MODULE MCClients ------------------------------
(* The clients of one WebSocket, and the helpers they use, which keep no    *)
(* state: a behaviour is of one of them, while the other stays as it begins.*)
EXTENDS Clients, MCUtil

(* Every operation of the package, once, and what makes them interact: two  *)
(* mini-protocols, the streams of the clients and their other users.        *)
MCWorkloads ==
  {<<op>> : op \in Operations}
    \cup {<<a, b, HasTransaction("mempool")>> :
            a \in {AcquireMempool("mempool"), HasTransaction("mempool")},
            b \in {HasTransaction("mempool"), Epoch}}
    \cup {<<a, b, SubmitTransaction("submit")>> :
            a \in {SubmitTransaction("submit"), EvaluateTransaction("evaluate")},
            b \in {SubmitTransaction("submit"), SubmitTransaction("none")}}
    \cup {<<Epoch, SubmitTransaction("none"), Shutdown>>,
          <<QueryUtxo, Shutdown, Epoch>>,
          <<HasTransaction("mempool"), Shutdown, HasTransaction("mempool")>>}

-----------------------------------------------------------------------------
VARIABLE part

packageVars == <<part, vars, utilVars>>

InClients == part = "clients" /\ UNCHANGED <<part, utilVars>>
InUtil    == part = "util" /\ UNCHANGED <<part, vars>>

(* Only one part has more than one beginning.                               *)
PackageInit ==
  /\ Init /\ UtilInit
  /\ \/ part = "clients" /\ helper = "utxoSize" /\ input = Plain
     \/ part = "util" /\ workload = <<Epoch>>

PackageNext ==
  \/ InClients /\ Next
  \/ InUtil /\ Compute

(* The fairness of FairSpec.                                                *)
PackageSpec ==
  /\ PackageInit /\ [][PackageNext]_packageVars
  /\ WF_packageVars(InClients /\ Route)
  /\ \A p \in Protocols : WF_packageVars(InClients /\ Answer(p))
  /\ WF_packageVars(InClients /\ OnMessage)
  /\ \A s \in Streams : WF_packageVars(InClients /\ Resume(s))
  /\ WF_packageVars(InClients /\ Event /\ readyState = "CLOSING")
=============================================================================
