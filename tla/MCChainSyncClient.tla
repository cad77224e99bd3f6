-------------------------- MODULE MCChainSyncClient --------------------------
EXTENDS ChainSyncClient

(* The platform only shows in calls that wait at a close, and the queue in  *)
(* handlers: each of their values once.                                     *)
MCSettings == {<<"node", TRUE>>, <<"browser", FALSE>>}

(* The default window, and a window of one block.                           *)
MCInFlights == <<0, 1>>
=============================================================================
