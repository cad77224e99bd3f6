----------------------------- MODULE MempoolCache -----------------------------
(***************************************************************************)
(* The cache of the node's mempool that transaction evaluation relies on:  *)
(* `mempoolMonitoringClient', `readMempoolM' and `clearMempoolM' of        *)
(* newExecutionUnitsEvaluator                                              *)
(* (server/src/Ogmios/App/Protocol/TxSubmission.hs).                       *)
(*                                                                         *)
(* The monitoring client loops: acquire a snapshot of the mempool, empty   *)
(* the TMVar `mempool' so that readers wait, pull the transactions of the  *)
(* snapshot one by one, publish them, and wait for the mempool to change.  *)
(*                                                                         *)
(* A TMVar is a sequence of at most one value.  A snapshot is known by the *)
(* time at which the client started to drain it, here a count; the code    *)
(* pairs that time with the slot.                                          *)
(***************************************************************************)
EXTENDS LocalNode

VARIABLES
  monitor,          \* continuation of the monitoring client that runs next
  acquired,         \* the state of the node's mempool it holds at the node
  drained,          \* transactions pulled so far, newest first
  starts,           \* drains started: the monotonic clock
  mempool,          \* TMVar: the transactions readers get
  mempoolSnapshot,  \* TVar: which drain they come from, or Nothing
  mempoolSnapshotOnLastSubmit

monitorVars == <<monitor, acquired, drained, starts>>
cacheVars   == <<monitorVars, mempool, mempoolSnapshot,
                 mempoolSnapshotOnLastSubmit>>

Nothing == 0

(* `source' is the state of the node's mempool the transactions are from;   *)
(* the code does not know it.                                               *)
Cached == [source : Nat, era : Eras, ids : Seq(Nat)]

-----------------------------------------------------------------------------
(* An operator ...Faulty is a wrong version of the next one.                *)

ReversedFaulty(txs) == txs
Reversed(txs) == [i \in DOMAIN txs |-> txs[Len(txs) + 1 - i]]

(* What the monitoring client does with `mempool' when it gets a snapshot.  *)
TakenFaulty(tmvar) == tmvar
Taken(tmvar) == <<>>

(* How a snapshot is told from the others: not by its slot alone.           *)
StampFaulty == 1
Stamp == starts + 1

(* The mempool has changed since the snapshot that is held.                 *)
Changed == acquired # Now

(* readMempoolM does not retry: the snapshot published is not the one that  *)
(* was there at the last successful submission, and no drain is going on.   *)
Readable ==
  /\ mempool # <<>>
  /\ ~ /\ mempoolSnapshotOnLastSubmit # Nothing
       /\ mempoolSnapshot = mempoolSnapshotOnLastSubmit

(* clearMempoolM.                                                           *)
Cleared == mempoolSnapshot

CacheInit ==
  /\ NodeInit
  /\ monitor = "acquiring"
  /\ acquired = 0
  /\ drained = <<>>
  /\ starts = 0
  /\ mempool = <<[source |-> 0, era |-> Babbage, ids |-> <<>>]>>
  /\ mempoolSnapshot = Nothing
  /\ mempoolSnapshotOnLastSubmit = Nothing

-----------------------------------------------------------------------------
(* The node answers MsgAcquire at once and MsgAwaitAcquire when it has      *)
(* something new.                                                           *)
NodeAcquires ==
  /\ \/ monitor = "acquiring"
     \/ monitor = "awaiting" /\ Changed
  /\ acquired' = Now
  /\ monitor' = "acquired"
  /\ UNCHANGED <<mempools, drained, starts, mempool, mempoolSnapshot,
                 mempoolSnapshotOnLastSubmit>>

(* clientStAwaitAcquire.                                                    *)
StartDrain ==
  /\ monitor = "acquired"
  /\ mempool # <<>>
  /\ starts' = Stamp
  /\ mempool' = Taken(mempool)
  /\ drained' = <<>>
  /\ monitor' = "draining"
  /\ UNCHANGED <<mempools, acquired, mempoolSnapshot,
                 mempoolSnapshotOnLastSubmit>>

(* clientStDrain, Just tx.                                                  *)
DrainNext ==
  /\ monitor = "draining"
  /\ Len(drained) < Len(mempools[acquired].ids)
  /\ drained' = <<mempools[acquired].ids[Len(drained) + 1]>> \o drained
  /\ UNCHANGED <<mempools, monitor, acquired, starts, mempool,
                 mempoolSnapshot, mempoolSnapshotOnLastSubmit>>

(* clientStDrain, Nothing.                                                  *)
Publish ==
  /\ monitor = "draining"
  /\ Len(drained) = Len(mempools[acquired].ids)
  /\ mempool = <<>>
  /\ mempoolSnapshot' = starts
  /\ mempool' = <<[source |-> acquired, era |-> mempools[acquired].era,
                   ids |-> Reversed(drained)]>>
  /\ monitor' = "awaiting"
  /\ UNCHANGED <<mempools, acquired, drained, starts,
                 mempoolSnapshotOnLastSubmit>>

Monitor == NodeAcquires \/ StartDrain \/ DrainNext \/ Publish

-----------------------------------------------------------------------------
CacheTypeOK ==
  /\ monitor \in {"acquiring", "acquired", "draining", "awaiting"}
  /\ acquired \in 0 .. Now
  /\ drained \in Seq(Nat)
  /\ starts \in Nat
  /\ mempool \in Seq(Cached)
  /\ mempoolSnapshot \in Nat
  /\ mempoolSnapshotOnLastSubmit \in Nat

(* Readers get what the node's mempool was at one moment, in its order:     *)
(* never part of it, or a mix of two moments.                               *)
CacheIsASnapshot ==
  \A i \in DOMAIN mempool : mempool[i].source # 0 =>
    /\ mempool[i].ids = mempools[mempool[i].source].ids
    /\ mempool[i].era = mempools[mempool[i].source].era

(* The TMVar is empty exactly while a drain is going on, so that the        *)
(* monitoring client blocks neither in takeTMVar nor in putTMVar, and the   *)
(* snapshot it is known by is the last one drained.                         *)
MonitorNeverBlocks ==
  /\ Len(mempool) = IF monitor = "draining" THEN 0 ELSE 1
  /\ mempoolSnapshot = IF monitor = "draining" THEN starts - 1 ELSE starts
=============================================================================
