------------------------------ MODULE HealthCheck ------------------------------
(***************************************************************************)
(* The health check of the server (server/src/Ogmios/App/Health.hs): one   *)
(* connection to the node, made again whenever it is lost, over which one  *)
(* thread follows the tip of the chain (mkHealthCheckClient) and another   *)
(* interprets tips (newTimeInterpreterClient): how far it is from now, its *)
(* epoch and its era.  The first, debounced, gives tips to the second and  *)
(* takes what it made of them through two TMVars, which outlive the        *)
(* connection, and writes the health that the HTTP server reads.           *)
(*                                                                         *)
(* Tips are numbered as the node adopts them, up to MaxTip from where they *)
(* are not told apart; what is made of a tip is abstracted to the tip.     *)
(***************************************************************************)
EXTENDS Debouncer, Sequences

CONSTANTS
  RetryDelay,  \* time between two attempts to connect
  MaxTip,      \* bound of the model: tips that are told apart
  MaxUpdates,  \* bound of the model: updates the node has ready
  MaxLost      \* bound of the model: connections that fail or are lost

ASSUME HealthCheckAssumption ==
  /\ RetryDelay \in Nat
  /\ MaxTip \in Nat \ {0}
  /\ MaxUpdates \in Nat \ {0}
  /\ MaxLost \in Nat

VARIABLES
  tip,          \* the node: its tip,
  updates,      \* and the changes of it that this connection was not told
  connection,   \* down, up or (the application has) ended
  retry,        \* time since the connection was lost
  lost,         \* connections lost so far
  follower,     \* continuation of the chain-sync client that runs next,
  noted,        \* the tip it seeks, or notifies
  result,       \* and what it took from getResult
  interpreter,  \* continuation of the local-state-query client that runs next,
  interpreted,  \* and the tip it interprets
  notifyTip,    \* the two TMVars: sequences of <= 1
  getResult,
  health        \* the fields of Health that are not constant or metrics

tipVars        == <<tip, updates>>
connectionVars  == <<connection, retry, lost>>
followerVars    == <<follower, noted, result>>
interpreterVars == <<interpreter, interpreted>>
healthVars ==
  <<debouncerVars, tipVars, connectionVars, followerVars,
    interpreterVars, notifyTip, getResult, health>>

None == 0
Tips == 1 .. MaxTip

Advanced(t) == IF t < MaxTip THEN t + 1 ELSE t

(* `synchronization' stands for networkSynchronization and currentEra,      *)
(* which are written and cleared together.                                  *)
Health == [status : {"Connected", "Disconnected"}, lastKnownTip : Tips \cup {None},
           synchronization : Tips \cup {None}]

-----------------------------------------------------------------------------
(* An operator ...Faulty is a wrong version of the next one.                *)

(* modifyHealth, of newHealthCheckClient and of recordException.            *)
TickedFaulty ==
  [status |-> "Connected", lastKnownTip |-> tip, synchronization |-> result]
Ticked ==
  [status |-> "Connected", lastKnownTip |-> noted, synchronization |-> result]

RecordedFaulty == [health EXCEPT !.status = "Disconnected"]
Recorded ==
  [health EXCEPT !.status = "Disconnected", !.synchronization = None]

(* putTMVar, which blocks while there is something, and takeTMVar.          *)
MayPut(tmvar) == tmvar = <<>>
MayTake(tmvar) == tmvar # <<>>

TakenFaulty(tmvar) == tmvar
Taken(tmvar) == Tail(tmvar)

HealthInit ==
  /\ DebouncerInit
  /\ tip = 1
  /\ updates = 0
  /\ connection = "down"
  /\ retry = RetryDelay
  /\ lost = 0
  /\ follower = "down" /\ noted = None /\ result = None
  /\ interpreter = "down" /\ interpreted = None
  /\ notifyTip = <<>>
  /\ getResult = <<>>
  /\ health = [status |-> "Disconnected", lastKnownTip |-> None,
               synchronization |-> None]

-----------------------------------------------------------------------------
(* connectHealthCheckClient: both clients start over.                       *)
Connect ==
  /\ connection = "down"
  /\ retry = RetryDelay
  /\ connection' = "up"
  /\ follower' = "init"
  /\ interpreter' = "acquiring"
  /\ updates' = 0
  /\ UNCHANGED <<debouncerVars, tip, retry, lost, noted, result, interpreted,
                 notifyTip, getResult, health>>

(* Connecting fails, or the connection is lost: recordException, and then a *)
(* pause before another attempt or, with an exception that is not           *)
(* retryable, the end of the application.                                   *)
LoseConnection ==
  /\ connection = "up" \/ (connection = "down" /\ retry = RetryDelay)
  /\ lost < MaxLost
  /\ lost' = lost + 1
  /\ connection' \in {"down", "ended"}
  /\ retry' = 0
  /\ follower' = "down"
  /\ interpreter' = "down"
  /\ updates' = 0
  /\ health' = Recorded
  /\ UNCHANGED <<debouncerVars, tip, noted, result, interpreted, notifyTip, getResult>>

-----------------------------------------------------------------------------
(* mkHealthCheckClient: stInit asks for the tip, then to start from there.  *)
OnGenesisFound ==
  /\ follower = "init"
  /\ follower' = "intersect"
  /\ noted' = tip
  /\ UNCHANGED <<debouncerVars, tipVars, connectionVars, result, interpreterVars,
                 notifyTip, getResult, health>>

(* The first update is the point itself.                                    *)
OnIntersectFound ==
  /\ follower = "intersect"
  /\ follower' = "next"
  /\ updates' = IF noted = tip THEN 1 ELSE MaxUpdates
  /\ UNCHANGED <<debouncerVars, tip, connectionVars, noted, result, interpreterVars,
                 notifyTip, getResult, health>>

OnIntersectNotFound ==
  /\ follower = "intersect"
  /\ noted # tip
  /\ follower' = "init"
  /\ UNCHANGED <<debouncerVars, tipVars, connectionVars, noted, result,
                 interpreterVars, notifyTip, getResult, health>>

(* stNext: any update, with the tip of the node, is notified,               *)
OnUpdate ==
  /\ follower = "next"
  /\ updates > 0
  /\ updates' = updates - 1
  /\ Run
  /\ noted' = tip
  /\ follower' = "notify"
  /\ UNCHANGED <<tip, connectionVars, result, interpreterVars, notifyTip,
                 getResult, health>>

(* unless the debouncer says otherwise.                                     *)
OnUpdateDebounced ==
  /\ follower = "next"
  /\ updates > 0
  /\ ~MayRun
  /\ updates' = updates - 1
  /\ UNCHANGED <<debouncerVars, tip, connectionVars, followerVars, interpreterVars,
                 notifyTip, getResult, health>>

(* getNetworkInformation: two transactions.                                 *)
NotifyTip ==
  /\ follower = "notify"
  /\ MayPut(notifyTip)
  /\ notifyTip' = Append(notifyTip, noted)
  /\ follower' = "await"
  /\ UNCHANGED <<debouncerVars, tipVars, connectionVars, noted, result,
                 interpreterVars, getResult, health>>

TakeResult ==
  /\ follower = "await"
  /\ MayTake(getResult)
  /\ result' = Head(getResult)
  /\ getResult' = Taken(getResult)
  /\ follower' = "modify"
  /\ UNCHANGED <<debouncerVars, tipVars, connectionVars, noted, interpreterVars,
                 notifyTip, health>>

ModifyHealth ==
  /\ follower = "modify"
  /\ health' = Ticked
  /\ follower' = "next"
  /\ UNCHANGED <<debouncerVars, tipVars, connectionVars, noted, result,
                 interpreterVars, notifyTip, getResult>>

-----------------------------------------------------------------------------
(* newTimeInterpreterClient.  The node never fails to acquire its own tip.  *)
AcquireTip ==
  /\ interpreter = "acquiring"
  /\ interpreter' = "getTip"
  /\ UNCHANGED <<debouncerVars, tipVars, connectionVars, followerVars, interpreted,
                 notifyTip, getResult, health>>

GetTip ==
  /\ interpreter = "getTip"
  /\ MayTake(notifyTip)
  /\ interpreted' = Head(notifyTip)
  /\ notifyTip' = Taken(notifyTip)
  /\ interpreter' = "interpret"
  /\ UNCHANGED <<debouncerVars, tipVars, connectionVars, followerVars, getResult,
                 health>>

(* The tip acquired again, and the two queries of it.                       *)
Interpret ==
  /\ interpreter = "interpret"
  /\ interpreter' = "notifyResult"
  /\ UNCHANGED <<debouncerVars, tipVars, connectionVars, followerVars, interpreted,
                 notifyTip, getResult, health>>

NotifyResult ==
  /\ interpreter = "notifyResult"
  /\ MayPut(getResult)
  /\ getResult' = Append(getResult, interpreted)
  /\ interpreter' = "getTip"
  /\ UNCHANGED <<debouncerVars, tipVars, connectionVars, followerVars, interpreted,
                 notifyTip, health>>

-----------------------------------------------------------------------------
(* The node (external) extends its chain or switches to another.            *)
AdoptBlock ==
  /\ updates < MaxUpdates
  /\ tip' = Advanced(tip)
  /\ updates' = IF follower \in {"down", "init", "intersect"} THEN 0 ELSE updates + 1
  /\ UNCHANGED <<debouncerVars, connectionVars, followerVars, interpreterVars,
                 notifyTip, getResult, health>>

(* The background thread of the debouncer.                                  *)
ReleaseLock ==
  /\ Release
  /\ UNCHANGED <<tipVars, connectionVars, followerVars, interpreterVars,
                 notifyTip, getResult, health>>

(* Time passes.                                                             *)
Tick ==
  /\ Elapse
  /\ retry' = IF retry < RetryDelay THEN retry + 1 ELSE retry
  /\ UNCHANGED <<tipVars, connection, lost, followerVars, interpreterVars,
                 notifyTip, getResult, health>>

Follower ==
  \/ OnGenesisFound
  \/ OnIntersectFound
  \/ OnIntersectNotFound
  \/ OnUpdate
  \/ OnUpdateDebounced
  \/ NotifyTip
  \/ TakeResult
  \/ ModifyHealth

Interpreter == AcquireTip \/ GetTip \/ Interpret \/ NotifyResult

HealthNext ==
  \/ Connect
  \/ LoseConnection
  \/ Follower
  \/ Interpreter
  \/ AdoptBlock
  \/ ReleaseLock
  \/ Tick

(* Threads are not starved, the node answers, time passes, blocks keep      *)
(* coming, and the tip is not always switched while it is sought.           *)
HealthSpec     == HealthInit /\ [][HealthNext]_healthVars
HealthFairSpec ==
  /\ HealthSpec
  /\ WF_healthVars(Connect)
  /\ WF_healthVars(Follower)
  /\ SF_healthVars(OnIntersectFound)
  /\ WF_healthVars(Interpreter)
  /\ WF_healthVars(AdoptBlock)
  /\ WF_healthVars(ReleaseLock)
  /\ WF_healthVars(Tick)
-----------------------------------------------------------------------------
(* Type invariant.                                                          *)
HealthTypeOK ==
  /\ lock \in {"there", "empty"}
  /\ {slept, sinceLast, sincePrior} \subseteq 0 .. Delay
  /\ tip \in Tips
  /\ updates \in 0 .. MaxUpdates
  /\ connection \in {"down", "up", "ended"}
  /\ retry \in 0 .. RetryDelay
  /\ lost \in 0 .. MaxLost
  /\ follower \in {"down", "init", "intersect", "next", "notify", "await", "modify"}
  /\ interpreter \in {"down", "acquiring", "getTip", "interpret", "notifyResult"}
  /\ {noted, result, interpreted} \subseteq Tips \cup {None}
  /\ {notifyTip, getResult} \subseteq {<<>>} \cup {<<t>> : t \in Tips}
  /\ health \in Health

(* A health never says Connected without saying how far the node is, nor    *)
(* the other way around, nor when there is no connection to the node.       *)
StatusAgrees ==
  /\ health.status = "Connected" <=> health.synchronization # None
  /\ health.status = "Connected" => connection = "up"

(* "Captures how far is our underlying node from the network [...].  This   *)
(* is calculated using: [...] The current node tip"                         *)
(* (server/src/Ogmios/Data/Health.hs:160-166): a health tells it of the     *)
(* tip it shows.                                                            *)
OneTip == health.synchronization \in {None, health.lastKnownTip}

(* It does, as long as no connection was lost: a lost connection can leave  *)
(* a tip, or the result of one, in a TMVar, and from then on every health   *)
(* tells it of a tip notified earlier.                                      *)
OneTipUntilLost == lost = 0 => OneTip

(* The two threads never wait for each other, whatever a lost connection    *)
(* left in the TMVars.                                                      *)
FollowerWaits ==
  \/ follower = "notify" /\ ~MayPut(notifyTip)
  \/ follower = "await" /\ ~MayTake(getResult)

InterpreterWaits ==
  \/ interpreter = "getTip" /\ ~MayTake(notifyTip)
  \/ interpreter = "notifyResult" /\ ~MayPut(getResult)

SomebodyMoves == ~(FollowerWaits /\ InterpreterWaits)

(* After each connection the server gets to say Connected, as long as it    *)
(* is, and whatever a lost connection left in the TMVars.                   *)
ConnectedIsSaid ==
  connection = "up" ~> health.status = "Connected" \/ connection # "up"
=============================================================================
