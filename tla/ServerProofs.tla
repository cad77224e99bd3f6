----------------------------- MODULE ServerProofs -----------------------------
(***************************************************************************)
(* Theorems about the two parts of the server that run beside the clients  *)
(* of the mini-protocols: the health check, for every delay and every      *)
(* bound, and the sessions, for any number of them and of messages.        *)
(***************************************************************************)
EXTENDS HealthCheck, Session, FiniteSetTheorems, TLAPS

USE DebouncerAssumption, HealthCheckAssumption

-----------------------------------------------------------------------------
(* The debouncer, whoever calls it: what the ages of the last two runs and  *)
(* of the lock have to do with each other.                                  *)
DebouncerInv ==
  /\ lock \in {"there", "empty"}
  /\ slept \in 0 .. Delay
  /\ sinceLast \in 0 .. Delay
  /\ sincePrior \in 0 .. Delay
  /\ lock = "there" => slept <= sinceLast /\ sincePrior = Delay
  /\ lock = "empty" => slept <= sincePrior

LEMMA DebouncerInitially == DebouncerInit => DebouncerInv
BY DEF DebouncerInit, DebouncerInv

LEMMA DebouncerStep ==
  DebouncerInv /\ [DebouncerNext]_debouncerVars => DebouncerInv'
<1> SUFFICES ASSUME DebouncerInv, [DebouncerNext]_debouncerVars PROVE DebouncerInv'
  OBVIOUS
<1>1. CASE Run
  <2>1. lock = "there" /\ lock' = "empty" /\ slept' = slept /\ sinceLast' = 0 /\ sincePrior' = sinceLast
    BY <1>1 DEF Run, MayRun
  <2>2. slept <= sinceLast
    BY <2>1 DEF DebouncerInv
  <2> QED
    BY <2>1, <2>2 DEF DebouncerInv
<1>2. CASE Release
  BY <1>2 DEF Release, MayRelease, DebouncerInv
<1>3. CASE Elapse
  BY <1>3 DEF Elapse, Later, DebouncerInv
<1>4. CASE UNCHANGED debouncerVars
  BY <1>4 DEF debouncerVars, DebouncerInv
<1> QED
  BY <1>1, <1>2, <1>3, <1>4 DEF DebouncerNext

LEMMA DebouncerSafe == DebouncerInv => (Run => sincePrior = Delay)
BY DEF DebouncerInv, Run, MayRun

(* In any `Delay' units of time the debounced action starts at most twice,  *)
(* whatever the timing of the calls.                                        *)
THEOREM DebouncerCorrect == DebouncerSpec => TwicePerDelay
<1>1. DebouncerInv /\ [DebouncerNext]_debouncerVars
        => [Run => sincePrior = Delay]_debouncerVars
  BY DebouncerSafe
<1> QED
  BY DebouncerInitially, DebouncerStep, <1>1, PTL DEF DebouncerSpec, TwicePerDelay

-----------------------------------------------------------------------------
(* Nothing in the health check touches the debouncer but by its steps.      *)
LEMMA DebouncerUsed == [HealthNext]_healthVars => [DebouncerNext]_debouncerVars
<1> SUFFICES ASSUME [HealthNext]_healthVars PROVE [DebouncerNext]_debouncerVars
  OBVIOUS
<1>1. CASE UNCHANGED healthVars
  BY <1>1 DEF healthVars
<1>2. CASE OnUpdate
  BY <1>2 DEF OnUpdate, DebouncerNext
<1>3. CASE ReleaseLock
  BY <1>3 DEF ReleaseLock, DebouncerNext
<1>4. CASE Tick
  BY <1>4 DEF Tick, DebouncerNext
<1>5. CASE Connect \/ LoseConnection \/ AdoptBlock
  BY <1>5 DEF Connect, LoseConnection, AdoptBlock
<1>6. CASE Interpreter
  BY <1>6 DEF Interpreter, AcquireTip, GetTip, Interpret, NotifyResult
<1>7. CASE Follower /\ ~OnUpdate
  BY <1>7 DEF Follower, OnGenesisFound, OnIntersectFound, OnIntersectNotFound,
              OnUpdateDebounced, NotifyTip, TakeResult, ModifyHealth
<1> QED
  BY <1>1, <1>2, <1>3, <1>4, <1>5, <1>6, <1>7 DEF HealthNext

(* The health check uses the debouncer as it is meant to be.                *)
THEOREM ImplementsDebouncer == HealthSpec => DebouncerSpec
<1>1. HealthInit => DebouncerInit
  BY DEF HealthInit
<1> QED
  BY <1>1, DebouncerUsed, PTL DEF HealthSpec, DebouncerSpec

(* Hence the health is updated at most twice in any `Delay' units of time.  *)
THEOREM UpdatesDebounced == HealthSpec => TwicePerDelay
BY ImplementsDebouncer, DebouncerCorrect

-----------------------------------------------------------------------------
(* The types of what is not the debouncer's, one variable at a time.        *)
TmvarOf(S) == {<<>>} \cup {<<t>> : t \in S}

TypesInv ==
  /\ tip \in Tips
  /\ updates \in 0 .. MaxUpdates
  /\ connection \in {"down", "up", "ended"}
  /\ retry \in 0 .. RetryDelay
  /\ lost \in 0 .. MaxLost
  /\ follower \in {"down", "init", "intersect", "next", "notify", "await", "modify"}
  /\ interpreter \in {"down", "acquiring", "getTip", "interpret", "notifyResult"}
  /\ noted \in Tips \cup {None}
  /\ result \in Tips \cup {None}
  /\ interpreted \in Tips \cup {None}
  /\ notifyTip \in TmvarOf(Tips)
  /\ getResult \in TmvarOf(Tips)
  /\ health \in Health

(* There is a tip wherever one is used.                                     *)
KnownInv ==
  /\ follower \in {"intersect", "notify", "await", "modify"} => noted \in Tips
  /\ follower = "modify" => result \in Tips
  /\ interpreter \in {"interpret", "notifyResult"} => interpreted \in Tips

Typed == TypesInv /\ KnownInv

LEMMA TypesSuffice == DebouncerInv /\ TypesInv => HealthTypeOK
BY DEF DebouncerInv, TypesInv, HealthTypeOK, TmvarOf

(* What is put into a TMVar and taken from it.                              *)
LEMMA Tmvars ==
  ASSUME NEW S, NEW s \in TmvarOf(S)
  PROVE  /\ s # <<>> => Head(s) \in S /\ Tail(s) = <<>>
         /\ s = <<>> => \A t : Append(s, t) = <<t>> /\ Head(Append(s, t)) = t
<1>1. ASSUME NEW t \in S, s = <<t>>
      PROVE  s # <<>> /\ Head(s) = t /\ Tail(s) = <<>>
  BY <1>1
<1>2. ASSUME NEW t, s = <<>> PROVE Append(s, t) = <<t>> /\ Head(Append(s, t)) = t
  BY <1>2
<1> QED
  BY <1>1, <1>2 DEF TmvarOf

LEMMA TypedInitially == HealthInit => Typed
BY DEF HealthInit, Typed, TypesInv, KnownInv, TmvarOf, Tips, None, Health

LEMMA TypedStep == Typed /\ [HealthNext]_healthVars => Typed'
<1> SUFFICES ASSUME Typed, [HealthNext]_healthVars PROVE Typed'
  OBVIOUS
<1> USE DEF Typed, TypesInv, KnownInv, tipVars, connectionVars, followerVars,
            interpreterVars
<1>1. CASE Connect
  BY <1>1 DEF Connect
<1>2. CASE LoseConnection
  <2>1. health' \in Health
    BY <1>2 DEF LoseConnection, Recorded, Health
  <2> QED
    BY <1>2, <2>1 DEF LoseConnection
<1>3. CASE OnGenesisFound
  BY <1>3 DEF OnGenesisFound
<1>4. CASE OnIntersectFound
  BY <1>4 DEF OnIntersectFound
<1>5. CASE OnIntersectNotFound
  BY <1>5 DEF OnIntersectNotFound
<1>6. CASE OnUpdate
  BY <1>6 DEF OnUpdate
<1>7. CASE OnUpdateDebounced
  BY <1>7 DEF OnUpdateDebounced
<1>8. CASE NotifyTip
  <2>1. notifyTip' \in TmvarOf(Tips)
    BY <1>8, Tmvars DEF NotifyTip, MayPut, TmvarOf
  <2> QED
    BY <1>8, <2>1 DEF NotifyTip
<1>9. CASE TakeResult
  <2>1. result' \in Tips /\ getResult' \in TmvarOf(Tips)
    BY <1>9, Tmvars DEF TakeResult, MayTake, Taken, TmvarOf
  <2> QED
    BY <1>9, <2>1 DEF TakeResult
<1>10. CASE ModifyHealth
  <2>1. health' \in Health
    BY <1>10 DEF ModifyHealth, Ticked, Health
  <2> QED
    BY <1>10, <2>1 DEF ModifyHealth
<1>11. CASE AcquireTip
  BY <1>11 DEF AcquireTip
<1>12. CASE GetTip
  <2>1. interpreted' \in Tips /\ notifyTip' \in TmvarOf(Tips)
    BY <1>12, Tmvars DEF GetTip, MayTake, Taken, TmvarOf
  <2> QED
    BY <1>12, <2>1 DEF GetTip
<1>13. CASE Interpret
  BY <1>13 DEF Interpret
<1>14. CASE NotifyResult
  <2>1. getResult' \in TmvarOf(Tips)
    BY <1>14, Tmvars DEF NotifyResult, MayPut, TmvarOf
  <2> QED
    BY <1>14, <2>1 DEF NotifyResult
<1>15. CASE AdoptBlock
  <2>1. tip' \in Tips
    BY <1>15 DEF AdoptBlock, Advanced, Tips
  <2> QED
    BY <1>15, <2>1 DEF AdoptBlock
<1>16. CASE ReleaseLock
  BY <1>16 DEF ReleaseLock
<1>17. CASE Tick
  BY <1>17 DEF Tick
<1>18. CASE UNCHANGED healthVars
  BY <1>18 DEF healthVars
<1> QED
  BY <1>1, <1>2, <1>3, <1>4, <1>5, <1>6, <1>7, <1>8, <1>9, <1>10, <1>11, <1>12,
     <1>13, <1>14, <1>15, <1>16, <1>17, <1>18 DEF HealthNext, Follower, Interpreter

(* The state of the health check is well-typed.                             *)
THEOREM HealthTypeCorrect == HealthSpec => []HealthTypeOK
<1>1. HealthInit => DebouncerInv /\ Typed
  BY TypedInitially, DebouncerInitially DEF HealthInit
<1>2. DebouncerInv /\ Typed /\ [HealthNext]_healthVars => (DebouncerInv /\ Typed)'
  BY TypedStep, DebouncerStep, DebouncerUsed
<1>3. DebouncerInv /\ Typed => HealthTypeOK
  BY TypesSuffice DEF Typed
<1> QED
  BY <1>1, <1>2, <1>3, PTL DEF HealthSpec

-----------------------------------------------------------------------------
(* What is said of the connection.                                          *)
StatusInv ==
  /\ StatusAgrees
  /\ follower # "down" => connection = "up"

LEMMA StatusStep == Typed /\ StatusInv /\ [HealthNext]_healthVars => StatusInv'
<1> SUFFICES ASSUME Typed, StatusInv, [HealthNext]_healthVars PROVE StatusInv'
  OBVIOUS
<1> USE DEF StatusInv, StatusAgrees, connectionVars, followerVars
<1>1. CASE Connect
  BY <1>1 DEF Connect
<1>2. CASE LoseConnection
  BY <1>2 DEF LoseConnection, Recorded, Typed, TypesInv, Health
<1>3. CASE ModifyHealth
  <2>1. result # None
    BY <1>3 DEF ModifyHealth, Typed, KnownInv, Tips, None
  <2> QED
    BY <1>3, <2>1 DEF ModifyHealth, Ticked
<1>4. CASE Follower /\ ~ModifyHealth
  BY <1>4 DEF Follower, OnGenesisFound, OnIntersectFound, OnIntersectNotFound,
              OnUpdate, OnUpdateDebounced, NotifyTip, TakeResult
<1>5. CASE Interpreter
  BY <1>5 DEF Interpreter, AcquireTip, GetTip, Interpret, NotifyResult
<1>6. CASE AdoptBlock \/ ReleaseLock \/ Tick
  BY <1>6 DEF AdoptBlock, ReleaseLock, Tick
<1>7. CASE UNCHANGED healthVars
  BY <1>7 DEF healthVars
<1> QED
  BY <1>1, <1>2, <1>3, <1>4, <1>5, <1>6, <1>7 DEF HealthNext

(* The health never shows a connection there is not, nor one without the    *)
(* state of the network or the other way around.                            *)
THEOREM StatusCorrect == HealthSpec => []StatusAgrees
<1>1. HealthInit => Typed /\ StatusInv
  BY TypedInitially DEF HealthInit, StatusInv, StatusAgrees, None
<1>2. Typed /\ StatusInv /\ [HealthNext]_healthVars => (Typed /\ StatusInv)'
  BY TypedStep, StatusStep
<1>3. StatusInv => StatusAgrees
  BY DEF StatusInv
<1> QED
  BY <1>1, <1>2, <1>3, PTL DEF HealthSpec

-----------------------------------------------------------------------------
(* The rendezvous of the two threads.                                       *)
Interpreting == interpreter \in {"interpret", "notifyResult"}

(* Who awaits a result has a tip somewhere that leads to one, and only who  *)
(* awaits one sees all three places taken.                                  *)
ThreadsInv ==
  /\ follower = "await" => notifyTip # <<>> \/ getResult # <<>> \/ Interpreting
  /\ notifyTip # <<>> /\ getResult # <<>> /\ Interpreting => follower = "await"

LEMMA ThreadsSuffice == ThreadsInv => SomebodyMoves
BY DEF ThreadsInv, SomebodyMoves, FollowerWaits, InterpreterWaits, MayPut, MayTake,
       Interpreting

LEMMA ThreadsStep == Typed /\ ThreadsInv /\ [HealthNext]_healthVars => ThreadsInv'
<1> SUFFICES ASSUME Typed, ThreadsInv, [HealthNext]_healthVars PROVE ThreadsInv'
  OBVIOUS
<1> USE DEF ThreadsInv, Interpreting, followerVars, interpreterVars
<1>1. CASE NotifyTip
  <2>1. notifyTip' # <<>>
    BY <1>1 DEF NotifyTip, MayPut
  <2> QED
    BY <1>1, <2>1 DEF NotifyTip
<1>2. CASE TakeResult
  <2>1. getResult' = <<>>
    BY <1>2, Tmvars DEF TakeResult, MayTake, Taken, Typed, TypesInv
  <2> QED
    BY <1>2, <2>1 DEF TakeResult
<1>3. CASE GetTip
  <2>1. notifyTip' = <<>>
    BY <1>3, Tmvars DEF GetTip, MayTake, Taken, Typed, TypesInv
  <2> QED
    BY <1>3, <2>1 DEF GetTip
<1>4. CASE NotifyResult
  <2>1. getResult' # <<>>
    BY <1>4 DEF NotifyResult, MayPut
  <2> QED
    BY <1>4, <2>1 DEF NotifyResult
<1>5. CASE Follower /\ ~NotifyTip /\ ~TakeResult
  BY <1>5 DEF Follower, OnGenesisFound, OnIntersectFound, OnIntersectNotFound,
              OnUpdate, OnUpdateDebounced, ModifyHealth
<1>6. CASE AcquireTip \/ Interpret
  BY <1>6 DEF AcquireTip, Interpret
<1>7. CASE Connect \/ LoseConnection
  BY <1>7 DEF Connect, LoseConnection
<1>8. CASE AdoptBlock \/ ReleaseLock \/ Tick
  BY <1>8 DEF AdoptBlock, ReleaseLock, Tick
<1>9. CASE UNCHANGED healthVars
  BY <1>9 DEF healthVars
<1> QED
  BY <1>1, <1>2, <1>3, <1>4, <1>5, <1>6, <1>7, <1>8, <1>9
     DEF HealthNext, Follower, Interpreter

(* The follower and the interpreter of tips never wait for each other,      *)
(* however often the connection is lost and whatever it leaves behind.      *)
THEOREM NoDeadlock == HealthSpec => []SomebodyMoves
<1>1. HealthInit => Typed /\ ThreadsInv
  BY TypedInitially DEF HealthInit, ThreadsInv, Interpreting
<1>2. Typed /\ ThreadsInv /\ [HealthNext]_healthVars => (Typed /\ ThreadsInv)'
  BY TypedStep, ThreadsStep
<1> QED
  BY <1>1, <1>2, ThreadsSuffice, PTL DEF HealthSpec

-----------------------------------------------------------------------------
(* One tip at a time: until a connection is lost, the one that is noted is  *)
(* in exactly one place on its way to the result, and none is otherwise.    *)
Quiet == notifyTip = <<>> /\ getResult = <<>> /\ ~Interpreting

OneAtATime ==
  \/ /\ follower # "await"
     /\ Quiet
     /\ follower = "modify" => result = noted
  \/ /\ follower = "await"
     /\ \/ notifyTip = <<noted>> /\ getResult = <<>> /\ ~Interpreting
        \/ notifyTip = <<>> /\ getResult = <<noted>> /\ ~Interpreting
        \/ notifyTip = <<>> /\ getResult = <<>> /\ Interpreting /\ interpreted = noted

OneTipInv == lost = 0 => OneTip /\ OneAtATime

LEMMA OneTipStep ==
  Typed /\ StatusInv /\ OneTipInv /\ [HealthNext]_healthVars => OneTipInv'
<1> SUFFICES ASSUME Typed, StatusInv, OneTipInv, [HealthNext]_healthVars, lost' = 0
             PROVE  OneTip' /\ OneAtATime'
  BY DEF OneTipInv
<1>0. lost = 0 /\ OneTip /\ OneAtATime /\ ~LoseConnection
  <2>1. lost \in Nat
    BY DEF Typed, TypesInv
  <2>2. ~LoseConnection
    BY <2>1 DEF LoseConnection
  <2>3. lost' = lost
    BY <2>2 DEF HealthNext, healthVars, connectionVars, Connect, Follower, OnGenesisFound,
                OnIntersectFound, OnIntersectNotFound, OnUpdate, OnUpdateDebounced,
                NotifyTip, TakeResult, ModifyHealth, Interpreter, AcquireTip, GetTip,
                Interpret, NotifyResult, AdoptBlock, ReleaseLock, Tick
  <2> QED
    BY <2>2, <2>3 DEF OneTipInv
<1> USE <1>0 DEF OneTip, OneAtATime, Quiet, Interpreting, followerVars, interpreterVars
<1>1. CASE NotifyTip
  <2>1. follower' = "await" /\ noted' = noted /\ getResult' = <<>> /\ ~Interpreting'
    BY <1>1 DEF NotifyTip
  <2>2. notifyTip' = <<noted>>
    BY <1>1 DEF NotifyTip, MayPut
  <2> QED
    BY <1>1, <2>1, <2>2 DEF NotifyTip
<1>2. CASE TakeResult
  <2>1. getResult = <<noted>> /\ notifyTip = <<>> /\ ~Interpreting
    BY <1>2 DEF TakeResult, MayTake
  <2>2. result' = noted /\ getResult' = <<>>
    BY <1>2, <2>1 DEF TakeResult, Taken
  <2> QED
    BY <1>2, <2>1, <2>2 DEF TakeResult
<1>3. CASE ModifyHealth
  BY <1>3 DEF ModifyHealth, Ticked
<1>4. CASE GetTip
  <2>1. notifyTip = <<noted>> /\ getResult = <<>> /\ follower = "await"
    BY <1>4 DEF GetTip, MayTake
  <2>2. interpreted' = noted /\ notifyTip' = <<>>
    BY <1>4, <2>1 DEF GetTip, Taken
  <2> QED
    BY <1>4, <2>1, <2>2 DEF GetTip
<1>5. CASE NotifyResult
  <2>1. notifyTip = <<>> /\ interpreted = noted /\ follower = "await"
    BY <1>5 DEF NotifyResult
  <2>2. getResult' = <<noted>>
    BY <1>5, <2>1 DEF NotifyResult, MayPut
  <2> QED
    BY <1>5, <2>1, <2>2 DEF NotifyResult
<1>6. CASE OnGenesisFound \/ OnIntersectFound \/ OnIntersectNotFound \/ OnUpdate
             \/ OnUpdateDebounced
  BY <1>6 DEF OnGenesisFound, OnIntersectFound, OnIntersectNotFound, OnUpdate,
              OnUpdateDebounced
<1>7. CASE AcquireTip \/ Interpret
  BY <1>7 DEF AcquireTip, Interpret
<1>8. CASE Connect
  <2>1. follower' = "init" /\ interpreter' = "acquiring"
    BY <1>8 DEF Connect
  <2>2. Quiet
    BY <1>8 DEF Connect, StatusInv
  <2> QED
    BY <1>8, <2>1, <2>2 DEF Connect
<1>9. CASE AdoptBlock \/ ReleaseLock \/ Tick
  BY <1>9 DEF AdoptBlock, ReleaseLock, Tick
<1>10. CASE UNCHANGED healthVars
  BY <1>10 DEF healthVars
<1> QED
  BY <1>1, <1>2, <1>3, <1>4, <1>5, <1>6, <1>7, <1>8, <1>9, <1>10
     DEF HealthNext, Follower, Interpreter

(* As long as no connection was lost, a health tells how far the network    *)
(* is, and the rest, of the very tip it shows.                              *)
THEOREM OneTipCorrect == HealthSpec => []OneTipUntilLost
<1>1. HealthInit => Typed /\ StatusInv /\ OneTipInv
  BY TypedInitially DEF HealthInit, StatusInv, StatusAgrees, OneTipInv, OneTip, OneAtATime,
     Quiet, Interpreting, None
<1>2. Typed /\ StatusInv /\ OneTipInv /\ [HealthNext]_healthVars
        => (Typed /\ StatusInv /\ OneTipInv)'
  BY TypedStep, StatusStep, OneTipStep
<1>3. OneTipInv => OneTipUntilLost
  BY DEF OneTipInv, OneTipUntilLost
<1> QED
  BY <1>1, <1>2, <1>3, PTL DEF HealthSpec

-----------------------------------------------------------------------------
(* The sessions.                                                            *)
USE SessionAssumption

-----------------------------------------------------------------------------
(* The gauge of live connections.                                           *)
Phases  == Registered \cup {"pending", "done", "escaped"}
Nodes   == {"none", "up", "failed", "closed"}
Thrown  == {"nothing", "gone", "broken"}
Clients == {"there", "gone", "broken"}

SessionTypes ==
  /\ phase \in [Sessions -> Phases]
  /\ node \in [Sessions -> Nodes]
  /\ thrown \in [Sessions -> Thrown]
  /\ client \in [Sessions -> Clients]
  /\ activeConnections \in Nat

(* What has to be known of a session when its worker's exception arrives:   *)
(* an exception can only wait outside the handlers if the connection with   *)
(* the node failed first, and one that is thrown again tells of a broken    *)
(* connection.                                                              *)
Reasons(s) ==
  /\ phase[s] \in {"pending", "accepting"} => thrown[s] = "nothing" /\ node[s] = "none"
  /\ phase[s] = "unwinding" => node[s] = "failed"
  /\ phase[s] \in {"leaving", "recorded"} =>
       thrown[s] = "nothing" \/ node[s] = "failed"
  /\ thrown[s] = "broken" => client[s] = "broken"
  /\ phase[s] = "escaped" => client[s] = "broken" \/ node[s] = "failed"

(* What the gauge always counts: those it should, and those that escaped.   *)
LiveOrEscaped == {s \in Sessions : phase[s] \in Registered \cup {"escaped"}}

GaugeInv ==
  /\ SessionTypes
  /\ activeConnections = Cardinality(LiveOrEscaped)
  /\ \A s \in Sessions : Reasons(s)

-----------------------------------------------------------------------------
(* Steps that leave the set of registered sessions as it is.                *)
LEMMA SameGauge ==
  ASSUME SessionTypes, phase' \in [Sessions -> Phases],
         \A s \in Sessions :
           phase'[s] \in Registered \cup {"escaped"}
             <=> phase[s] \in Registered \cup {"escaped"}
  PROVE  LiveOrEscaped' = LiveOrEscaped
BY DEF LiveOrEscaped

LEMMA LiveIsFinite == IsFiniteSet(LiveOrEscaped)
<1>1. LiveOrEscaped \subseteq Sessions
  BY DEF LiveOrEscaped
<1> QED
  BY <1>1, FS_Subset, SessionAssumption

LEMMA GaugeInitially == SessionInit => GaugeInv
<1> SUFFICES ASSUME SessionInit PROVE GaugeInv
  OBVIOUS
<1>1. SessionTypes
  BY DEF SessionInit, SessionTypes, Phases, Nodes, Thrown, Clients
<1>2. LiveOrEscaped = {}
  BY DEF SessionInit, LiveOrEscaped, Registered, Handled, Serving
<1>3. activeConnections = Cardinality(LiveOrEscaped)
  BY <1>2, FS_EmptySet DEF SessionInit
<1>4. ASSUME NEW s \in Sessions PROVE Reasons(s)
  BY DEF SessionInit, Reasons
<1> QED
  BY <1>1, <1>3, <1>4 DEF GaugeInv

(* The steps of a session's thread, one by one.                             *)
LEMMA GaugeThread ==
  ASSUME GaugeInv, NEW s \in Sessions, Thread(s)
  PROVE  GaugeInv'
<1> USE DEF GaugeInv, SessionTypes, Phases, Nodes, Thrown, Clients,
            Registered, Handled, Serving, peerVars, sensorVars
<1>1. CASE RegisterSession(s)
  <2>1. SessionTypes'
    BY <1>1 DEF RegisterSession, Incremented
  <2>2. LiveOrEscaped' = LiveOrEscaped \cup {s} /\ s \notin LiveOrEscaped
    BY <1>1 DEF RegisterSession, LiveOrEscaped
  <2>3. Cardinality(LiveOrEscaped') = Cardinality(LiveOrEscaped) + 1
    BY <2>2, LiveIsFinite, FS_AddElement
  <2>4. activeConnections' = Cardinality(LiveOrEscaped')
    BY <2>3, <1>1 DEF RegisterSession, Incremented
  <2>5. ASSUME NEW t \in Sessions PROVE Reasons(t)'
    BY <1>1 DEF RegisterSession, Reasons
  <2> QED
    BY <2>1, <2>4, <2>5
<1>2. CASE Accept(s)
  <2>1. SessionTypes' /\ LiveOrEscaped' = LiveOrEscaped
    BY <1>2, SameGauge DEF Accept
  <2>2. ASSUME NEW t \in Sessions PROVE Reasons(t)'
    BY <1>2 DEF Accept, Reasons
  <2> QED
    BY <1>2, <2>1, <2>2 DEF Accept
<1>3. CASE AcceptFails(s)
  <2>1. SessionTypes' /\ LiveOrEscaped' = LiveOrEscaped
    BY <1>3, SameGauge DEF AcceptFails
  <2>2. ASSUME NEW t \in Sessions PROVE Reasons(t)'
    BY <1>3 DEF AcceptFails, Reasons
  <2> QED
    BY <1>3, <2>1, <2>2 DEF AcceptFails
<1>4. CASE OnConnectionFailure(s)
  <2>1. SessionTypes' /\ LiveOrEscaped' = LiveOrEscaped
    BY <1>4, SameGauge DEF OnConnectionFailure
  <2>2. ASSUME NEW t \in Sessions PROVE Reasons(t)'
    BY <1>4 DEF OnConnectionFailure, Reasons
  <2> QED
    BY <1>4, <2>1, <2>2 DEF OnConnectionFailure
<1>5. CASE Unwind(s)
  <2>1. SessionTypes' /\ LiveOrEscaped' = LiveOrEscaped
    BY <1>5, SameGauge DEF Unwind
  <2>2. ASSUME NEW t \in Sessions PROVE Reasons(t)'
    BY <1>5 DEF Unwind, Reasons
  <2> QED
    BY <1>5, <2>1, <2>2 DEF Unwind
<1>6. CASE RecordDuration(s)
  <2>1. SessionTypes' /\ LiveOrEscaped' = LiveOrEscaped
    BY <1>6, SameGauge DEF RecordDuration
  <2>2. ASSUME NEW t \in Sessions PROVE Reasons(t)'
    BY <1>6 DEF RecordDuration, Reasons
  <2> QED
    BY <1>6, <2>1, <2>2 DEF RecordDuration
<1>7. CASE DecrementGauge(s)
  <2>1. LiveOrEscaped' = LiveOrEscaped \ {s} /\ s \in LiveOrEscaped
    BY <1>7 DEF DecrementGauge, LiveOrEscaped
  <2>2. Cardinality(LiveOrEscaped') = Cardinality(LiveOrEscaped) - 1
    BY <2>1, LiveIsFinite, FS_RemoveElement
  <2>3. IsFiniteSet(LiveOrEscaped')
    BY <2>1, LiveIsFinite, FS_Subset
  <2>4. Cardinality(LiveOrEscaped') \in Nat
    BY <2>3, FS_CardinalityType
  <2>5. activeConnections' = Cardinality(LiveOrEscaped')
    BY <2>2, <1>7 DEF DecrementGauge
  <2>6. SessionTypes'
    BY <2>4, <2>5, <1>7 DEF DecrementGauge
  <2>7. ASSUME NEW t \in Sessions PROVE Reasons(t)'
    BY <1>7 DEF DecrementGauge, Reasons
  <2> QED
    BY <2>5, <2>6, <2>7
<1>8. CASE OnWorkerException(s)
  <2>1. AfterWorkerException(s) \in {"leaving", "escaped"} /\ Cancelled(s) \in Nodes
    BY DEF AfterWorkerException, Cancelled
  <2>2. SessionTypes'
    BY <1>8, <2>1 DEF OnWorkerException
  <2>3. LiveOrEscaped' = LiveOrEscaped
    BY <1>8, <2>1, <2>2, SameGauge DEF OnWorkerException
  <2>4. ASSUME NEW t \in Sessions PROVE Reasons(t)'
    BY <1>8 DEF OnWorkerException, Reasons, AfterWorkerException, Cancelled
  <2> QED
    BY <1>8, <2>2, <2>3, <2>4 DEF OnWorkerException
<1> QED
  BY <1>1, <1>2, <1>3, <1>4, <1>5, <1>6, <1>7, <1>8 DEF Thread

(* The other steps are on none of it but the worker's exception, the        *)
(* connection with the node and the client.                                 *)
LEMMA GaugeOthers ==
  ASSUME GaugeInv, NEW s \in Sessions,
         ConnectionFails(s) \/ Worker(s) \/ Peer(s)
  PROVE  GaugeInv'
<1> USE DEF GaugeInv, SessionTypes, Phases, Nodes, Thrown, Clients,
            Registered, Handled, Serving, peerVars, sensorVars, threadVars, Alive
<1>1. CASE ConnectionFails(s)
  <2>1. SessionTypes' /\ LiveOrEscaped' = LiveOrEscaped
    BY <1>1 DEF ConnectionFails, LiveOrEscaped
  <2>2. ASSUME NEW t \in Sessions PROVE Reasons(t)'
    BY <1>1 DEF ConnectionFails, Reasons
  <2> QED
    BY <1>1, <2>1, <2>2 DEF ConnectionFails
<1>2. CASE CountMessage(s) \/ Receive(s) \/ RouteAgain(s) \/ RouteMatched(s) \/ Send(s)
  <2>1. UNCHANGED <<phase, node, thrown, client, activeConnections>>
    BY <1>2 DEF CountMessage, Receive, RouteAgain, RouteMatched, Send
  <2> QED
    BY <2>1 DEF LiveOrEscaped, Reasons
<1>3. CASE RouteUnmatched(s) \/ ReceiveFails(s)
  <2>1. UNCHANGED <<phase, node, client, activeConnections>> /\ Alive(s)
    BY <1>3 DEF RouteUnmatched, ReceiveFails
  <2>2. \/ thrown' = thrown
        \/ thrown' = [thrown EXCEPT ![s] = client[s]] /\ client[s] # "there"
    BY <1>3 DEF RouteUnmatched, ReceiveFails, Fail
  <2>3. SessionTypes' /\ LiveOrEscaped' = LiveOrEscaped
    BY <2>1, <2>2 DEF LiveOrEscaped
  <2>4. ASSUME NEW t \in Sessions PROVE Reasons(t)'
    BY <2>1, <2>2 DEF Reasons
  <2> QED
    BY <2>1, <2>3, <2>4
<1>4. CASE Leave(s) \/ Break(s)
  <2>1. /\ UNCHANGED <<phase, node, thrown, activeConnections>>
        /\ Alive(s)
        /\ client[s] = "there"
        /\ \E c \in {"gone", "broken"} : client' = [client EXCEPT ![s] = c]
    BY <1>4 DEF Leave, Break
  <2>2. SessionTypes' /\ LiveOrEscaped' = LiveOrEscaped
    BY <2>1 DEF LiveOrEscaped
  <2>3. ASSUME NEW t \in Sessions PROVE Reasons(t)'
    BY <2>1 DEF Reasons
  <2> QED
    BY <2>1, <2>2, <2>3
<1> QED
  BY <1>1, <1>2, <1>3, <1>4 DEF Worker, Peer

LEMMA GaugeStep == GaugeInv /\ [SessionNext]_sessionVars => GaugeInv'
<1> SUFFICES ASSUME GaugeInv, [SessionNext]_sessionVars PROVE GaugeInv'
  OBVIOUS
<1>1. CASE UNCHANGED sessionVars
  BY <1>1 DEF sessionVars, threadVars, workerVars, peerVars, sensorVars, countVars,
              GaugeInv, SessionTypes, LiveOrEscaped, Reasons
<1>2. CASE SessionNext
  <2>1. PICK s \in Sessions : Thread(s) \/ ConnectionFails(s) \/ Worker(s) \/ Peer(s)
    BY <1>2 DEF SessionNext
  <2> QED
    BY <2>1, GaugeThread, GaugeOthers
<1> QED
  BY <1>1, <1>2

(* The gauge counts the live sessions until one ends by an exception that   *)
(* escapes recordSession; which takes a connection with the client that     *)
(* breaks, or one with the node that fails.                                 *)
THEOREM GaugeCorrect == SessionSpec => []GaugeUntilEscaped
<1>1. ASSUME GaugeInv PROVE GaugeUntilEscaped
  <2>1. ASSUME Escaped = {} PROVE GaugeIsLive
    <3>1. LiveOrEscaped = {s \in Sessions : phase[s] \in Registered}
      BY <2>1 DEF Escaped, LiveOrEscaped
    <3> QED
      BY <1>1, <3>1 DEF GaugeInv, GaugeIsLive
  <2>2. \A s \in Escaped : client[s] = "broken" \/ node[s] = "failed"
    BY <1>1 DEF GaugeInv, Reasons, Escaped
  <2> QED
    BY <2>1, <2>2 DEF GaugeUntilEscaped
<1> QED
  BY <1>1, GaugeInitially, GaugeStep, PTL DEF SessionSpec

-----------------------------------------------------------------------------
(* The router: types, and the numbers of messages.                          *)
Workers == {"none", "count", "receive", "route", "failed", "cancelled"}

RouterTypes ==
  /\ worker \in [Sessions -> Workers]
  /\ cache \in [Sessions -> {<<>>} \cup {<<m>> : m \in Messages}]
  /\ queues \in [Sessions -> [Queues -> Seq(Messages)]]
  /\ sent \in [Sessions -> Seq(Messages)]
  /\ routed \in [Sessions -> Nat]
  /\ {totalConnections, sessionDurations, totalMessages, totalUnrouted} \subseteq Nat

(* A message being routed is one that was sent.                             *)
InBounds(s) ==
  /\ routed[s] <= Len(sent[s])
  /\ worker[s] = "route" => routed[s] < Len(sent[s])

RouterInv ==
  /\ SessionTypes
  /\ RouterTypes
  /\ \A s \in Sessions : InBounds(s)

LEMMA RouterInitially == SessionInit => RouterInv
<1> SUFFICES ASSUME SessionInit PROVE RouterInv
  OBVIOUS
<1>1. SessionTypes
  BY GaugeInitially DEF GaugeInv
<1>2. <<>> \in Seq(Messages) /\ Len(<<>>) = 0
  OBVIOUS
<1>3. RouterTypes
  BY <1>2 DEF SessionInit, RouterTypes, Workers
<1>4. ASSUME NEW s \in Sessions PROVE InBounds(s)
  BY <1>2 DEF SessionInit, InBounds
<1> QED
  BY <1>1, <1>3, <1>4 DEF RouterInv

(* What one message that is routed does to queues and cache.                *)
LEMMA RouteTypes ==
  ASSUME RouterInv, NEW s \in Sessions, worker[s] = "route"
  PROVE  /\ Current(s) \in Messages
         /\ Remembered(Current(s)) \in {<<>>} \cup {<<m>> : m \in Messages}
         /\ \A m \in Messages : Route(m) # "unmatched" =>
              Pushed(s, m) \in [Sessions -> [Queues -> Seq(Messages)]]
<1> USE DEF RouterInv, RouterTypes, InBounds
<1>1. routed[s] + 1 \in 1 .. Len(sent[s])
  OBVIOUS
<1>2. Current(s) \in Messages
  BY <1>1 DEF Current
<1>3. Remembered(Current(s)) \in {<<>>} \cup {<<m>> : m \in Messages}
  BY <1>2 DEF Remembered
<1>4. ASSUME NEW m \in Messages, Route(m) # "unmatched"
      PROVE  Pushed(s, m) \in [Sessions -> [Queues -> Seq(Messages)]]
  <2>1. Route(m) \in Queues
    BY <1>4 DEF Route, Queues
  <2>2. Append(queues[s][Route(m)], m) \in Seq(Messages)
    BY <2>1
  <2> QED
    BY <2>1, <2>2 DEF Pushed
<1> QED
  BY <1>2, <1>3, <1>4

(* A cached message is one that some handler matched.                       *)
CacheInv == \A s \in Sessions : cache[s] # <<>> => Route(Head(cache[s])) # "unmatched"

LEMMA RouterThread ==
  ASSUME RouterInv, SessionTypes', NEW s \in Sessions,
         Thread(s) \/ ConnectionFails(s) \/ Leave(s) \/ Break(s)
  PROVE  RouterInv'
<1> USE DEF RouterInv, RouterTypes
<1>1. /\ UNCHANGED <<queues, sent, routed, totalMessages, totalUnrouted>>
      /\ \/ UNCHANGED <<worker, cache>>
         \/ worker' = [worker EXCEPT ![s] = "count"] /\ UNCHANGED cache
         \/ CancelWorker(s)
  BY DEF Thread, ConnectionFails, Leave, Break, RegisterSession, Accept, AcceptFails,
         OnConnectionFailure, Unwind, RecordDuration, DecrementGauge, OnWorkerException,
         CancelWorker, workerVars, peerVars, countVars
<1>2. totalConnections' \in Nat /\ sessionDurations' \in Nat
  BY DEF Thread, ConnectionFails, Leave, Break, RegisterSession, Accept, AcceptFails,
         OnConnectionFailure, Unwind, RecordDuration, DecrementGauge, OnWorkerException,
         sensorVars
<1>3. RouterTypes'
  BY <1>1, <1>2 DEF CancelWorker, Workers
<1>4. ASSUME NEW t \in Sessions PROVE InBounds(t)'
  BY <1>1 DEF InBounds, CancelWorker, Workers
<1> QED
  BY <1>3, <1>4

LEMMA RouterWorker ==
  ASSUME RouterInv, CacheInv, SessionTypes', NEW s \in Sessions, Worker(s) \/ Send(s)
  PROVE  RouterInv'
<1> USE DEF RouterInv, RouterTypes, Workers, InBounds, sensorVars, threadVars, peerVars
<1>1. CASE CountMessage(s)
  BY <1>1 DEF CountMessage
<1>2. CASE Receive(s)
  BY <1>2 DEF Receive, countVars
<1>3. CASE RouteAgain(s)
  <2>1. Route(Head(cache[s])) # "unmatched" /\ Head(cache[s]) \in Messages
    <3>1. cache[s] = <<Current(s)>> /\ worker[s] = "route"
      BY <1>3 DEF RouteAgain, IsAgain
    <3>2. cache[s] # <<>> /\ Head(cache[s]) = Current(s)
      BY <3>1
    <3> QED
      BY <3>1, <3>2, RouteTypes DEF CacheInv
  <2>2. queues' \in [Sessions -> [Queues -> Seq(Messages)]]
    BY <1>3, <2>1, RouteTypes DEF RouteAgain
  <2> QED
    BY <1>3, <2>2 DEF RouteAgain, Loop, countVars
<1>4. CASE RouteMatched(s)
  <2>1. queues' \in [Sessions -> [Queues -> Seq(Messages)]]
    BY <1>4, RouteTypes DEF RouteMatched
  <2>2. cache' \in [Sessions -> {<<>>} \cup {<<m>> : m \in Messages}]
    BY <1>4, RouteTypes DEF RouteMatched
  <2> QED
    BY <1>4, <2>1, <2>2 DEF RouteMatched, Loop, countVars
<1>5. CASE RouteUnmatched(s)
  <2>1. cache' \in [Sessions -> {<<>>} \cup {<<m>> : m \in Messages}]
    BY <1>5, RouteTypes DEF RouteUnmatched
  <2>2. /\ worker[s] = "route"
        /\ \E w \in {"count", "failed"} : worker' = [worker EXCEPT ![s] = w]
        /\ routed' = [routed EXCEPT ![s] = @ + 1]
        /\ UNCHANGED <<queues, sent, totalConnections, sessionDurations, totalMessages>>
        /\ totalUnrouted' = totalUnrouted + 1
    BY <1>5 DEF RouteUnmatched, Loop, Fail
  <2> QED
    BY <2>1, <2>2
<1>6. CASE ReceiveFails(s)
  BY <1>6 DEF ReceiveFails, Fail, countVars
<1>7. CASE Send(s)
  <2>1. PICK m \in Messages : sent' = [sent EXCEPT ![s] = Append(@, m)]
    BY <1>7 DEF Send
  <2>2. sent' \in [Sessions -> Seq(Messages)] /\ Len(sent'[s]) = Len(sent[s]) + 1
    BY <2>1
  <2> QED
    BY <1>7, <2>1, <2>2 DEF Send, workerVars, countVars
<1> QED
  BY <1>1, <1>2, <1>3, <1>4, <1>5, <1>6, <1>7 DEF Worker

LEMMA CacheStep == RouterInv /\ CacheInv /\ [SessionNext]_sessionVars => CacheInv'
<1> SUFFICES ASSUME RouterInv, CacheInv, [SessionNext]_sessionVars PROVE CacheInv'
  OBVIOUS
<1> USE DEF RouterInv, RouterTypes, CacheInv
<1>1. CASE UNCHANGED cache
  BY <1>1
<1>2. CASE \E s \in Sessions : cache' = [cache EXCEPT ![s] = <<>>]
  BY <1>2
<1>3. CASE \E s \in Sessions : cache' = [cache EXCEPT ![s] = Remembered(Current(s))]
  <2>1. PICK s \in Sessions : cache' = [cache EXCEPT ![s] = Remembered(Current(s))]
    BY <1>3
  <2>2. Remembered(Current(s)) # <<>> =>
          Route(Head(Remembered(Current(s)))) # "unmatched"
    BY DEF Remembered
  <2> QED
    BY <2>1, <2>2
<1> QED
  BY <1>1, <1>2, <1>3 DEF SessionNext, sessionVars, Thread, ConnectionFails, Worker, Peer, RegisterSession,
     Accept, AcceptFails, OnConnectionFailure, Unwind, RecordDuration, DecrementGauge,
     OnWorkerException, CancelWorker, CountMessage, Receive, RouteAgain, RouteMatched,
     RouteUnmatched, ReceiveFails, Send, Leave, Break, workerVars

LEMMA RouterStep ==
  RouterInv /\ CacheInv /\ GaugeInv' /\ [SessionNext]_sessionVars => RouterInv'
<1> SUFFICES ASSUME RouterInv, CacheInv, GaugeInv', [SessionNext]_sessionVars PROVE RouterInv'
  OBVIOUS
<1>1. SessionTypes'
  BY DEF GaugeInv
<1>2. CASE UNCHANGED sessionVars
  BY <1>1, <1>2 DEF sessionVars, threadVars, workerVars, peerVars, sensorVars, countVars,
                    RouterInv, RouterTypes, InBounds
<1>3. CASE SessionNext
  BY <1>1, <1>3, RouterThread, RouterWorker DEF SessionNext, Peer
<1> QED
  BY <1>2, <1>3

LEMMA RouterInvariant == SessionSpec => [](GaugeInv /\ RouterInv /\ CacheInv)
<1>1. SessionInit => CacheInv
  BY DEF SessionInit, CacheInv
<1> QED
  BY <1>1, GaugeInitially, GaugeStep, RouterInitially, RouterStep, CacheStep, PTL DEF SessionSpec

(* The state of sessions is well-typed, and no worker routes a message that *)
(* was not sent.                                                            *)
THEOREM TypeCorrect == SessionSpec => []SessionTypeOK
<1>1. GaugeInv /\ RouterInv => SessionTypeOK
  BY DEF GaugeInv, SessionTypes, RouterInv, RouterTypes, InBounds, SessionTypeOK,
         Phases, Nodes, Thrown, Clients, Workers
<1> QED
  BY <1>1, RouterInvariant, PTL

-----------------------------------------------------------------------------
(* The messages: those routed, and the workers that count one more than     *)
(* they routed.                                                             *)
WaitingWorkers == {s \in Sessions : worker[s] \in {"receive", "route"}}
CountedWorkers == {s \in Sessions : worker[s] \notin {"none", "count"}}

MessagesInv ==
  /\ IsFiniteSet(RoutedMessages)
  /\ totalUnrouted = Cardinality(Unmatched)
  /\ Cardinality(RoutedMessages) + Cardinality(WaitingWorkers) <= totalMessages
  /\ totalMessages <= Cardinality(RoutedMessages) + Cardinality(CountedWorkers)
  /\ \A s \in Sessions : phase[s] \in {"pending", "accepting"} => worker[s] = "none"

LEMMA WorkersAreFinite ==
  /\ IsFiniteSet(WaitingWorkers)
  /\ IsFiniteSet(CountedWorkers)
  /\ Cardinality(WaitingWorkers) \in Nat
  /\ Cardinality(CountedWorkers) \in Nat
<1>1. /\ WaitingWorkers \subseteq Sessions
      /\ CountedWorkers \subseteq Sessions
  BY DEF WaitingWorkers, CountedWorkers
<1>2. /\ IsFiniteSet(WaitingWorkers)
      /\ IsFiniteSet(CountedWorkers)
  BY <1>1, FS_Subset, SessionAssumption
<1> QED
  BY <1>1, <1>2, FS_Subset, FS_CardinalityType

LEMMA Pairs ==
  ASSUME NEW t, NEW K, NEW p
  PROVE  p \in {t} \X K <=> \E n \in K : p = <<t, n>>
<1>1. ASSUME p \in {t} \X K PROVE \E n \in K : p = <<t, n>>
  <2>1. p[2] \in K /\ p = <<t, p[2]>>
    BY <1>1
  <2> QED
    BY <2>1
<1>2. ASSUME NEW n \in K, p = <<t, n>> PROVE p \in {t} \X K
  BY <1>2
<1> QED
  BY <1>1, <1>2

(* One more message routed is one more pair, and one more unmatched one if  *)
(* it is unmatched.                                                         *)
LEMMA OneRouted ==
  ASSUME RouterInv, NEW s \in Sessions, UNCHANGED sent,
         routed' = [routed EXCEPT ![s] = @ + 1]
  PROVE  LET r == <<s, routed[s] + 1>>
         IN  /\ r \notin RoutedMessages
             /\ RoutedMessages' = RoutedMessages \cup {r}
             /\ Route(Current(s)) = "unmatched" => Unmatched' = Unmatched \cup {r}
             /\ Route(Current(s)) # "unmatched" => Unmatched' = Unmatched
<1> DEFINE r == <<s, routed[s] + 1>>
<1>t. routed \in [Sessions -> Nat]
  BY DEF RouterInv, RouterTypes
<1>a. ASSUME NEW p
      PROVE  p \in RoutedMessages <=> \E t \in Sessions : p \in {t} \X (1 .. routed[t])
  BY DEF RoutedMessages
<1>b. ASSUME NEW p
      PROVE  p \in RoutedMessages' <=> \E t \in Sessions : p \in {t} \X (1 .. routed'[t])
  BY DEF RoutedMessages
<1>c. ASSUME NEW p, NEW t \in Sessions
      PROVE  p \in {t} \X (1 .. routed'[t])
               <=> p \in {t} \X (1 .. routed[t]) \/ (t = s /\ p = r)
  <2>1. ASSUME NEW n
        PROVE  n \in 1 .. routed'[t] <=> n \in 1 .. routed[t] \/ (t = s /\ n = routed[s] + 1)
    BY <1>t
  <2>2. /\ p \in {t} \X (1 .. routed[t]) <=> \E n \in 1 .. routed[t] : p = <<t, n>>
        /\ p \in {t} \X (1 .. routed'[t]) <=> \E n \in 1 .. routed'[t] : p = <<t, n>>
    BY Pairs
  <2> QED
    BY <2>1, <2>2
<1>1. r \notin RoutedMessages
  <2> SUFFICES ASSUME r \in RoutedMessages PROVE FALSE
    OBVIOUS
  <2>1. PICK t \in Sessions : r \in {t} \X (1 .. routed[t])
    BY <1>a
  <2>2. t = s /\ routed[s] + 1 \in 1 .. routed[t]
    BY <2>1
  <2> QED
    BY <2>2, <1>t
<1>3. RoutedMessages' = RoutedMessages \cup {r}
  <2>1. ASSUME NEW p PROVE p \in RoutedMessages' <=> p \in RoutedMessages \/ p = r
    BY <1>a, <1>b, <1>c
  <2> QED
    BY <2>1
<1>4. sent[r[1]][r[2]] = Current(s)
  BY DEF Current
<1>5. /\ Route(Current(s)) = "unmatched" => Unmatched' = Unmatched \cup {r}
      /\ Route(Current(s)) # "unmatched" => Unmatched' = Unmatched
  BY <1>3, <1>4 DEF Unmatched, Route
<1> QED
  BY <1>1, <1>3, <1>5

(* What a worker that moves on is to the two sets.                          *)
Waits(w)  == IF w \in {"receive", "route"} THEN 1 ELSE 0
Counts(w) == IF w \in {"none", "count"} THEN 0 ELSE 1

LEMMA WorkerMoves ==
  ASSUME RouterInv, NEW s \in Sessions, NEW w \in Workers,
         worker' = [worker EXCEPT ![s] = w]
  PROVE  /\ Cardinality(WaitingWorkers') = Cardinality(WaitingWorkers) + Waits(w) - Waits(worker[s])
         /\ Cardinality(CountedWorkers') = Cardinality(CountedWorkers) + Counts(w) - Counts(worker[s])
<1>0. /\ worker \in [Sessions -> Workers]
      /\ IsFiniteSet(WaitingWorkers) /\ Cardinality(WaitingWorkers) \in Nat
      /\ IsFiniteSet(CountedWorkers) /\ Cardinality(CountedWorkers) \in Nat
  BY WorkersAreFinite DEF RouterInv, RouterTypes
<1>1. Cardinality(WaitingWorkers') = Cardinality(WaitingWorkers) + Waits(w) - Waits(worker[s])
  <2>1. CASE Waits(w) = Waits(worker[s])
    <3>1. WaitingWorkers' = WaitingWorkers
      BY <1>0, <2>1 DEF WaitingWorkers, Waits
    <3> QED
      BY <3>1, <2>1, <1>0 DEF Waits
  <2>2. CASE Waits(w) = 1 /\ Waits(worker[s]) = 0
    <3>1. s \notin WaitingWorkers /\ WaitingWorkers' = WaitingWorkers \cup {s}
      BY <1>0, <2>2 DEF WaitingWorkers, Waits
    <3>2. Cardinality(WaitingWorkers') = Cardinality(WaitingWorkers) + 1
      BY <3>1, <1>0, FS_AddElement
    <3> QED
      BY <3>2, <2>2, <1>0
  <2>3. CASE Waits(w) = 0 /\ Waits(worker[s]) = 1
    <3>1. s \in WaitingWorkers /\ WaitingWorkers' = WaitingWorkers \ {s}
      BY <1>0, <2>3 DEF WaitingWorkers, Waits
    <3>2. Cardinality(WaitingWorkers') = Cardinality(WaitingWorkers) - 1
      BY <3>1, <1>0, FS_RemoveElement
    <3> QED
      BY <3>2, <2>3, <1>0
  <2> QED
    BY <2>1, <2>2, <2>3 DEF Waits
<1>2. Cardinality(CountedWorkers') = Cardinality(CountedWorkers) + Counts(w) - Counts(worker[s])
  <2>1. CASE Counts(w) = Counts(worker[s])
    <3>1. CountedWorkers' = CountedWorkers
      BY <1>0, <2>1 DEF CountedWorkers, Counts
    <3> QED
      BY <3>1, <2>1, <1>0 DEF Counts
  <2>2. CASE Counts(w) = 1 /\ Counts(worker[s]) = 0
    <3>1. s \notin CountedWorkers /\ CountedWorkers' = CountedWorkers \cup {s}
      BY <1>0, <2>2 DEF CountedWorkers, Counts
    <3>2. Cardinality(CountedWorkers') = Cardinality(CountedWorkers) + 1
      BY <3>1, <1>0, FS_AddElement
    <3> QED
      BY <3>2, <2>2, <1>0
  <2>3. CASE Counts(w) = 0 /\ Counts(worker[s]) = 1
    <3>1. s \in CountedWorkers /\ CountedWorkers' = CountedWorkers \ {s}
      BY <1>0, <2>3 DEF CountedWorkers, Counts
    <3>2. Cardinality(CountedWorkers') = Cardinality(CountedWorkers) - 1
      BY <3>1, <1>0, FS_RemoveElement
    <3> QED
      BY <3>2, <2>3, <1>0
  <2> QED
    BY <2>1, <2>2, <2>3 DEF Counts
<1> QED
  BY <1>1, <1>2

LEMMA WaitsAndCounts ==
  /\ {"count", "receive", "route", "failed", "cancelled"} \subseteq Workers
  /\ Waits("none") = 0 /\ Waits("count") = 0 /\ Waits("failed") = 0 /\ Waits("cancelled") = 0
  /\ Waits("receive") = 1 /\ Waits("route") = 1
  /\ Counts("none") = 0 /\ Counts("count") = 0
  /\ Counts("receive") = 1 /\ Counts("route") = 1 /\ Counts("failed") = 1 /\ Counts("cancelled") = 1
BY DEF Workers, Waits, Counts

(* Messages sent later are not among those routed already.                  *)
LEMMA SameMessages ==
  ASSUME RouterInv, UNCHANGED routed,
         \A t \in Sessions : \A n \in 1 .. Len(sent[t]) : sent'[t][n] = sent[t][n]
  PROVE  RoutedMessages' = RoutedMessages /\ Unmatched' = Unmatched
<1>1. RoutedMessages' = RoutedMessages
  BY DEF RoutedMessages
<1>2. ASSUME NEW r \in RoutedMessages PROVE sent'[r[1]][r[2]] = sent[r[1]][r[2]]
  <2>1. PICK t \in Sessions : r \in {t} \X (1 .. routed[t])
    BY DEF RoutedMessages
  <2>2. r[1] = t /\ r[2] \in 1 .. routed[t]
    BY <2>1
  <2>3. routed[t] \in Nat /\ Len(sent[t]) \in Nat /\ routed[t] <= Len(sent[t])
    BY DEF RouterInv, RouterTypes, InBounds
  <2> QED
    BY <2>2, <2>3
<1>3. Unmatched' = Unmatched
  BY <1>1, <1>2 DEF Unmatched, Route
<1> QED
  BY <1>1, <1>3

LEMMA MessagesThread ==
  ASSUME RouterInv, MessagesInv, NEW s \in Sessions,
         Thread(s) \/ ConnectionFails(s) \/ Leave(s) \/ Break(s)
  PROVE  MessagesInv'
<1>0. /\ worker \in [Sessions -> Workers] /\ phase \in [Sessions -> Phases]
      /\ totalMessages \in Nat
      /\ Cardinality(WaitingWorkers) \in Nat /\ Cardinality(CountedWorkers) \in Nat
      /\ Cardinality(RoutedMessages) \in Nat
  BY WorkersAreFinite, FS_CardinalityType DEF RouterInv, RouterTypes, SessionTypes, MessagesInv
<1>1. UNCHANGED <<sent, routed, totalMessages, totalUnrouted>>
  BY DEF Thread, ConnectionFails, Leave, Break, RegisterSession, Accept, AcceptFails,
         OnConnectionFailure, Unwind, RecordDuration, DecrementGauge, OnWorkerException,
         CancelWorker, workerVars, peerVars, countVars
<1>2. RoutedMessages' = RoutedMessages /\ Unmatched' = Unmatched
  BY <1>1, SameMessages
<1> DEFINE Before(t) == phase[t] \in {"pending", "accepting"}
<1>3. ASSUME UNCHANGED worker, \A t \in Sessions : Before(t)' => Before(t)
      PROVE  MessagesInv'
  <2>1. WaitingWorkers' = WaitingWorkers /\ CountedWorkers' = CountedWorkers
    BY <1>3 DEF WaitingWorkers, CountedWorkers
  <2>2. ASSUME NEW t \in Sessions, Before(t)' PROVE worker'[t] = "none"
    BY <1>3, <2>2 DEF MessagesInv
  <2> QED
    BY <1>1, <1>2, <2>1, <2>2 DEF MessagesInv
<1>4. CASE Accept(s)
  <2>1. worker[s] = "none" /\ worker' = [worker EXCEPT ![s] = "count"]
    BY <1>4 DEF Accept, MessagesInv
  <2>2. /\ Cardinality(WaitingWorkers') = Cardinality(WaitingWorkers)
        /\ Cardinality(CountedWorkers') = Cardinality(CountedWorkers)
    <3>1. /\ Cardinality(WaitingWorkers') = Cardinality(WaitingWorkers) + Waits("count") - Waits("none")
          /\ Cardinality(CountedWorkers') = Cardinality(CountedWorkers) + Counts("count") - Counts("none")
      BY <2>1, WorkerMoves, WaitsAndCounts
    <3> QED
      BY <3>1, <1>0, WaitsAndCounts
  <2>3. ASSUME NEW t \in Sessions, phase'[t] \in {"pending", "accepting"} PROVE worker'[t] = "none"
    BY <1>4, <1>0, <2>1, <2>3 DEF MessagesInv, Accept
  <2> QED
    BY <1>0, <1>1, <1>2, <2>2, <2>3 DEF MessagesInv
<1>5. CASE CancelWorker(s) /\ \E p \in Phases \ {"pending", "accepting"} : phase' = [phase EXCEPT ![s] = p]
  <2>1. worker' = [worker EXCEPT ![s] = "cancelled"]
    BY <1>5 DEF CancelWorker
  <2>2. /\ Cardinality(WaitingWorkers') = Cardinality(WaitingWorkers) + 0 - Waits(worker[s])
        /\ Cardinality(CountedWorkers') = Cardinality(CountedWorkers) + 1 - Counts(worker[s])
    BY <2>1, <1>0, WorkerMoves, WaitsAndCounts, ZenonT(40)
  <2>3. /\ Cardinality(WaitingWorkers') <= Cardinality(WaitingWorkers)
        /\ Cardinality(CountedWorkers) <= Cardinality(CountedWorkers')
        /\ Cardinality(WaitingWorkers') \in Int /\ Cardinality(CountedWorkers') \in Int
    BY <2>2, <1>0 DEF Waits, Counts
  <2>4. ASSUME NEW t \in Sessions, phase'[t] \in {"pending", "accepting"} PROVE worker'[t] = "none"
    BY <1>5, <1>0, <2>1, <2>4 DEF MessagesInv
  <2> QED
    BY <1>0, <1>1, <1>2, <2>3, <2>4 DEF MessagesInv
<1> USE DEF Phases, Registered, Handled, Serving
<1>6. CASE RegisterSession(s) \/ AcceptFails(s)
  <2>1. UNCHANGED worker /\ \A t \in Sessions : Before(t)' => Before(t)
    BY <1>0, <1>6 DEF RegisterSession, AcceptFails, workerVars
  <2> QED
    BY <1>3, <2>1
<1>7. CASE ConnectionFails(s) \/ Leave(s) \/ Break(s)
  <2>1. UNCHANGED <<worker, phase>>
    BY <1>7 DEF ConnectionFails, Leave, Break, threadVars, workerVars
  <2> QED
    BY <1>3, <2>1
<1>8. CASE OnConnectionFailure(s) \/ RecordDuration(s) \/ DecrementGauge(s)
  <2>1. UNCHANGED worker /\ \A t \in Sessions : Before(t)' => Before(t)
    BY <1>0, <1>8 DEF OnConnectionFailure, RecordDuration, DecrementGauge, workerVars
  <2> QED
    BY <1>3, <2>1
<1>9. CASE Unwind(s)
  BY <1>5, <1>9 DEF Unwind
<1>10. CASE OnWorkerException(s)
  BY <1>5, <1>10 DEF OnWorkerException, AfterWorkerException
<1> QED
  BY <1>4, <1>6, <1>7, <1>8, <1>9, <1>10 DEF Thread

LEMMA MessagesWorker ==
  ASSUME RouterInv, CacheInv, MessagesInv, NEW s \in Sessions, Worker(s) \/ Send(s)
  PROVE  MessagesInv'
<1>0. /\ worker \in [Sessions -> Workers] /\ phase \in [Sessions -> Phases]
      /\ totalMessages \in Nat /\ totalUnrouted \in Nat
      /\ Cardinality(WaitingWorkers) \in Nat /\ Cardinality(CountedWorkers) \in Nat
      /\ IsFiniteSet(RoutedMessages) /\ IsFiniteSet(Unmatched)
      /\ Cardinality(RoutedMessages) \in Nat
  <2>1. Unmatched \subseteq RoutedMessages
    BY DEF Unmatched
  <2> QED
    BY <2>1, WorkersAreFinite, FS_CardinalityType, FS_Subset
    DEF RouterInv, RouterTypes, SessionTypes, MessagesInv
<1>1. UNCHANGED phase
  BY DEF Worker, CountMessage, Receive, RouteAgain, RouteMatched, RouteUnmatched,
         ReceiveFails, Send, threadVars
<1>2. ASSUME worker' # worker PROVE Alive(s) /\ \E w \in Workers : worker' = [worker EXCEPT ![s] = w]
  BY <1>2 DEF Worker, CountMessage, Receive, RouteAgain, RouteMatched, RouteUnmatched,
     ReceiveFails, Send, Loop, Fail, Workers, workerVars
<1>3. ASSUME NEW t \in Sessions, phase'[t] \in {"pending", "accepting"} PROVE worker'[t] = "none"
  BY <1>0, <1>1, <1>2, <1>3 DEF MessagesInv, Alive, Serving
<1>4. CASE CountMessage(s) \/ Receive(s) \/ ReceiveFails(s)
  <2>1. UNCHANGED <<sent, routed, totalUnrouted>>
    BY <1>4 DEF CountMessage, Receive, ReceiveFails, peerVars, countVars
  <2>2. RoutedMessages' = RoutedMessages /\ Unmatched' = Unmatched
    BY <2>1, SameMessages
  <2>3. CASE CountMessage(s)
    <3>1. worker[s] = "count" /\ worker' = [worker EXCEPT ![s] = "receive"]
          /\ totalMessages' = totalMessages + 1
      BY <2>3 DEF CountMessage
    <3>2. /\ Cardinality(WaitingWorkers') = Cardinality(WaitingWorkers) + 1
          /\ Cardinality(CountedWorkers') = Cardinality(CountedWorkers) + 1
      <4>1. /\ Cardinality(WaitingWorkers')
                 = Cardinality(WaitingWorkers) + Waits("receive") - Waits("count")
            /\ Cardinality(CountedWorkers')
                 = Cardinality(CountedWorkers) + Counts("receive") - Counts("count")
        BY <3>1, WorkerMoves, WaitsAndCounts
      <4> QED
        BY <4>1, <1>0, WaitsAndCounts
    <3> QED
      BY <1>0, <1>3, <2>1, <2>2, <3>1, <3>2 DEF MessagesInv
  <2>4. CASE Receive(s)
    <3>1. worker[s] = "receive" /\ worker' = [worker EXCEPT ![s] = "route"]
          /\ totalMessages' = totalMessages
      BY <2>4 DEF Receive, countVars
    <3>2. /\ Cardinality(WaitingWorkers') = Cardinality(WaitingWorkers)
          /\ Cardinality(CountedWorkers') = Cardinality(CountedWorkers)
      <4>1. /\ Cardinality(WaitingWorkers')
                 = Cardinality(WaitingWorkers) + Waits("route") - Waits("receive")
            /\ Cardinality(CountedWorkers')
                 = Cardinality(CountedWorkers) + Counts("route") - Counts("receive")
        BY <3>1, WorkerMoves, WaitsAndCounts
      <4> QED
        BY <4>1, <1>0, WaitsAndCounts
    <3> QED
      BY <1>0, <1>3, <2>1, <2>2, <3>1, <3>2 DEF MessagesInv
  <2>5. CASE ReceiveFails(s)
    <3>1. worker[s] = "receive" /\ worker' = [worker EXCEPT ![s] = "failed"]
          /\ totalMessages' = totalMessages
      BY <2>5 DEF ReceiveFails, Fail, countVars
    <3>2. /\ Cardinality(WaitingWorkers') = Cardinality(WaitingWorkers) - 1
          /\ Cardinality(CountedWorkers') = Cardinality(CountedWorkers)
      <4>1. /\ Cardinality(WaitingWorkers')
                 = Cardinality(WaitingWorkers) + Waits("failed") - Waits("receive")
            /\ Cardinality(CountedWorkers')
                 = Cardinality(CountedWorkers) + Counts("failed") - Counts("receive")
        BY <3>1, WorkerMoves, WaitsAndCounts
      <4> QED
        BY <4>1, <1>0, WaitsAndCounts
    <3> QED
      BY <1>0, <1>3, <2>1, <2>2, <3>1, <3>2 DEF MessagesInv
  <2> QED
    BY <1>4, <2>3, <2>4, <2>5
<1>5. CASE RouteAgain(s) \/ RouteMatched(s) \/ RouteUnmatched(s)
  <2>1. /\ worker[s] = "route"
        /\ UNCHANGED <<sent, totalMessages>>
        /\ routed' = [routed EXCEPT ![s] = @ + 1]
        /\ \E w \in {"count", "failed"} : worker' = [worker EXCEPT ![s] = w]
    BY <1>5 DEF RouteAgain, RouteMatched, RouteUnmatched, Loop, Fail, peerVars, countVars
  <2>2. PICK w \in {"count", "failed"} : worker' = [worker EXCEPT ![s] = w]
    BY <2>1
  <2> DEFINE r == <<s, routed[s] + 1>>
  <2>3. /\ r \notin RoutedMessages
        /\ RoutedMessages' = RoutedMessages \cup {r}
        /\ Route(Current(s)) = "unmatched" => Unmatched' = Unmatched \cup {r}
        /\ Route(Current(s)) # "unmatched" => Unmatched' = Unmatched
    BY <2>1, OneRouted
  <2>4. /\ IsFiniteSet(RoutedMessages')
        /\ Cardinality(RoutedMessages') = Cardinality(RoutedMessages) + 1
    BY <2>3, <1>0, FS_AddElement
  <2>5. totalUnrouted' = Cardinality(Unmatched')
    <3>1. CASE RouteUnmatched(s)
      <4>1. r \notin Unmatched
        BY <2>3 DEF Unmatched
      <4>2. Unmatched' = Unmatched \cup {r} /\ totalUnrouted' = totalUnrouted + 1
        BY <3>1, <2>3 DEF RouteUnmatched
      <4> QED
        BY <4>1, <4>2, <1>0, FS_AddElement DEF MessagesInv
    <3>2. CASE RouteMatched(s)
      BY <3>2, <2>3 DEF RouteMatched, MessagesInv, countVars
    <3>3. CASE RouteAgain(s)
      <4>1. cache[s] = <<Current(s)>>
        BY <3>3 DEF RouteAgain, IsAgain
      <4>2. Route(Current(s)) # "unmatched"
        BY <4>1 DEF CacheInv
      <4> QED
        BY <3>3, <4>2, <2>3 DEF RouteAgain, MessagesInv, countVars
    <3> QED
      BY <1>5, <3>1, <3>2, <3>3
  <2>6. /\ Cardinality(WaitingWorkers') = Cardinality(WaitingWorkers) - 1
        /\ Cardinality(CountedWorkers') \in {Cardinality(CountedWorkers) - 1, Cardinality(CountedWorkers)}
    <3>1. /\ Cardinality(WaitingWorkers') = Cardinality(WaitingWorkers) + Waits(w) - Waits("route")
          /\ Cardinality(CountedWorkers') = Cardinality(CountedWorkers) + Counts(w) - Counts("route")
      BY <2>1, <2>2, WorkerMoves, WaitsAndCounts, ZenonT(40)
    <3> QED
      BY <3>1, <1>0, WaitsAndCounts
  <2> QED
    BY <1>0, <1>3, <2>1, <2>4, <2>5, <2>6 DEF MessagesInv
<1>6. CASE Send(s)
  <2>1. PICK m \in Messages : sent' = [sent EXCEPT ![s] = Append(@, m)]
    BY <1>6 DEF Send
  <2>2. sent \in [Sessions -> Seq(Messages)]
    BY DEF RouterInv, RouterTypes
  <2>3. \A t \in Sessions : \A n \in 1 .. Len(sent[t]) : sent'[t][n] = sent[t][n]
    BY <2>1, <2>2
  <2>4. UNCHANGED <<worker, routed, totalMessages, totalUnrouted>>
    BY <1>6 DEF Send, workerVars, countVars
  <2>5. RoutedMessages' = RoutedMessages /\ Unmatched' = Unmatched
    BY <2>3, <2>4, SameMessages
  <2> QED
    BY <1>1, <2>4, <2>5 DEF MessagesInv, WaitingWorkers, CountedWorkers
<1> QED
  BY <1>4, <1>5, <1>6 DEF Worker

LEMMA MessagesInitially == SessionInit => MessagesInv
<1> SUFFICES ASSUME SessionInit PROVE MessagesInv
  OBVIOUS
<1>1. RoutedMessages = {} /\ Unmatched = {}
  BY DEF SessionInit, RoutedMessages, Unmatched
<1>2. WaitingWorkers = {} /\ CountedWorkers = {}
  BY DEF SessionInit, WaitingWorkers, CountedWorkers
<1> QED
  BY <1>1, <1>2, FS_EmptySet DEF SessionInit, MessagesInv

LEMMA MessagesStep == RouterInv /\ CacheInv /\ MessagesInv /\ [SessionNext]_sessionVars => MessagesInv'
<1> SUFFICES ASSUME RouterInv, CacheInv, MessagesInv, [SessionNext]_sessionVars PROVE MessagesInv'
  OBVIOUS
<1>1. CASE UNCHANGED sessionVars
  BY <1>1 DEF sessionVars, threadVars, workerVars, peerVars, countVars, MessagesInv,
              RoutedMessages, Unmatched, WaitingWorkers, CountedWorkers
<1>2. CASE SessionNext
  BY <1>2, MessagesThread, MessagesWorker DEF SessionNext, Peer
<1> QED
  BY <1>1, <1>2

(* Every unmatched message is counted once, whatever was replayed.          *)
THEOREM MessagesCorrect == SessionSpec => []UnroutedAccounted
<1>1. MessagesInv => UnroutedAccounted
  BY DEF MessagesInv, UnroutedAccounted
<1> QED
  BY <1>1, RouterInvariant, MessagesInitially, MessagesStep, PTL DEF SessionSpec

(* The messages counted are ahead of those routed, by one for each session  *)
(* whose worker waits for a message: it was counted before it came.         *)
THEOREM MessagesAhead ==
  SessionSpec => []( Cardinality(RoutedMessages) + Cardinality(WaitingWorkers)
                       <= totalMessages )
<1>1. MessagesInv => Cardinality(RoutedMessages) + Cardinality(WaitingWorkers)
                       <= totalMessages
  BY DEF MessagesInv
<1> QED
  BY <1>1, RouterInvariant, MessagesInitially, MessagesStep, PTL DEF SessionSpec
-----------------------------------------------------------------------------
(* The messages in their queues: ranks.                                     *)

(* A message more is in the set of its queue, and of no other.              *)
LEMMA OneMoreOfQueue ==
  ASSUME NEW messages, NEW q, NEW n \in Nat
  PROVE  /\ IsFiniteSet(OfQueue(messages, q, n)) /\ Rank(messages, q, n) \in Nat
         /\ Route(messages[n + 1]) = q =>
              Rank(messages, q, n + 1) = Rank(messages, q, n) + 1
         /\ Route(messages[n + 1]) # q =>
              /\ OfQueue(messages, q, n + 1) = OfQueue(messages, q, n)
              /\ Rank(messages, q, n + 1) = Rank(messages, q, n)
         /\ OfQueue(messages, q, n + 1) \subseteq OfQueue(messages, q, n) \cup {n + 1}
<1>1. IsFiniteSet(OfQueue(messages, q, n))
  <2>1. IsFiniteSet(1 .. n)
    BY FS_Interval
  <2>2. OfQueue(messages, q, n) \subseteq 1 .. n
    BY DEF OfQueue
  <2> QED
    BY <2>1, <2>2, FS_Subset
<1>2. Rank(messages, q, n) \in Nat
  BY <1>1, FS_CardinalityType DEF Rank
<1>3. 1 .. n + 1 = (1 .. n) \cup {n + 1} /\ n + 1 \notin 1 .. n
  OBVIOUS
<1>4. ASSUME Route(messages[n + 1]) = q
      PROVE  Rank(messages, q, n + 1) = Rank(messages, q, n) + 1
  <2>1. OfQueue(messages, q, n + 1) = OfQueue(messages, q, n) \cup {n + 1}
    BY <1>3, <1>4 DEF OfQueue
  <2>2. n + 1 \notin OfQueue(messages, q, n)
    BY <1>3 DEF OfQueue
  <2> QED
    BY <1>1, <2>1, <2>2, FS_AddElement DEF Rank
<1>5. ASSUME Route(messages[n + 1]) # q
      PROVE  OfQueue(messages, q, n + 1) = OfQueue(messages, q, n)
  BY <1>3, <1>5 DEF OfQueue
<1>6. OfQueue(messages, q, n + 1) \subseteq OfQueue(messages, q, n) \cup {n + 1}
  BY <1>3 DEF OfQueue
<1> QED
  BY <1>1, <1>2, <1>4, <1>5, <1>6 DEF Rank

(* The rank of a message is no more than the number of them.                *)
LEMMA RankBounded ==
  ASSUME NEW messages, NEW q, NEW n \in Nat, NEW i \in OfQueue(messages, q, n)
  PROVE  Rank(messages, q, i) \in 1 .. Rank(messages, q, n)
<1>1. i \in 1 .. n /\ i \in OfQueue(messages, q, i)
  BY DEF OfQueue
<1>2. OfQueue(messages, q, i) \subseteq OfQueue(messages, q, n)
  BY <1>1 DEF OfQueue
<1>3. /\ IsFiniteSet(OfQueue(messages, q, n)) /\ IsFiniteSet(OfQueue(messages, q, i))
      /\ Rank(messages, q, n) \in Nat /\ Rank(messages, q, i) \in Nat
  BY <1>1, OneMoreOfQueue
<1>4. Rank(messages, q, i) <= Rank(messages, q, n)
  BY <1>2, <1>3, FS_Subset DEF Rank
<1>5. Rank(messages, q, i) # 0
  BY <1>1, <1>3, FS_EmptySet DEF Rank
<1> QED
  BY <1>3, <1>4, <1>5

InItsQueue(messages, n, q, queue) ==
  /\ Len(queue) = Rank(messages, q, n)
  /\ \A i \in OfQueue(messages, q, n) : queue[Rank(messages, q, i)] = messages[i]

(* The next message is written to its queue, and not to another.            *)
LEMMA WrittenToItsQueue ==
  ASSUME NEW S, NEW messages, NEW n \in Nat, NEW q, NEW queue \in Seq(S),
         InItsQueue(messages, n, q, queue), messages[n + 1] \in S
  PROVE  /\ Route(messages[n + 1]) = q =>
              InItsQueue(messages, n + 1, q, Append(queue, messages[n + 1]))
         /\ Route(messages[n + 1]) # q => InItsQueue(messages, n + 1, q, queue)
<1> DEFINE m == messages[n + 1]
           longer == Append(queue, m)
<1>1. /\ Len(longer) = Len(queue) + 1 /\ Len(queue) \in Nat
      /\ \A k \in 1 .. Len(queue) : longer[k] = queue[k]
      /\ longer[Len(queue) + 1] = m
  OBVIOUS
<1> HIDE DEF longer
<1>2. ASSUME Route(m) = q PROVE InItsQueue(messages, n + 1, q, longer)
  <2>1. Rank(messages, q, n + 1) = Rank(messages, q, n) + 1
    BY <1>2, OneMoreOfQueue
  <2>2. Len(longer) = Rank(messages, q, n + 1)
    BY <1>1, <2>1 DEF InItsQueue
  <2>3. ASSUME NEW i \in OfQueue(messages, q, n + 1)
        PROVE  longer[Rank(messages, q, i)] = messages[i]
    <3>1. CASE i = n + 1
      BY <1>1, <2>1, <3>1 DEF InItsQueue
    <3>2. CASE i \in OfQueue(messages, q, n)
      <4>1. Rank(messages, q, i) \in 1 .. Len(queue)
        BY <3>2, RankBounded DEF InItsQueue
      <4> QED
        BY <1>1, <3>2, <4>1 DEF InItsQueue
    <3> QED
      BY <3>1, <3>2, OneMoreOfQueue
  <2> QED
    BY <2>2, <2>3 DEF InItsQueue
<1>3. ASSUME Route(m) # q PROVE InItsQueue(messages, n + 1, q, queue)
  BY <1>3, OneMoreOfQueue DEF InItsQueue
<1> QED
  BY <1>2, <1>3 DEF longer

(* What is sent later does not matter.                                      *)
LEMMA SentLater ==
  ASSUME NEW S, NEW messages \in Seq(S), NEW m \in S, NEW n \in Nat, n <= Len(messages),
         NEW q, NEW queue, InItsQueue(messages, n, q, queue)
  PROVE  InItsQueue(Append(messages, m), n, q, queue)
<1> DEFINE longer == Append(messages, m)
<1>1. \A i \in 1 .. n : longer[i] = messages[i]
  OBVIOUS
<1> HIDE DEF longer
<1>2. ASSUME NEW i \in Nat, i <= n
      PROVE  /\ OfQueue(longer, q, i) = OfQueue(messages, q, i)
             /\ Rank(longer, q, i) = Rank(messages, q, i)
  <2>1. OfQueue(longer, q, i) = OfQueue(messages, q, i)
    BY <1>1, <1>2 DEF OfQueue
  <2> QED
    BY <2>1 DEF Rank
<1>3. \A i \in OfQueue(messages, q, n) : i \in Nat /\ i <= n /\ longer[i] = messages[i]
  BY <1>1 DEF OfQueue
<1>4. InItsQueue(longer, n, q, queue)
  BY <1>2, <1>3 DEF InItsQueue
<1> QED
  BY <1>4 DEF longer

LEMMA RoutedStep ==
  RouterInv /\ CacheInv /\ RoutedInOrder /\ [SessionNext]_sessionVars => RoutedInOrder'
<1> SUFFICES ASSUME RouterInv, CacheInv, RoutedInOrder, [SessionNext]_sessionVars,
                    NEW t \in Sessions, NEW q \in Queues
             PROVE  InItsQueue(sent'[t], routed'[t], q, queues'[t][q])
  BY DEF RoutedInOrder, InItsQueue
<1> USE DEF RouterInv, RouterTypes
<1>1. InItsQueue(sent[t], routed[t], q, queues[t][q])
  BY DEF RoutedInOrder, InItsQueue
<1>2. CASE UNCHANGED <<sent, routed, queues>>
  BY <1>1, <1>2
<1>3. ASSUME NEW s \in Sessions, Send(s) PROVE InItsQueue(sent'[t], routed'[t], q, queues'[t][q])
  <2>1. PICK m \in Messages : sent' = [sent EXCEPT ![s] = Append(@, m)]
    BY <1>3 DEF Send
  <2>2. UNCHANGED <<routed, queues>>
    BY <1>3 DEF Send, workerVars
  <2>3. routed[t] \in Nat /\ routed[t] <= Len(sent[t]) /\ sent[t] \in Seq(Messages)
    BY DEF InBounds
  <2>4. sent'[t] = sent[t] \/ sent'[t] = Append(sent[t], m)
    BY <2>1
  <2>5. InItsQueue(Append(sent[t], m), routed[t], q, queues[t][q])
    BY <1>1, <2>3, SentLater
  <2> QED
    BY <1>1, <2>2, <2>4, <2>5
<1>4. ASSUME NEW s \in Sessions, RouteAgain(s) \/ RouteMatched(s) \/ RouteUnmatched(s)
      PROVE  InItsQueue(sent'[t], routed'[t], q, queues'[t][q])
  <2>1. sent' = sent /\ routed' = [routed EXCEPT ![s] = @ + 1] /\ worker[s] = "route"
    BY <1>4 DEF RouteAgain, RouteMatched, RouteUnmatched, Loop, peerVars
  <2>2. CASE t # s
    <3>1. routed'[t] = routed[t]
      BY <2>1, <2>2
    <3>2. queues'[t] = queues[t]
      BY <1>4, <2>2 DEF RouteAgain, RouteMatched, RouteUnmatched, Pushed
    <3> QED
      BY <1>1, <2>1, <3>1, <3>2
  <2>3. CASE t = s
    <3> DEFINE m == sent[s][routed[s] + 1]
    <3>1. m = Current(s) /\ m \in Messages
      BY <2>1, RouteTypes DEF Current
    <3>2. routed[s] \in Nat /\ queues[s][q] \in Seq(Messages) /\ routed'[s] = routed[s] + 1
      BY <2>1
    <3>3. /\ Route(m) = q =>
               InItsQueue(sent[s], routed[s] + 1, q, Append(queues[s][q], m))
          /\ Route(m) # q => InItsQueue(sent[s], routed[s] + 1, q, queues[s][q])
      BY <1>1, <2>3, <3>1, <3>2, WrittenToItsQueue
    <3>4. CASE RouteUnmatched(s)
      <4>1. Route(m) # q /\ queues' = queues
        BY <3>1, <3>4 DEF RouteUnmatched, Queues
      <4> QED
        BY <2>1, <2>3, <3>2, <3>3, <4>1
    <3>5. CASE RouteAgain(s) \/ RouteMatched(s)
      <4>1. queues' = Pushed(s, m)
        <5>1. RouteAgain(s) => Head(cache[s]) = m
          BY <3>1 DEF RouteAgain, IsAgain
        <5> QED
          BY <3>1, <3>5, <5>1 DEF RouteAgain, RouteMatched
      <4>2. Route(m) \in Queues
        <5>1. Route(m) # "unmatched"
          <6>1. CASE RouteAgain(s)
            <7>1. cache[s] = <<m>>
              BY <3>1, <6>1 DEF RouteAgain, IsAgain
            <7>2. cache[s] # <<>> /\ Head(cache[s]) = m
              BY <7>1
            <7> QED
              BY <7>2 DEF CacheInv
          <6>2. CASE RouteMatched(s)
            BY <3>1, <6>2 DEF RouteMatched
          <6> QED
            BY <3>5, <6>1, <6>2
        <5> QED
          BY <5>1 DEF Route, Queues
      <4>3. queues'[s] = [queues[s] EXCEPT ![Route(m)] = Append(@, m)]
        BY <4>1 DEF Pushed
      <4>4. /\ Route(m) = q => queues'[s][q] = Append(queues[s][q], m)
            /\ Route(m) # q => queues'[s][q] = queues[s][q]
        BY <4>2, <4>3
      <4> QED
        BY <2>1, <2>3, <3>2, <3>3, <4>4
    <3> QED
      BY <1>4, <3>4, <3>5
  <2> QED
    BY <2>2, <2>3
<1> QED
  BY <1>2, <1>3, <1>4 DEF SessionNext, sessionVars, Thread, ConnectionFails, Worker, Peer, RegisterSession,
     Accept, AcceptFails, OnConnectionFailure, Unwind, RecordDuration, DecrementGauge,
     OnWorkerException, CancelWorker, CountMessage, Receive, ReceiveFails, Fail, Leave, Break,
     workerVars, peerVars

(* Each message goes to the queue of its method, once and in the order of   *)
(* the client, for any interleaving of its coming, its routing and the end  *)
(* of the session, and whichever messages are replayed from the cache.      *)
THEOREM RoutedCorrect == SessionSpec => []RoutedInOrder
<1>1. ASSUME SessionInit PROVE RoutedInOrder
  <2> SUFFICES ASSUME NEW s \in Sessions, NEW q \in Queues
               PROVE  InItsQueue(sent[s], routed[s], q, queues[s][q])
    BY DEF RoutedInOrder, InItsQueue
  <2>1. routed[s] = 0 /\ queues[s][q] = <<>>
    BY <1>1 DEF SessionInit
  <2>2. OfQueue(sent[s], q, 0) = {}
    BY DEF OfQueue
  <2> QED
    BY <2>1, <2>2, FS_EmptySet DEF InItsQueue, Rank
<1> QED
  BY <1>1, RouterInvariant, RoutedStep, PTL DEF SessionSpec
=============================================================================
