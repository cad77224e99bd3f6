------------------------------- MODULE Debouncer -------------------------------
(***************************************************************************)
(* The debouncer of health updates (server/src/Ogmios/Control/             *)
(* MonadClock.hs, withDebouncer): a lock that whoever runs the action      *)
(* takes, and that a background thread gives back every `Delay' units of   *)
(* time.  A call that finds the lock taken does nothing.                   *)
(*                                                                         *)
(* Time is discrete, and only measured as far as `Delay'.                  *)
(***************************************************************************)
EXTENDS Naturals

CONSTANT Delay

ASSUME DebouncerAssumption == Delay \in Nat \ {0}

VARIABLES
  lock,        \* whether the lock is there to be taken, or the TMVar empty
  slept,       \* time since the background thread last gave it back
  sinceLast,   \* time since the action last started, and since it started
  sincePrior   \* the time before: `Delay' when it did not, or is longer ago

debouncerVars == <<lock, slept, sinceLast, sincePrior>>

Later(t) == IF t < Delay THEN t + 1 ELSE Delay

-----------------------------------------------------------------------------
(* An operator ...Faulty is a wrong version of the next one.                *)

(* threadDelay is over, and putTMVar does not block.                        *)
MayReleaseFaulty == lock = "empty"
MayRelease == slept = Delay /\ lock = "empty"

(* tryTakeTMVar.                                                            *)
MayRun == lock = "there"

DebouncerInit ==
  /\ lock = "there"
  /\ slept = 0
  /\ sinceLast = Delay
  /\ sincePrior = Delay

(* The debounced action starts.                                             *)
Run ==
  /\ MayRun
  /\ lock' = "empty"
  /\ sinceLast' = 0
  /\ sincePrior' = sinceLast
  /\ UNCHANGED slept

(* The background thread gives the lock back.                               *)
Release ==
  /\ MayRelease
  /\ lock' = "there"
  /\ slept' = 0
  /\ UNCHANGED <<sinceLast, sincePrior>>

Elapse ==
  /\ slept' = Later(slept)
  /\ sinceLast' = Later(sinceLast)
  /\ sincePrior' = Later(sincePrior)
  /\ UNCHANGED lock

DebouncerNext == Run \/ Release \/ Elapse
DebouncerSpec == DebouncerInit /\ [][DebouncerNext]_debouncerVars
-----------------------------------------------------------------------------
(* What the lock makes sure of: in any `Delay' units of time the action     *)
(* starts at most twice.  Not once: the background thread, if it waits to   *)
(* give back a lock nobody took, does so right after it is taken.           *)
TwicePerDelay == [][Run => sincePrior = Delay]_debouncerVars

(* "Run an action, but no more than once every chosen interval of time."    *)
(* (server/src/Ogmios/Control/MonadClock.hs:100): it only starts when it    *)
(* last started `Delay' ago or longer.                                      *)
OncePerDelay == [][Run => sinceLast = Delay]_debouncerVars
=============================================================================
