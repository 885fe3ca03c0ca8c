--------------------------- MODULE SingleWriterLane ---------------------------
(***************************************************************************)
(* The exclusive lane that canonical mutation workers share                *)
(* (canonical_mutation_dispatcher.py, protocol SingleWriterCoordinator).   *)
(* The deployment supplies the coordinator; the protocol asks that         *)
(* try_acquire be atomic and that a permit be retained until release.  It  *)
(* has no lease and no expiry, so neither has the lane.                    *)
(***************************************************************************)
EXTENDS ApprovedPlans

VARIABLE lane   \* the call that holds the permit, or NoCall

LaneInit == lane = NoCall

\* Mutant: a coordinator whose test and set are not one step.
TryAcquireUnguarded(c) == lane' = c

\* try_acquire answers a permit when the lane is free ...
TryAcquire(c) ==
  /\ lane = NoCall
  /\ lane' = c

\* ... and None when it is held, by whatever dispatch.
Busy == lane # NoCall

\* release by the holder of the permit; any other token is an error.
Release(c) ==
  /\ lane = c
  /\ lane' = NoCall
===============================================================================
