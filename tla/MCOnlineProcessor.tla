-------------------------- MODULE MCOnlineProcessor --------------------------
(* Instances of OnlineProcessor for TLC.                                   *)
EXTENDS OnlineProcessor, TLC

(* Workers are interchangeable; sound for the invariants.                  *)
WorkerSymmetry == Permutations(Workers)
=============================================================================
