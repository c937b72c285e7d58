------------------------------ MODULE MCTimers -------------------------------
(* The timers on small sets; the worker threads are interchangeable.       *)
EXTENDS RsvpTimers, TLC

WorkerSymmetry == Permutations(Workers)
=============================================================================
