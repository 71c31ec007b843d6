---------------------------- MODULE MCIpcConnect ----------------------------
(* Instances of IpcConnect for TLC. *)
EXTENDS IpcConnect, TLC

\* Application threads are interchangeable.
ThreadSymmetry == Permutations(Threads)
=============================================================================
