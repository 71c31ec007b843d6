---------------------------- MODULE MCIpcClient ----------------------------
(* Instances of IpcClient for TLC. *)
EXTENDS IpcClientProperties, TLC

\* Application threads are interchangeable.
ThreadSymmetry == Permutations(Threads)
=============================================================================
