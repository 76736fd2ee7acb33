-------------------------- MODULE MCWorkerProcess --------------------------
(* The worker process on a small instance, for TLC: see                    *)
(* WorkerResources.cfg for the bounds.                                     *)
EXTENDS WorkerProcess
=============================================================================
