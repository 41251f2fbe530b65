---------------------------- MODULE MCThreadPool ----------------------------
(* ThreadPool on small sets of workers, clients and tasks. *)
EXTENDS ThreadPool, TLC
=============================================================================
