---------------------------- MODULE MCEventLoop -----------------------------
(* EventLoop on small sets of threads, tasks and timers. *)
EXTENDS EventLoop, TLC

CONSTANTS loop, other, client

\* The loop's thread, and one or two that only call it.
OneRunner  == {loop}
OneClient  == {loop, client}
TwoClients == {loop, client, other}
=============================================================================
