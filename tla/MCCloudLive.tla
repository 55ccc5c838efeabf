---------------------------- MODULE MCCloudLive -----------------------------
(* One worker that may die and two jobs of either kind, without requests   *)
(* beside create: the jobs settle.                                         *)
EXTENDS CloudRuntime, TLC
CONSTANTS w1, id1
MCJobs == 1..2
MCWorkerId == w1 :> id1
=============================================================================
