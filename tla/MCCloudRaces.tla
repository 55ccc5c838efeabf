---------------------------- MODULE MCCloudRaces ----------------------------
(* Two workers and a request handler on one job of either kind; the second *)
(* worker has no sandbox, so it parks a build that it claims.              *)
EXTENDS CloudRuntime, TLC
CONSTANTS w1, w2, id1, id2
MCJobs == 1..1
MCWorkerId == w1 :> id1 @@ w2 :> id2
MCUnequipped == {<<w2, "build">>}
=============================================================================
