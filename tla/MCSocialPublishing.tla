-------------------------- MODULE MCSocialPublishing --------------------------
(* Two messages at a time, so that a yes meets a yes or a no, and three      *)
(* commands: one that prepares the post, one that follows it or one that     *)
(* publishes, and a second click that publishes.                             *)
EXTENDS SocialPublishing, TLC
CONSTANTS m1, m2
MCCommands == 1..3
MCSymmetry == Permutations({m1, m2})
=============================================================================
