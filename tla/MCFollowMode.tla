---------------------------- MODULE MCFollowMode ----------------------------
(* Small instances of follow mode for TLC. *)
EXTENDS FollowMode
=============================================================================
