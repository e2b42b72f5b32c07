----------------------------- MODULE MCFastSet ------------------------------
(* The instance of FastSet for TLC.                                         *)
EXTENDS FastSet

TwoIds == {"merged", "packet"}
=============================================================================
