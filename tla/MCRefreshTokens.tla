---------------------------- MODULE MCRefreshTokens ----------------------------
(* Small instances of RefreshTokens for TLC. *)
EXTENDS RefreshTokens
=============================================================================
