---------------------------- MODULE MCShareImport ----------------------------
(* One message, one member or guild row, two publications.                 *)
EXTENDS ShareImport
=============================================================================
