---------------------------- MODULE MCMemberSync ----------------------------
(* Instances of MemberSync for TLC. *)
EXTENDS MemberSync
=============================================================================
