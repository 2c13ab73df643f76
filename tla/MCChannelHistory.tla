-------------------------- MODULE MCChannelHistory --------------------------
(* ChannelHistory on pages of one or two messages.                         *)
EXTENDS ChannelHistory
=============================================================================
