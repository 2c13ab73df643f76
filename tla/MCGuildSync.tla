----------------------------- MODULE MCGuildSync -----------------------------
(* Two text channels and a thread of the first. *)
EXTENDS GuildSync, TLC

CONSTANTS p, q, t, w1, w2

MCParents == {p, q}
MCThreads == {t}
MCParentOf == t :> p
MCArchives == {p}
MCOwnerOf == p :> p
MCListOf == t :> p
MCFailureIds == <<p, q, t>>
==============================================================================
