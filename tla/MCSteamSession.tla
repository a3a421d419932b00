--------------------------- MODULE MCSteamSession ---------------------------
EXTENDS SteamSession, TLC

(* Two calls of the start, or the group, its room and a click in it.       *)
AppCalls == <<{"contacts", "houses"}, {"contacts", "house"}, {"room"}>>
=============================================================================
