-------------------------- MODULE MCPlaylistManager --------------------------
(* Three tracks, and lists of up to three, so that a track may be in twice. *)
EXTENDS PlaylistManager
===============================================================================
