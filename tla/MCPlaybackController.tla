------------------------- MODULE MCPlaybackController -------------------------
(* Two sources: the first has a and b, of which b names no source, so that  *)
(* the current provider is asked for it; c is found by a search.            *)
EXTENDS PlaybackController, TLC

CONSTANTS a, b, c, s1, s2

MCSourceOf == (a :> s1) @@ (b :> NoSource) @@ (c :> s2)
MCOneSourceOf == (a :> s1) @@ (b :> s1)
OnDisk(ts) == SelectSeq(ts, LAMBDA t : t \in Downloaded)
Lists(ts) == (TRUE :> ts) @@ (FALSE :> OnDisk(ts))
MCOneLibrary == (s1 :> Lists(<<a, b>>)) @@ (NoSource :> Lists(<<>>))
MCLibrary == (s1 :> Lists(<<a, b>>)) @@ (s2 :> Lists(<<>>)) @@ (NoSource :> Lists(<<>>))
===============================================================================
