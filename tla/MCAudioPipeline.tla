--------------------------- MODULE MCAudioPipeline ---------------------------
(* Two tracks one after the other, of one length. *)
EXTENDS AudioPipeline

F(hls, codec) == [hls |-> hls, codec |-> codec]

\* HLS from one service, files of either format from the others.
MCFormats == {F(TRUE, "aac"), F(FALSE, "mp3")}
MCHlsMp3 == {F(TRUE, "mp3")}
=============================================================================
