-------------------------- MODULE MCNetworkStreamer --------------------------
(* Small instances of NetworkStreamer. *)
EXTENDS NetworkStreamer, TLC

CONSTANTS k1, k2

PL(base, keys) == [base |-> base, keys |-> keys]

\* Mixed plain and encrypted chunks with a key change, one encrypted chunk,
\* and a playlist without chunks.
MCManifests == {PL(1, <<k1, NoKey, k1>>), PL(0, <<k1, k2, NoKey>>),
                PL(2, <<k1>>), PL(0, <<>>)}

\* The beginning and the very end of a direct file.
MCSeekTargets == {0, 2}
==============================================================================
