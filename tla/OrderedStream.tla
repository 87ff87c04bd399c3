---------------------------- MODULE OrderedStream ----------------------------
(***************************************************************************)
(* What a network stream promises the audio engine, whatever the protocol  *)
(* behind it: within one generation (one StartDownload or one seek) the     *)
(* pieces of the stream come in strictly ascending order, none twice, the   *)
(* end is announced at most once, and nothing comes after the end.          *)
(***************************************************************************)
EXTENDS Naturals

VARIABLES
  gen,       \* generation of the stream the engine is fed from
  emitted,   \* positions handed over in this generation
  ends       \* how many times the end of this generation was announced

vars == <<gen, emitted, ends>>

Init == gen = 0 /\ emitted = {} /\ ends = 0

\* A new stream, or a seek in the current one; it may turn out to be empty.
Restart == /\ gen' = gen + 1
           /\ emitted' = {}
           /\ ends' \in {0, 1}

\* One or more further pieces, perhaps the last ones.
Emit == /\ ends = 0
        /\ emitted' \in SUBSET Nat
        /\ emitted \subseteq emitted' /\ emitted # emitted'
        /\ \A s \in emitted' \ emitted, t \in emitted : t < s
        /\ ends' \in {0, 1}
        /\ gen' = gen

Finish == ends = 0 /\ ends' = 1 /\ UNCHANGED <<gen, emitted>>

Next == Restart \/ Emit \/ Finish

Spec == Init /\ [][Next]_vars
==============================================================================
