------------------------------ MODULE PcmQueue ------------------------------
(***************************************************************************)
(* What the ring buffer promises the two threads at its ends: a bounded     *)
(* queue.  What was put is got in the order it was put, each item once.     *)
(* Clearing empties it, except that a clear in the middle of a put may      *)
(* leave anything behind once the put is done.                              *)
(***************************************************************************)
EXTENDS Naturals, Sequences

CONSTANTS Items, Size

VARIABLES
  queue,    \* what is in the queue
  pending,  \* what a put under way adds to it
  spoilt    \* whether that put has been overtaken by a clear

vars == <<queue, pending, spoilt>>

Init == queue = <<>> /\ pending = <<>> /\ spoilt = FALSE

Start == /\ pending = <<>>
         /\ pending' \in Seq(Items) /\ pending' # <<>>
         /\ Len(queue) + Len(pending') <= Size
         /\ UNCHANGED <<queue, spoilt>>

Put == /\ pending # <<>> /\ ~spoilt
       /\ queue' = queue \o pending
       /\ pending' = <<>> /\ UNCHANGED spoilt

PutSpoilt == /\ spoilt
             /\ queue' \in Seq(Items) /\ Len(queue') <= Size
             /\ pending' = <<>> /\ spoilt' = FALSE

Get == /\ \E n \in 1 .. Len(queue) : queue' = SubSeq(queue, n + 1, Len(queue))
       /\ UNCHANGED <<pending, spoilt>>

Clear == /\ queue' = <<>>
         /\ spoilt' \in {FALSE, pending # <<>>}
         /\ UNCHANGED pending

Next == Start \/ Put \/ PutSpoilt \/ Get \/ Clear

Spec == Init /\ [][Next]_vars
=============================================================================
