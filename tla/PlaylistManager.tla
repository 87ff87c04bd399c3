--------------------------- MODULE PlaylistManager ---------------------------
(***************************************************************************)
(* core/playlist/PlaylistManager: the track list, the order it is played in *)
(* (a queue of positions in that list, shuffled or not), the place in that  *)
(* queue and the track that is playing, which need not be in the list.      *)
(*                                                                         *)
(* Every method takes the mutex for its whole effect and is one action;     *)
(* positions count from 1 here and from 0 there.  A track is its id.  The   *)
(* callback OnTrackRequested, called after the lock is released, gets the   *)
(* track the method has just made active.                                   *)
(***************************************************************************)
EXTENDS Integers, SequencesExt

CONSTANTS
  Ids, NoTrack,   \* track ids; NoTrack: an empty id
  MaxTracks       \* bound: the list is not extended beyond it

ASSUME PlaylistAssumption ==
  /\ NoTrack \notin Ids
  /\ MaxTracks \in Nat

VARIABLES
  tracks,   \* m_tracks
  queue,    \* m_playQueue
  index,    \* m_queueIndex
  active,   \* m_activeTrack
  shuffle,  \* m_isShuffle
  repeat    \* m_repeatMode

vars == <<tracks, queue, index, active, shuffle, repeat>>

Modes == {"None", "All", "One"}

Init == /\ tracks = <<>> /\ queue = <<>> /\ index = 1 /\ active = NoTrack
        /\ shuffle = FALSE /\ repeat = "All"

-----------------------------------------------------------------------------
(* Queues and places. *)

Identity(n) == [i \in 1 .. n |-> i]

\* What std::shuffle may make of n positions.
Orders(n) == Injection(1 .. n, 1 .. n)

\* std::find: the first place of x in s, if it is there at all.
FirstAt(s, x) == CHOOSE i \in DOMAIN s : s[i] = x /\ \A j \in 1 .. (i - 1) : s[j] # x

\* The track at the place in the queue.
Here == tracks[queue[index]]

\* The playing track is not, or no longer, in the list.
External == active # NoTrack /\ active \notin Range(tracks)

\* m_playQueue[k], which the code reads without a check: beyond the end, what
\* memory holds there, a position in the list or (all others being alike) none.
ReadQueue(k) == IF k \in 1 .. Len(queue) THEN {queue[k]} ELSE 1 .. (MaxTracks + 1)

\* RebuildQueue: the queue of n tracks, perhaps with the track at position
\* cur, what it read at the place, in front of a shuffled queue.
Rebuilt(n, shuffled, keep, cur) ==
  IF shuffled
    THEN {[queue |-> p, index |-> 1] :
            p \in {o \in Orders(n) : keep /\ cur <= n => o[1] = cur}}
    ELSE {[queue |-> Identity(n), index |-> IF keep THEN cur ELSE 1]}

\* The three members that change together when the list is edited.
List == [tracks |-> tracks, queue |-> queue, index |-> index]
Becomes(l) == tracks' = l.tracks /\ queue' = l.queue /\ index' = l.index

-----------------------------------------------------------------------------
(* Editing the list. *)

AddTrack(t) ==
  /\ Len(tracks) < MaxTracks
  /\ tracks' = Append(tracks, t)
  /\ queue' = Append(queue, Len(tracks) + 1)
  /\ UNCHANGED <<index, active, shuffle, repeat>>

\* InsertTrack: a shuffled queue gets the new track at its end.
Inserted(l, position, t) ==
  LET k == IF position > Len(l.tracks) THEN Len(l.tracks) + 1 ELSE position
      up == [j \in DOMAIN l.queue |-> IF l.queue[j] >= k THEN l.queue[j] + 1 ELSE l.queue[j]]
  IN  [tracks |-> InsertAt(l.tracks, k, t),
       queue |-> IF shuffle THEN Append(up, k) ELSE InsertAt(up, k, k),
       index |-> IF ~shuffle /\ l.queue # <<>> /\ k <= l.index THEN l.index + 1 ELSE l.index]

InsertTrack(position, t) ==
  /\ Len(tracks) < MaxTracks
  /\ Becomes(Inserted(List, position, t))
  /\ UNCHANGED <<active, shuffle, repeat>>

\* Where the track at position i is once the one at f has gone to t.
Shifted(f, t, i) ==
  IF i = f THEN t
  ELSE IF f < i /\ i <= t THEN i - 1
  ELSE IF t <= i /\ i < f THEN i + 1
  ELSE i

\* MoveTrack: the place follows the id of the track that was there.
Moved(l, f, t) ==
  LET ts == InsertAt(RemoveAt(l.tracks, f), t, l.tracks[f])
      q == IF shuffle THEN [j \in DOMAIN l.queue |-> Shifted(f, t, l.queue[j])]
                      ELSE Identity(Len(l.tracks))
      order == [j \in DOMAIN q |-> ts[q[j]]]
      id == l.tracks[l.queue[l.index]]
  IN  [tracks |-> ts, queue |-> q,
       index |-> IF id \in Range(order) THEN FirstAt(order, id) ELSE l.index]

MoveTrack(f, t) ==
  /\ f # t
  /\ Becomes(Moved(List, f, t))
  /\ UNCHANGED <<active, shuffle, repeat>>

\* Mutant: the place is not clamped to the shorter list.
RemoveTrackMutant(i) ==
  /\ tracks' = RemoveAt(tracks, i)
  /\ IF Len(tracks) = 1
       THEN queue' = <<>> /\ index' = 1
       ELSE \E cur \in ReadQueue(index) :
              \E r \in Rebuilt(Len(tracks) - 1, shuffle, TRUE, cur) :
                queue' = r.queue /\ index' = r.index
  /\ UNCHANGED <<active, shuffle, repeat>>

\* RemoveTrack: the queue is rebuilt for the shorter list, with the position
\* that the current track had in the longer one.
RemoveTrack(i) ==
  /\ tracks' = RemoveAt(tracks, i)
  /\ IF Len(tracks) = 1
       THEN queue' = <<>> /\ index' = 1
       ELSE \E cur \in ReadQueue(index) :
              \E r \in Rebuilt(Len(tracks) - 1, shuffle, TRUE, cur) :
                /\ queue' = r.queue
                /\ index' = IF r.index > Len(tracks) - 1 THEN Len(tracks) - 1 ELSE r.index
  /\ UNCHANGED <<active, shuffle, repeat>>

Clear ==
  /\ tracks' = <<>> /\ queue' = <<>> /\ index' = 1 /\ active' = NoTrack
  /\ UNCHANGED <<shuffle, repeat>>

\* ClearKeepActive: the playing track plays on, outside of the list.
ClearKeepActive ==
  /\ active' = IF active = NoTrack /\ tracks # <<>> THEN Here ELSE active
  /\ tracks' = <<>> /\ queue' = <<>> /\ index' = 1
  /\ UNCHANGED <<shuffle, repeat>>

-----------------------------------------------------------------------------
(* Choosing what to play: the track at the new place becomes active. *)

\* Mutant: wrapping around starts with the second track.
NextTrackMutant ==
  /\ tracks # <<>>
  /\ IF repeat = "One" \/ External
       THEN UNCHANGED <<queue, index>>
       ELSE \/ index < Len(queue) /\ index' = index + 1 /\ queue' = queue
            \/ index >= Len(queue) /\ repeat = "All" /\ ~shuffle
                 /\ index' = (IF Len(queue) > 1 THEN 2 ELSE 1) /\ queue' = queue
            \/ /\ index >= Len(queue) /\ repeat = "All" /\ shuffle
               /\ \E cur \in ReadQueue(index + 1) :
                    \E r \in Rebuilt(Len(tracks), TRUE, FALSE, cur) :
                      queue' = r.queue /\ index' = r.index
  /\ active' = tracks[queue'[index']]
  /\ UNCHANGED <<tracks, shuffle, repeat>>

(***************************************************************************)
(* Next: an external track is followed by the track at the place itself,    *)
(* any other by its successor; at the end the queue starts over, in a new   *)
(* order if it is shuffled, or nothing happens when nothing is repeated.    *)
(* m_queueIndex has been incremented by then, so that RebuildQueue reads    *)
(* m_playQueue one beyond its end.                                          *)
(***************************************************************************)
NextTrack ==
  /\ tracks # <<>>
  /\ IF repeat = "One" \/ External
       THEN UNCHANGED <<queue, index>>
       ELSE \/ index < Len(queue) /\ index' = index + 1 /\ queue' = queue
            \/ index >= Len(queue) /\ repeat = "All" /\ ~shuffle
                 /\ index' = 1 /\ queue' = queue
            \/ /\ index >= Len(queue) /\ repeat = "All" /\ shuffle
               /\ \E cur \in ReadQueue(index + 1) :
                    \E r \in Rebuilt(Len(tracks), TRUE, FALSE, cur) :
                      queue' = r.queue /\ index' = r.index
  /\ active' = tracks[queue'[index']]
  /\ UNCHANGED <<tracks, shuffle, repeat>>

\* PeekNextTrack: what is fetched ahead when a track is near its end.
PeekNextTrack ==
  IF tracks = <<>> THEN NoTrack
  ELSE IF repeat = "One" THEN Here
  ELSE IF index < Len(queue) THEN tracks[queue[index + 1]]
  ELSE IF repeat = "All" THEN tracks[queue[1]]
  ELSE NoTrack

PreviousTrack ==
  /\ tracks # <<>>
  /\ index' = IF repeat = "One" \/ External THEN index
              ELSE IF index > 1 THEN index - 1
              ELSE IF repeat = "All" THEN Len(queue) ELSE 1
  /\ active' = tracks[queue[index']]
  /\ UNCHANGED <<tracks, queue, shuffle, repeat>>

JumpTo(i) ==
  /\ i \in Range(queue)
  /\ index' = FirstAt(queue, i)
  /\ active' = tracks[i]
  /\ UNCHANGED <<tracks, queue, shuffle, repeat>>

JumpToQueueIndex(k) ==
  /\ index' = k
  /\ active' = tracks[queue[k]]
  /\ UNCHANGED <<tracks, queue, shuffle, repeat>>

\* Mutant: the track is put in next although it is queued already.
PlayTrackNowMutant(t) ==
  /\ t \notin Range(tracks) => Len(tracks) < MaxTracks
  /\ tracks' = IF t \in Range(tracks) THEN tracks ELSE Append(tracks, t)
  /\ IF queue = <<>>
       THEN queue' = <<FirstAt(tracks', t)>> /\ index' = 1
       ELSE queue' = InsertAt(queue, index + 1, FirstAt(tracks', t)) /\ index' = index + 1
  /\ active' = t
  /\ UNCHANGED <<shuffle, repeat>>

\* PlayTrackNow: the track is played from where it is, or put in next.  The
\* method is public, but its callers have gone over to SetActiveTrack.
PlayTrackNow(t) ==
  /\ t \notin Range(tracks) => Len(tracks) < MaxTracks
  /\ tracks' = IF t \in Range(tracks) THEN tracks ELSE Append(tracks, t)
  /\ LET i == FirstAt(tracks', t) IN
       IF i \in Range(queue)
         THEN queue' = queue /\ index' = FirstAt(queue, i)
         ELSE IF queue = <<>>
                THEN queue' = <<i>> /\ index' = 1
                ELSE queue' = InsertAt(queue, index + 1, i) /\ index' = index + 1
  /\ active' = t
  /\ UNCHANGED <<shuffle, repeat>>

\* SetActiveTrack: a track from a search is played; the place stays.
SetActiveTrack(t) ==
  /\ active' = t
  /\ UNCHANGED <<tracks, queue, index, shuffle, repeat>>

AlignWithActiveTrack ==
  /\ active \in Range(tracks)
  /\ FirstAt(tracks, active) \in Range(queue)
  /\ index' = FirstAt(queue, FirstAt(tracks, active))
  /\ UNCHANGED <<tracks, queue, active, shuffle, repeat>>

-----------------------------------------------------------------------------
(* Shuffle and repeat. *)

\* Mutant: turning shuffle off leaves the shuffled queue in place.
SetShuffleMutant(enable) ==
  /\ enable \/ shuffle
  /\ shuffle' = enable
  /\ IF enable /\ tracks # <<>>
       THEN \E cur \in ReadQueue(index) :
              \E r \in Rebuilt(Len(tracks), TRUE, FALSE, cur) :
                queue' = r.queue /\ index' = 1 /\ active' = tracks[r.queue[1]]
       ELSE index' = 1 /\ UNCHANGED <<queue, active>>
  /\ UNCHANGED <<tracks, repeat>>

\* SetShuffle; ToggleShuffle does the same with the opposite of m_isShuffle.
SetShuffle(enable) ==
  /\ enable \/ shuffle
  /\ shuffle' = enable
  /\ IF tracks # <<>>
       THEN \E cur \in ReadQueue(index) :
              \E r \in Rebuilt(Len(tracks), enable, FALSE, cur) :
                queue' = r.queue /\ index' = 1 /\ active' = tracks[r.queue[1]]
       ELSE index' = 1 /\ UNCHANGED <<queue, active>>
  /\ UNCHANGED <<tracks, repeat>>

\* Mutant: a saved queue is taken whatever its length.
RestoreShuffleQueueMutant(ids) ==
  /\ shuffle' = TRUE
  /\ queue' = [k \in DOMAIN ids |-> FirstAt(tracks, ids[k])]
  /\ UNCHANGED <<tracks, index, active, repeat>>

\* RestoreShuffleQueue: ids is the saved queue without the ids that are no
\* longer in the list, which the code skips.
RestoreShuffleQueue(ids) ==
  /\ shuffle' = TRUE
  /\ IF Len(ids) = Len(tracks)
       THEN queue' = [k \in DOMAIN ids |-> FirstAt(tracks, ids[k])]
       ELSE queue' \in Orders(Len(tracks))
  /\ UNCHANGED <<tracks, index, active, repeat>>

\* The ids of a saved queue that are still known; a queue is saved with each
\* id once as long as no track was added twice.
SavedQueues ==
  {ids \in UNION {[1 .. n -> Range(tracks)] : n \in 0 .. Len(tracks)} : IsInjective(ids)}

ToggleRepeat ==
  /\ repeat' = CASE repeat = "All" -> "One" [] repeat = "One" -> "None" [] OTHER -> "All"
  /\ UNCHANGED <<tracks, queue, index, active, shuffle>>

\* Mutant: the mode read from the configuration is not checked.
SetRepeatModeMutant(mode) ==
  /\ repeat' = mode
  /\ UNCHANGED <<tracks, queue, index, active, shuffle>>

SetRepeatMode(mode) ==
  /\ mode \in Modes
  /\ repeat' = mode
  /\ UNCHANGED <<tracks, queue, index, active, shuffle>>

-----------------------------------------------------------------------------

Edit == \/ \E t \in Ids : AddTrack(t)
        \/ \E position \in 1 .. MaxTracks, t \in Ids : InsertTrack(position, t)
        \/ \E f, t \in 1 .. Len(tracks) : MoveTrack(f, t)

Discard == \/ \E i \in 1 .. Len(tracks) : RemoveTrack(i)
           \/ Clear \/ ClearKeepActive

Choose == \/ NextTrack \/ PreviousTrack
          \/ \E i \in 1 .. Len(tracks) : JumpTo(i)
          \/ \E k \in 1 .. Len(queue) : JumpToQueueIndex(k)
          \/ \E t \in Ids : SetActiveTrack(t)
          \/ AlignWithActiveTrack
          \/ \E t \in Ids : PlayTrackNow(t)

Order == \/ \E enable \in BOOLEAN : SetShuffle(enable)
         \/ \E ids \in SavedQueues : RestoreShuffleQueue(ids)
         \/ ToggleRepeat
         \/ \E mode \in Modes \cup {"unknown"} : SetRepeatMode(mode)

Next == Edit \/ Discard \/ Choose \/ Order

Spec == Init /\ [][Next]_vars

\* A track that plays ends, and then the next one is asked for.
FairSpec == Spec /\ WF_vars(NextTrack)

-----------------------------------------------------------------------------
(* What makes the playlist correct. *)

(* The types of the members of PlaylistManager. *)
TypeOK ==
  /\ tracks \in Seq(Ids) /\ queue \in Seq(Nat) /\ index \in Nat
  /\ active \in Ids \cup {NoTrack} /\ shuffle \in BOOLEAN /\ repeat \in Modes

(* The queue names every track of the list once: no edit, shuffle or        *)
(* restored queue loses a track or plays one twice in a round.              *)
QueueIsPermutation == queue \in Orders(Len(tracks))

(* Every operation leaves the place in the queue, so that the unchecked      *)
(* reads of m_playQueue[m_queueIndex] that the next one begins with are      *)
(* within it, whatever the one read that is not (Next, having incremented   *)
(* m_queueIndex, rebuilds a shuffled queue that starts over) finds beyond   *)
(* its end.                                                                 *)
PlaceInQueue == index >= 1 /\ (tracks # <<>> => index <= Len(queue))

InListOrder == queue = Identity(Len(tracks))

(* Without shuffle the tracks play in the order they are listed in, until   *)
(* PlayTrackNow puts a track in next: no edit or removal, and no way of      *)
(* turning shuffle off, leaves a queue in another order.                    *)
OrderedUnlessShuffled ==
  [][shuffle \/ InListOrder => shuffle' \/ InListOrder' \/ \E t \in Ids : PlayTrackNow(t)]_vars

(* Tracks that arrive or move in the background, as while a library is      *)
(* synchronised, do not change whose turn it is.                            *)
EditKeepsPlace == [][Edit /\ tracks # <<>> => Here' = Here]_vars

(* Next plays what PeekNextTrack had announced, so that the URL fetched     *)
(* ahead is the right one, but after an external track and when a shuffled  *)
(* queue starts over.                                                       *)
NextFollowsPeek ==
  [][/\ NextTrack
     /\ External => repeat = "One"
     /\ shuffle /\ index >= Len(queue) => repeat = "One"
     => active' = PeekNextTrack]_vars

(* When nothing but the end of tracks happens any more and the list is      *)
(* repeated, every track of it plays again and again, shuffled or not.      *)
EveryTrackPlays ==
  \A t \in Ids :
    /\ <>[](repeat = "All" /\ t \in Range(tracks))
    /\ <>[][NextTrack]_vars
    => []<>(active = t)

(* RebuildQueue(keepCurrentTrack = true), as RemoveTrack calls it, keeps    *)
(* the turn of a current track that is not the one removed.                 *)
RemoveKeepsPlace ==
  [][\A i \in 1 .. Len(tracks) :
       RemoveTrack(i) /\ queue[index] # i => Here' = Here]_vars
===============================================================================
