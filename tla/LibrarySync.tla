----------------------------- MODULE LibrarySync -----------------------------
(***************************************************************************)
(* How the list of tracks follows the library of the active source:         *)
(* ApplicationCore's handlers of SourceRouter's signals and of logout, the   *)
(* providers that fetch a library page by page, and what                    *)
(* PlaybackSessionService and the repositories keep in the database.        *)
(*                                                                         *)
(* Signs-in and pages are answered by the network, keychain look-ups by the *)
(* system, each at any later moment; a source's fetch goes on when another  *)
(* source has become active, but its pages are then dropped.  Tracks and    *)
(* queues are written by tasks of a thread pool, which run in any order;    *)
(* everything else happens in the main thread, one handler at a time.       *)
(*                                                                         *)
(* Shuffle is off here, so that the queue is the list.                      *)
(***************************************************************************)
EXTENDS Integers, FiniteSets, Bags, SequencesExt

CONSTANTS
  Services, Offline,  \* what can be the active source
  Ids, NoTrack,
  SourceOf,           \* Track::source
  Library,            \* the user's tracks at each service
  PageSize,           \* 200 in the code, 50 or 100 for some services
  Parallel,           \* services asked for all pages at once (Yandex)
  Twice,              \* services fetched twice after a sign-in (VK, in the TUI)
  Downloaded,         \* tracks that have a file on disk
  MaxFetches,         \* bound: fetches begun
  MaxTurns,           \* bound: changes of source, logouts and ends of the program
  MaxWrites           \* bound: writes that wait for the pool at once

ASSUME LibraryAssumption ==
  /\ Offline \notin Services /\ NoTrack \notin Ids
  /\ SourceOf \in [Ids -> Services]
  /\ Library \in [Services -> Seq(Ids)]
  /\ \A s \in Services : /\ IsInjective(Library[s])
                         /\ \A i \in DOMAIN Library[s] : SourceOf[Library[s][i]] = s
  /\ PageSize \in Nat \ {0} /\ Parallel \subseteq Services /\ Twice \subseteq Services
  /\ Downloaded \subseteq Ids /\ {MaxFetches, MaxTurns, MaxWrites} \subseteq Nat

VARIABLES
  up,        \* the program runs
  source,    \* m_activeSource, to which the router's m_currentProvider belongs
  app,       \* the playlist and the members of ApplicationCore, a record
  disk,      \* the database
  pool,      \* writes handed to the thread pool, a bag
  starts,    \* Start*Service calls of each service that wait for their answer
  leaving,   \* services logged out of while active: a next source is looked for
  fetches,   \* FetchAllUserAudio calls under way and the pages they wait for
  turns, begun,
  seen       \* history: what has reached the list since the last ProviderReady

memory == <<app, starts, leaving, fetches, begun>>
vars == <<up, source, memory, disk, pool, turns, seen>>

NoSession == [track |-> NoTrack, index |-> 0]

\* The list, the place in it, m_activeTrack, m_isPlaybackStarted, m_syncIndex
\* and m_syncExistingIds.
Fresh == [tracks |-> <<>>, place |-> 1, current |-> NoTrack, started |-> FALSE,
          at |-> 0, known |-> {}]

Unseen == [valid |-> FALSE, by |-> {}, got |-> <<>>, mixed |-> FALSE, lost |-> FALSE]

Init ==
  /\ up = FALSE /\ source \in Services /\ app = Fresh
  /\ disk = [rows |-> <<>>, order |-> [s \in Services \cup {Offline} |-> <<>>],
             session |-> [s \in Services \cup {Offline} |-> NoSession]]
  /\ pool = EmptyBag /\ starts = [s \in Services |-> 0] /\ leaving = {} /\ fetches = {}
  /\ turns = 0 /\ begun = 0 /\ seen = Unseen

-----------------------------------------------------------------------------
(* The playlist: PlaylistManager with shuffle off. *)

PL == INSTANCE PlaylistManager
        WITH tracks <- app.tracks, queue <- [i \in DOMAIN app.tracks |-> i],
             index <- app.place, active <- app.current, shuffle <- FALSE,
             repeat <- "All", MaxTracks <- Cardinality(Ids)

ListOf(a) == [tracks |-> a.tracks, queue |-> PL!Identity(Len(a.tracks)), index |-> a.place]
WithList(a, l) == [a EXCEPT !.tracks = l.tracks, !.place = l.index]

\* Mutant: the place in the list is kept when the list is emptied.
ClearedMutant(a) == [a EXCEPT !.tracks = <<>>, !.current = NoTrack]

Cleared(a) == [a EXCEPT !.tracks = <<>>, !.place = 1, !.current = NoTrack]

\* GetCurrentTrack, for a list that is not empty.
Current(a) == IF a.current # NoTrack THEN a.current ELSE a.tracks[a.place]

ClearedButCurrent(a) ==
  [a EXCEPT !.tracks = <<>>, !.place = 1,
            !.current = IF a.tracks = <<>> THEN @ ELSE Current(a)]

\* AlignWithActiveTrack.
Aligned(a) ==
  IF a.current \in Range(a.tracks) THEN [a EXCEPT !.place = PL!FirstAt(a.tracks, a.current)]
  ELSE a

JumpedTo(a, i) == [a EXCEPT !.place = i, !.current = a.tracks[i]]

-----------------------------------------------------------------------------
(* The database. *)

Pooled(tasks) ==
  /\ pool' = pool (+) SetToBag(tasks)
  /\ BagCardinality(pool') <= MaxWrites

SaveTracks(ts) == [kind |-> "tracks", of |-> Offline, ids |-> ts]
SaveQueue(ts, s) == [kind |-> "queue", of |-> s, ids |-> ts]

\* The tracks of ts that are in S, in their order: SELECT ... WHERE.
Kept(ts, S) ==
  LET kept[n \in 0 .. Len(ts)] ==
        IF n = 0 THEN <<>>
        ELSE IF ts[n] \in S THEN Append(kept[n - 1], ts[n]) ELSE kept[n - 1]
  IN  kept[Len(ts)]

Without(ts, S) == Kept(ts, Range(ts) \ S)

\* What a task of the pool writes.  A row of SourceSessions that is there for
\* its queue only is read back as a session at the first track.
Written(d, task) ==
  IF task.kind = "tracks"
    THEN [d EXCEPT !.rows = @ \o Without(task.ids, Range(@))]
    ELSE [d EXCEPT !.order[task.of] = task.ids,
                   !.session[task.of] = IF @ = NoSession THEN [NoSession EXCEPT !.index = 1] ELSE @]

Takes(task) == task \in BagToSet(pool) /\ pool' = pool (-) SetToBag({task})

RunTask ==
  \E task \in BagToSet(pool) :
    /\ Takes(task) /\ disk' = Written(disk, task)
    /\ UNCHANGED <<up, source, memory, turns, seen>>

OfSources(S) == {t \in Ids : SourceOf[t] \in S}

\* The rows of S in the order of ids; each row is taken out once it is found.
Named(ids, S) ==
  LET named[n \in 0 .. Len(ids)] ==
        IF n = 0 THEN <<>>
        ELSE IF ids[n] \in S \ Range(named[n - 1]) THEN Append(named[n - 1], ids[n])
        ELSE named[n - 1]
  IN  named[Len(ids)]

\* LoadTracks: in the order saved for the source, rows it does not name last,
\* in the order of a hash table.
Loaded(d, s) ==
  LET rows == IF s = Offline THEN d.rows ELSE Kept(d.rows, OfSources({s}))
      named == Named(d.order[s], Range(rows))
  IN  IF s = Offline \/ d.order[s] = <<>> THEN {rows}
      ELSE {named \o rest : rest \in SetToSeqs(Range(rows) \ Range(named))}

\* PopulatePlaylistFromStorage; without a network only what has been downloaded.
Populated(a, s, online) ==
  IF a.tracks # <<>> THEN {a}
  ELSE {[a EXCEPT !.tracks = IF online THEN ts ELSE Kept(ts, Downloaded)] :
          ts \in Loaded(disk, s)}

\* SaveSessionState: the place at once, the list by the pool.
SaveSession(a) ==
  IF a.tracks = <<>> THEN UNCHANGED <<disk, pool>>
  ELSE /\ disk' = [disk EXCEPT !.session[source] = [track |-> Current(a), index |-> a.place]]
       /\ Pooled({SaveQueue(a.tracks, source)})

-----------------------------------------------------------------------------
(* Handlers of the router's signals, as functions of app. *)

\* ApplySessionToPlayback: the saved track or, if it is gone, the saved place.
Resumed(a, session) ==
  IF session.track \in Range(a.tracks) THEN JumpedTo(a, PL!FirstAt(a.tracks, session.track))
  ELSE IF session.index \in DOMAIN a.tracks THEN JumpedTo(a, session.index)
  ELSE a

InitPlaylistAndStart(a, s, online) ==
  {IF b.tracks = <<>> THEN b ELSE Resumed([b EXCEPT !.started = TRUE], disk.session[s]) :
     b \in Populated(a, s, online)}

\* Mutant: the track that plays on is not looked for in the new list.
ReadyMutant(a, s, online) ==
  {[b EXCEPT !.at = 0, !.known = Range(b.tracks)] :
     b \in IF a.started THEN Populated(a, s, online) ELSE InitPlaylistAndStart(a, s, online)}

\* ProviderReady carries no source: it is about whatever is active now.
Ready(a, s, online) ==
  {[b EXCEPT !.at = 0, !.known = Range(b.tracks)] :
     b \in IF a.started THEN {Aligned(c) : c \in Populated(a, s, online)}
           ELSE InitPlaylistAndStart(a, s, online)}

\* Mutant: a track that is already listed stays where it is.
PlacedMutant(a, t) ==
  LET next == [a EXCEPT !.at = @ + 1, !.known = @ \cup {t}] IN
  IF t \notin a.known THEN WithList(next, PL!Inserted(ListOf(a), a.at + 1, t)) ELSE next

\* OnAudioFetched, for one track: it goes to the place its page gives it.
Placed(a, t) ==
  LET next == [a EXCEPT !.at = @ + 1, !.known = @ \cup {t}]
      from == PL!FirstAt(a.tracks, t)
  IN  IF t \notin a.known THEN WithList(next, PL!Inserted(ListOf(a), a.at + 1, t))
      ELSE IF t \in Range(a.tracks) /\ from # a.at + 1 /\ a.at + 1 <= Len(a.tracks)
        THEN WithList(next, PL!Moved(ListOf(a), from, a.at + 1))
      ELSE next

AllPlaced(a, ts) ==
  LET after[n \in 0 .. Len(ts)] == IF n = 0 THEN a ELSE Placed(after[n - 1], ts[n])
  IN  after[Len(ts)]

Fetched(a, ts) ==
  LET b == AllPlaced(a, ts) IN
  {Aligned(c) : c \in IF b.started THEN {b} ELSE InitPlaylistAndStart(b, source, TRUE)}

\* OnFinishedFetching.
Finished(a) == Aligned([a EXCEPT !.known = {}])

\* History: ProviderReady starts a new count, a change of source ends it.
SeenReady == seen' = [Unseen EXCEPT !.valid = TRUE, !.mixed = seen.mixed]

ProviderReady(online) == app' \in Ready(app, source, online) /\ SeenReady

-----------------------------------------------------------------------------
(* Fetching a library. *)

PagesOf(s) == 1 .. ((Len(Library[s]) + PageSize - 1) \div PageSize)

\* The tracks in the answer to a request for page p; page 0 is a list of ids.
Items(s, p) ==
  IF p = 0 THEN <<>>
  ELSE SubSeq(Library[s], (p - 1) * PageSize + 1,
              IF p * PageSize < Len(Library[s]) THEN p * PageSize ELSE Len(Library[s]))

FirstPages(s) == IF s \in Parallel THEN {0} ELSE {1}

\* FetchAllUserAudio is called n times.
Fetch(s, n) ==
  /\ begun + n <= MaxFetches
  /\ begun' = begun + n
  /\ fetches' = fetches \cup {[id |-> i, of |-> s, out |-> FirstPages(s)] :
                                i \in (begun + 1) .. (begun + n)}

\* Mutant: the page after a full one is not asked for.
StillOutMutant(f, p, ok) ==
  IF f.of \in Parallel
    THEN IF p = 0 /\ ok THEN PagesOf(f.of) ELSE f.out \ {p}
    ELSE {}

\* The pages waited for once page p has been answered, or has failed.
StillOut(f, p, ok) ==
  IF f.of \in Parallel
    THEN IF p = 0 /\ ok THEN PagesOf(f.of) ELSE f.out \ {p}
    ELSE IF ok /\ Len(Items(f.of, p)) = PageSize THEN {p + 1} ELSE {}

\* Mutant: the pages of an inactive source are not dropped.
DroppedMutant(f) == FALSE

\* The router passes on the signals of the current provider only.
Dropped(f) == source # f.of

\* AudioFetched, if there are tracks, and FinishedFetching after the last page.
Delivered(f, ts, last) ==
  /\ \E a \in IF ts = <<>> THEN {app} ELSE Fetched(app, ts) :
       /\ app' = IF last THEN Finished(a) ELSE a
       /\ Pooled((IF ts = <<>> THEN {} ELSE {SaveTracks(ts)})
                 \cup (IF last THEN {SaveQueue(a.tracks, source)} ELSE {}))

Answered(f, p, ok) ==
  LET out == StillOut(f, p, ok) IN
  fetches' = (fetches \ {f}) \cup (IF out = {} THEN {} ELSE {[f EXCEPT !.out = out]})

\* A request that fails, or is refused as its token has expired, may end the
\* fetch without FinishedFetching.
Reply(f) ==
  \E p \in f.out, ok \in BOOLEAN, told \in BOOLEAN :
    LET ts == IF ok THEN Items(f.of, p) ELSE <<>>
        last == told /\ StillOut(f, p, ok) = {}
        effect == ts # <<>> \/ last
        by == IF effect THEN seen.by \cup {f.id} ELSE seen.by
    IN  /\ told \/ (~ok /\ f.of \notin Parallel)
        /\ Answered(f, p, ok)
        /\ IF Dropped(f) THEN UNCHANGED <<app, pool>> ELSE Delivered(f, ts, last)
        /\ seen' = IF Dropped(f) THEN seen
                   ELSE [seen EXCEPT !.by = by, !.got = @ \o ts, !.lost = @ \/ ~ok,
                                     !.mixed = @ \/ Cardinality(by) > 1 \/ (effect /\ ~seen.valid)]
        /\ UNCHANGED <<up, source, starts, leaving, begun, disk, turns>>

-----------------------------------------------------------------------------
(* The router. *)

\* A saved token was accepted, refreshed, refused, or its answer swallowed.
Answer(s) ==
  /\ starts[s] > 0
  /\ starts' = [starts EXCEPT ![s] = @ - 1]
  /\ \/ ProviderReady(TRUE) /\ Fetch(s, 1)
     \/ \E online \in BOOLEAN : ProviderReady(online) /\ UNCHANGED <<fetches, begun>>
     \/ UNCHANGED <<app, fetches, begun, seen>>
  /\ UNCHANGED <<up, source, leaving, disk, pool, turns>>

\* The user signs in, by then perhaps with another source active.
SignIn(s) ==
  /\ Fetch(s, IF s \in Twice THEN 2 ELSE 1)
  /\ ProviderReady(TRUE)
  /\ UNCHANGED <<up, source, starts, leaving, disk, pool, turns>>

\* RevalidateCurrentSource, or a token that has expired in the meantime.
Revalidated(online) ==
  /\ source # Offline
  /\ ProviderReady(online)
  /\ UNCHANGED <<up, source, starts, leaving, fetches, begun, disk, pool, turns>>

\* What SourceChanged makes of the list: sound may be playing, from a source
\* logged out of, though no list has been started.
Left(a, playing) == IF playing \/ a.started THEN ClearedButCurrent(a) ELSE Cleared(a)

\* SwitchSource, once a is what the handler has made of app.
Enter(s, a) ==
  /\ source' = s
  /\ IF s = Offline
       THEN app' \in Ready(a, s, FALSE) /\ starts' = starts
       ELSE app' = a /\ starts' = [starts EXCEPT ![s] = @ + 1]
  /\ seen' = [Unseen EXCEPT !.valid = s = Offline]

\* Mutant: the session is saved for the source that has just become active.
SwitchSourceMutant(s) ==
  /\ \E playing \in BOOLEAN : Enter(s, Left(app, playing))
  /\ IF app.tracks = <<>> THEN UNCHANGED <<disk, pool>>
     ELSE /\ disk' = [disk EXCEPT !.session[s] = [track |-> Current(app), index |-> app.place]]
          /\ Pooled({SaveQueue(app.tracks, s)})

SwitchSource(s) == SaveSession(app) /\ \E playing \in BOOLEAN : Enter(s, Left(app, playing))

Turn == turns < MaxTurns /\ turns' = turns + 1

UserSwitches(s) ==
  /\ s # source /\ Turn
  /\ SwitchSource(s)
  /\ UNCHANGED <<up, leaving, fetches, begun>>

\* HandleLogout for the services S, one or all of them.
Forgotten(d, S) ==
  [rows |-> Kept(d.rows, OfSources(Services \ S)),
   order |-> [s \in DOMAIN d.order |-> IF s \in S THEN <<>> ELSE d.order[s]],
   session |-> [s \in DOMAIN d.session |-> IF s \in S THEN NoSession ELSE d.session[s]]]

LoggedOut(a) == [Cleared(a) EXCEPT !.started = FALSE]

HandleLogout(s) ==
  /\ Turn
  /\ disk' = Forgotten(disk, {s})
  /\ IF s = source
       THEN /\ app' = LoggedOut(app) /\ leaving' = leaving \cup {s}
            /\ seen' = Unseen
       ELSE UNCHANGED <<app, leaving, seen>>
  /\ UNCHANGED <<up, source, starts, fetches, begun, pool>>

\* Logging out of everything leads to the offline source at once.
HandleLogoutOfAll ==
  /\ Turn
  /\ disk' = Forgotten(disk, Services)
  /\ source' = Offline
  /\ app' = [LoggedOut(app) EXCEPT !.at = 0, !.known = {}]
  /\ seen' = [Unseen EXCEPT !.valid = TRUE]
  /\ UNCHANGED <<up, starts, leaving, fetches, begun, pool>>

\* FindNextAuthorizedSource has looked through the keychain.
NextSourceFound(s) ==
  /\ s \in leaving
  /\ leaving' = leaving \ {s}
  /\ \E next \in (Services \ {s}) \cup {Offline} : SwitchSource(next)
  /\ UNCHANGED <<up, fetches, begun, turns>>

-----------------------------------------------------------------------------
(* The user and the life of the program. *)

\* Typed where a sign-in is waited for: what is on disk is listed, and not
\* counted as known when pages come.
OfflineModeRequested ==
  /\ ~app.started
  /\ app' \in InitPlaylistAndStart(app, source, FALSE)
  /\ seen' = [seen EXCEPT !.mixed = @ \/ seen.valid]
  /\ UNCHANGED <<up, source, starts, leaving, fetches, begun, disk, pool, turns>>

\* JumpTo, from the interface or because a track has ended.
Play == /\ \E i \in DOMAIN app.tracks : app' = JumpedTo(app, i)
        /\ UNCHANGED <<up, source, starts, leaving, fetches, begun, disk, pool, turns, seen>>

Start ==
  /\ ~up /\ up' = TRUE
  /\ Enter(source, app) /\ pool' = EmptyBag
  /\ UNCHANGED <<source, leaving, fetches, begun, disk, turns>>

\* Everything in memory is gone; what the pool had not written is gone too,
\* at once or, when the program is quit, after two seconds at most.
Ends == /\ Turn /\ up' = FALSE
        /\ app' = Fresh /\ starts' = [s \in Services |-> 0] /\ leaving' = {} /\ fetches' = {}
        /\ seen' = Unseen
        /\ UNCHANGED <<source, begun>>

Quit == Ends /\ SaveSession(app)
Crash == Ends /\ pool' = EmptyBag /\ UNCHANGED disk

Router == \/ \E s \in Services : Answer(s) \/ SignIn(s) \/ HandleLogout(s) \/ NextSourceFound(s)
          \/ \E s \in Services \cup {Offline} : UserSwitches(s)
          \/ \E online \in BOOLEAN : Revalidated(online)
          \/ HandleLogoutOfAll
          \/ \E f \in fetches : Reply(f)

Next == \/ up /\ (Router \/ OfflineModeRequested \/ Play \/ Quit \/ Crash)
        \/ RunTask
        \/ Start

Spec == Init /\ [][Next]_vars

\* Requests are answered or fail, and the pool gets on.
FairSpec ==
  /\ Spec
  /\ WF_fetches(\E f \in fetches : \E p \in f.out, ok \in BOOLEAN : Answered(f, p, ok))
  /\ WF_pool(\E task \in BagToSet(pool) : Takes(task))

-----------------------------------------------------------------------------
(* What makes the synchronisation correct. *)

(* The types of the state. *)
TypeOK ==
  /\ up \in BOOLEAN /\ source \in Services \cup {Offline}
  /\ app.tracks \in Seq(Ids) /\ app.place \in 1 .. Len(app.tracks) + 1
  /\ app.current \in Ids \cup {NoTrack} /\ app.started \in BOOLEAN
  /\ app.at \in Nat /\ app.known \subseteq Ids
  /\ IsInjective(disk.rows)
  /\ \A f \in fetches : f.of \in Services /\ f.out # {}

(* While a service is active the list holds its tracks only, however late   *)
(* the pages of another one, or the answer to its sign-in, arrive.          *)
OnlyActiveSource ==
  source # Offline => \A t \in Range(app.tracks) : SourceOf[t] = source

(* A queue is stored under the source its tracks come from, by every write  *)
(* that is done or still waits in the pool.                                 *)
StoredUnderItsSource ==
  \A s \in Services :
    /\ \A t \in Range(disk.order[s]) : SourceOf[t] = s
    /\ \A task \in BagToSet(pool) :
         task.kind = "queue" /\ task.of = s => \A t \in Range(task.ids) : SourceOf[t] = s

(* The track that plays, if it is in the list, is the one whose turn it is:  *)
(* it does not play again, nor is any skipped, because the library arrived  *)
(* around it, or because it played on from before a change of source.       *)
CurrentIsInPlace ==
  app.current \in Range(app.tracks) => app.tracks[app.place] = app.current

(* As long as one fetch at a time reaches the list, and none before the      *)
(* ProviderReady of its source, the tracks fetched since the last            *)
(* ProviderReady stand in front, in the order they came in, and no track is  *)
(* listed twice, unless the offline mode is asked for after ProviderReady.   *)
FetchedInFront ==
  /\ seen.valid /\ Cardinality(seen.by) <= 1 => IsPrefix(seen.got, app.tracks)
  /\ ~seen.mixed => IsInjective(app.tracks)

(* A fetch begun for the active source brings all of the library into the   *)
(* list, unless a request fails or the source is left before.               *)
LibraryArrives ==
  \A s \in Services :
    /\ up /\ source = s /\ seen.valid /\ ~seen.lost
    /\ \E f \in fetches : f.of = s /\ f.out = FirstPages(s)
    ~> \/ ~up \/ source # s \/ ~seen.valid \/ seen.lost
       \/ Range(Library[s]) \subseteq Range(app.tracks)
===============================================================================
