-------------------------- MODULE PlaybackController --------------------------
(***************************************************************************)
(* core/audio/playback/PlaybackController, composed with the playlist       *)
(* (module PlaylistManager) and with what it needs of the audio engine, of  *)
(* the streamer and of the providers of track URLs.                         *)
(*                                                                         *)
(* A track that is asked for is played at once when it is on disk or when   *)
(* its URL has been fetched ahead; otherwise its URL is asked of a provider *)
(* after a debounce, up to MaxAttempts times.  A request belongs to a       *)
(* generation, of which only matters whether it is still the current one:   *)
(* fresh.  A provider remembers one request for a URL, whoever made it; a   *)
(* new one silently takes the place of the one before.                      *)
(*                                                                         *)
(* All handlers run in the main thread, one at a time; the audio thread     *)
(* raises the two signals of the engine at any moment.  OnTrackRequested    *)
(* calls AttemptPlay inside the handler that chose the track: while call    *)
(* holds a track no other handler runs.                                     *)
(***************************************************************************)
EXTENDS Integers, Sequences, FiniteSets

CONSTANTS
  Ids, NoTrack,       \* tracks
  Sources, NoSource,  \* services; NoSource: a null provider, or "Offline"
  SourceOf,           \* Track::source, or NoSource if it is empty
  Library,            \* the stored list of each source and of NoSource, by online
  Downloaded,         \* tracks that have a file on disk
  MaxAttempts,        \* 3 in the code
  MaxSkips,           \* 5 in the code
  RepeatModes,        \* modes the configuration starts with and the user toggles to
  CrossfadeModes,     \* values the crossfade setting takes
  AutoPlay,           \* whether a change of shuffle asks for a track; {}: no changes
  Saves,              \* tracks the user may ask to have downloaded
  MaxTimers           \* bound: retry timers running at once

ASSUME PlaybackAssumption ==
  /\ NoTrack \notin Ids /\ NoSource \notin Sources
  /\ SourceOf \in [Ids -> Sources \cup {NoSource}]
  /\ Library \in [Sources \cup {NoSource} -> [BOOLEAN -> Seq(Ids)]]
  /\ \A s \in Sources \cup {NoSource} :
       Library[s][FALSE] = SelectSeq(Library[s][TRUE], LAMBDA t : t \in Downloaded)
  /\ Downloaded \subseteq Ids /\ Saves \subseteq Ids
  /\ MaxAttempts \in Nat \ {0} /\ MaxSkips \in Nat \ {0} /\ MaxTimers \in Nat
  /\ RepeatModes \subseteq {"None", "All", "One"}
  /\ CrossfadeModes \subseteq BOOLEAN /\ AutoPlay \subseteq BOOLEAN

VARIABLES
  tracks, queue, index, active, shuffle, repeat,  \* of the playlist
  call,         \* the track AttemptPlay is to be called with, in this handler
  debounce,     \* m_pendingTrack while m_debounceTimer runs
  slot,         \* the request each provider is working on
  timers,       \* the retries that wait for their two seconds
  skips,        \* m_skipCount
  ahead,        \* m_preloadedTrack, while m_cachedNextUrl is its URL
  saved,        \* m_savedPositionTrackId
  startPaused,  \* m_startPaused
  crossfade,    \* m_crossfadeEnabled
  current,      \* m_currentProvider
  started,      \* ApplicationCore::m_isPlaybackStarted
  streaming,    \* the track NetworkStreamer downloads
  heard,        \* the track whose audio is in the engine
  playing,      \* MiniaudioEngine::m_isPlaying
  nearEnd,      \* m_nearEndTriggered and m_nearEndSignaled
  finished,     \* m_finishedTriggered and m_finishedSignaled
  \* what only the properties look at:
  asked,        \* the track AttemptPlay was last called with
  strayed,      \* the playlist has since shuffled another track into its place
  fading        \* what is heard was left playing, for a crossfade into asked

playlist == <<tracks, queue, index, active, shuffle, repeat>>
requests == <<debounce, slot, timers>>
engine == <<heard, playing, nearEnd, finished, fading>>
history == <<asked, strayed>>
settings == <<crossfade, current, started>>
vars == <<playlist, call, requests, skips, ahead, saved, startPaused, settings,
          streaming, engine, history>>

PL == INSTANCE PlaylistManager WITH MaxTracks <- Cardinality(Ids)

Idle == [for |-> "none", track |-> NoTrack, attempt |-> 0, fresh |-> FALSE]
Request(use, t, n) == [for |-> use, track |-> t, attempt |-> n, fresh |-> use = "play"]

\* PlaylistManager's own Init with the repeat mode of the configuration.
Init ==
  /\ tracks = <<>> /\ queue = <<>> /\ index = 1 /\ active = NoTrack
  /\ shuffle = FALSE /\ repeat \in RepeatModes
  /\ call = NoTrack /\ debounce = NoTrack /\ slot = [s \in Sources |-> Idle] /\ timers = {}
  /\ skips = 0 /\ ahead = NoTrack /\ saved = NoTrack /\ startPaused \in BOOLEAN
  /\ crossfade \in CrossfadeModes /\ current = NoSource /\ started = FALSE
  /\ streaming = NoTrack /\ heard = NoTrack /\ playing = FALSE
  /\ nearEnd = "armed" /\ finished = "armed"
  /\ asked = NoTrack /\ strayed = FALSE /\ fading = FALSE

-----------------------------------------------------------------------------
(* What the handlers are made of. *)

Main == call = NoTrack

\* PlaylistManager::Next, which calls OnTrackRequested if there is a next one.
AskNext ==
  \/ PL!NextTrack /\ call' = active'
  \/ /\ tracks = <<>> \/ (repeat = "None" /\ ~PL!External /\ index >= Len(queue))
     /\ call' = NoTrack /\ UNCHANGED playlist

\* GetCurrentTrack: what is shown as playing, liked, saved and restored.
CurrentTrack == IF active # NoTrack THEN active
                ELSE IF tracks # <<>> THEN PL!Here ELSE NoTrack

AskNothing == call' = NoTrack /\ UNCHANGED playlist

\* m_providerResolver, or the current provider for a track without a source.
ProviderOf(t) == IF SourceOf[t] = NoSource THEN current ELSE SourceOf[t]

\* A new generation: what the older ones have asked for is answered in vain.
Stale(r) == [r EXCEPT !.fresh = FALSE]
NewGeneration == timers' = {Stale(r) : r \in timers}

\* CancelProviderFetch, after the generation has changed.
CancelFetch(provider) ==
  /\ NewGeneration
  /\ slot' = [s \in Sources |-> IF s = provider THEN Idle ELSE Stale(slot[s])]

\* ClearBuffers or PlayStream: other audio, or none, and new signals.
Load(t) == heard' = t /\ nearEnd' = "armed" /\ finished' = "armed" /\ fading' = FALSE

\* Resume, unless the program was to start in pause, once.
Begin(t) == Load(t) /\ playing' = ~startPaused /\ startPaused' = FALSE

-----------------------------------------------------------------------------
(* AttemptPlay, for a first attempt. *)

Asked(t) == asked' = t /\ strayed' = FALSE

\* The playlist has made another track active, which nobody asks for.
Strays(t) == asked' = asked /\ strayed' = (strayed \/ t \notin {active, asked})

Forget(t) == IF saved = t THEN saved ELSE NoTrack

\* A file that cannot be decoded is skipped.
PlayLocal(t) ==
  /\ t \in Downloaded
  /\ CancelFetch(current) /\ debounce' = NoTrack
  /\ skips' = 0 /\ streaming' = NoTrack
  /\ \/ Begin(t) /\ saved' = NoTrack /\ AskNothing
     \/ /\ Load(NoTrack) /\ saved' = Forget(t) /\ AskNext
        /\ UNCHANGED <<playing, startPaused>>
  /\ Asked(t) /\ UNCHANGED <<ahead, settings>>

PlayFetchedAhead(t) ==
  /\ t \notin Downloaded /\ ahead = t
  /\ CancelFetch(current) /\ debounce' = NoTrack
  /\ ahead' = NoTrack /\ skips' = 0 /\ streaming' = t
  /\ Begin(t) /\ saved' = NoTrack /\ AskNothing
  /\ Asked(t) /\ UNCHANGED settings

\* Mutant: what is heard goes on until the new track is there.
PlayFromNetworkMutant(t) ==
  /\ t \notin Downloaded /\ ahead # t
  /\ CancelFetch(current) /\ debounce' = t
  /\ streaming' = NoTrack /\ saved' = Forget(t)
  /\ UNCHANGED engine
  /\ AskNothing /\ Asked(t)
  /\ UNCHANGED <<skips, ahead, startPaused, settings>>

\* With a crossfade what is heard goes on until the new track is there.
PlayFromNetwork(t) ==
  /\ t \notin Downloaded /\ ahead # t
  /\ CancelFetch(current) /\ debounce' = t
  /\ streaming' = NoTrack /\ saved' = Forget(t)
  /\ IF crossfade /\ playing
       THEN fading' = (heard # NoTrack) /\ UNCHANGED <<heard, playing, nearEnd, finished>>
       ELSE Load(NoTrack) /\ playing' = FALSE
  /\ AskNothing /\ Asked(t)
  /\ UNCHANGED <<skips, ahead, startPaused, settings>>

AttemptPlay(t) == PlayLocal(t) \/ PlayFetchedAhead(t) \/ PlayFromNetwork(t)

-----------------------------------------------------------------------------
(* Asking the providers, and their answers. *)

\* FetchTrackUrl forgets the request the provider was working on.
Fetch(provider, r) == slot' = [slot EXCEPT ![provider] = r]

\* ExecuteAttemptPlay in the current generation.
ExecuteAttemptPlay(t, n) ==
  IF ProviderOf(t) = NoSource
    THEN AskNext /\ UNCHANGED slot
    ELSE Fetch(ProviderOf(t), Request("play", t, n)) /\ AskNothing

\* The debounce timer is stopped by each new generation.
DebounceTimeout ==
  /\ Main /\ debounce # NoTrack
  /\ debounce' = NoTrack
  /\ ExecuteAttemptPlay(debounce, 1)
  /\ UNCHANGED <<timers, skips, ahead, saved, startPaused, settings, streaming, engine, history>>

\* Mutant: the timer of a request that is over makes its attempt.
RetryTimeoutMutant(r) ==
  /\ Main
  /\ timers' = timers \ {r}
  /\ ExecuteAttemptPlay(r.track, r.attempt + 1)
  /\ UNCHANGED <<debounce, skips, ahead, saved, startPaused, settings, streaming, engine, history>>

RetryTimeout(r) ==
  /\ Main
  /\ timers' = timers \ {r}
  /\ IF r.fresh THEN ExecuteAttemptPlay(r.track, r.attempt + 1)
                ELSE AskNothing /\ UNCHANGED slot
  /\ UNCHANGED <<debounce, skips, ahead, saved, startPaused, settings, streaming, engine, history>>

\* The URL of the track whose turn it is.
StartStream(t) ==
  /\ skips' = 0 /\ streaming' = t
  /\ Begin(t) /\ saved' = (IF saved = t THEN NoTrack ELSE saved)
  /\ AskNothing /\ UNCHANGED timers

\* Mutant: one skip too many.
SkipRestrictedMutant ==
  /\ IF skips + 1 > MaxSkips THEN skips' = 0 /\ AskNothing
                             ELSE skips' = skips + 1 /\ AskNext
  /\ UNCHANGED <<timers, saved, startPaused, streaming, engine>>

\* Mutant: the count of skips is lost.
SkipForeverMutant ==
  /\ skips' = 0
  /\ AskNext
  /\ UNCHANGED <<timers, saved, startPaused, streaming, engine>>

\* No error and no URL: the track may not be played.
SkipRestricted ==
  /\ IF skips + 1 >= MaxSkips THEN skips' = 0 /\ AskNothing
                              ELSE skips' = skips + 1 /\ AskNext
  /\ UNCHANGED <<timers, saved, startPaused, streaming, engine>>

\* A network error: again in two seconds, or the next track.
RetryLater(r) ==
  /\ skips' = 0
  /\ IF r.attempt < MaxAttempts
       THEN /\ Cardinality(timers) < MaxTimers
            /\ timers' = timers \cup {r} /\ AskNothing
       ELSE timers' = timers /\ AskNext
  /\ UNCHANGED <<saved, startPaused, streaming, engine>>

\* Mutant: the answer to a request of an older generation is used.
AnswerMutant(provider, a) ==
  LET r == slot[provider] IN
  /\ Main /\ r # Idle
  /\ Fetch(provider, Idle)
  /\ ahead' = IF r.for = "ahead" /\ a = "url" THEN r.track ELSE ahead
  /\ IF r.for = "play"
       THEN \/ a = "url" /\ StartStream(r.track)
            \/ a = "restricted" /\ SkipRestricted
            \/ a = "error" /\ RetryLater(r)
       ELSE AskNothing /\ UNCHANGED <<timers, skips, saved, startPaused, streaming, engine>>
  /\ UNCHANGED <<debounce, settings, history>>

\* The answer of a provider: a URL fetched to play, fetched ahead, or, for
\* TrackDownloader, of no further effect here.
Answer(provider, a) ==
  LET r == slot[provider] IN
  /\ Main /\ r # Idle
  /\ Fetch(provider, Idle)
  /\ ahead' = IF r.for = "ahead" /\ a = "url" THEN r.track ELSE ahead
  /\ IF r.for = "play" /\ r.fresh
       THEN \/ a = "url" /\ StartStream(r.track)
            \/ a = "restricted" /\ SkipRestricted
            \/ a = "error" /\ RetryLater(r)
       ELSE AskNothing /\ UNCHANGED <<timers, skips, saved, startPaused, streaming, engine>>
  /\ UNCHANGED <<debounce, settings, history>>

-----------------------------------------------------------------------------
(* The engine: audioCallback in the audio thread, PollEvents in the main    *)
(* thread.  Near its end means ten seconds before it, and is not noticed    *)
(* for a track of unknown duration.                                         *)

Silent == <<playlist, call, requests, skips, ahead, saved, startPaused, settings, streaming,
            history>>

RaiseNearEnd ==
  /\ playing /\ heard # NoTrack /\ nearEnd = "armed"
  /\ nearEnd' = "raised"
  /\ UNCHANGED <<Silent, heard, playing, finished, fading>>

RaiseFinished ==
  /\ playing /\ heard # NoTrack /\ finished = "armed"
  /\ finished' = "raised"
  /\ nearEnd' \in {nearEnd, IF nearEnd = "armed" THEN "raised" ELSE nearEnd}
  /\ UNCHANGED <<Silent, heard, playing, fading>>

\* HandleTrackNearEnd: the URL of the next track is fetched ahead.
HandleTrackNearEnd ==
  LET t == PL!PeekNextTrack IN
  IF t # NoTrack /\ ProviderOf(t) # NoSource
    THEN Fetch(ProviderOf(t), Request("ahead", t, 0))
    ELSE UNCHANGED slot

\* Of the two signals the one for the end is looked at last, and may be raised
\* while the other is dealt with: late.
PollEvents ==
  /\ Main
  /\ \E late \in BOOLEAN :
       /\ late => playing /\ heard # NoTrack /\ finished = "armed"
       /\ late \/ nearEnd = "raised" \/ finished = "raised"
       /\ IF nearEnd = "raised" THEN nearEnd' = "taken" /\ HandleTrackNearEnd
          ELSE /\ nearEnd' \in {nearEnd} \cup (IF late /\ nearEnd = "armed" THEN {"raised"} ELSE {})
               /\ UNCHANGED slot
       /\ IF late \/ finished = "raised" THEN finished' = "taken" /\ AskNext
          ELSE finished' = finished /\ AskNothing
  /\ UNCHANGED <<debounce, timers, skips, ahead, saved, startPaused, settings,
                 streaming, heard, playing, fading, history>>

\* SetPositionSeconds: the signals are armed again, but for a track of unknown
\* duration.
SetPositionSeconds ==
  /\ Main /\ heard # NoTrack
  /\ nearEnd' = "armed" /\ finished' = "armed"
  /\ UNCHANGED <<Silent, heard, playing, fading>>

TogglePause ==
  /\ Main
  /\ playing' = ~playing
  /\ UNCHANGED <<Silent, heard, nearEnd, finished, fading>>

-----------------------------------------------------------------------------
(* What the user asks for. *)

Commanded ==
  /\ Main
  /\ UNCHANGED <<requests, skips, ahead, saved, startPaused, settings, streaming, engine, asked>>

AskForNext == Commanded /\ AskNext /\ UNCHANGED strayed

AskForPrevious == Commanded /\ PL!PreviousTrack /\ call' = active' /\ UNCHANGED strayed

AskFor(i) == Commanded /\ PL!JumpTo(i) /\ call' = active' /\ UNCHANGED strayed

\* A track found by a search, played from outside of the list.
AskForFound(t) == Commanded /\ PL!SetActiveTrack(t) /\ call' = t /\ UNCHANGED strayed

(***************************************************************************)
(* Turning shuffle on and off makes the first track of the new order       *)
(* active, and some of the commands that do so play it: the key of the TUI  *)
(* if the configuration has playback start by itself, the console's shuffle *)
(* and reset, but not its return to the standard order.                     *)
(***************************************************************************)
SetShuffle(enable, play) ==
  /\ Commanded
  /\ enable # shuffle \/ (enable /\ play)
  /\ PL!SetShuffle(enable)
  /\ call' = IF play /\ queue' # <<>> THEN active' ELSE NoTrack
  /\ Strays(active')

ToggleRepeat ==
  Commanded /\ PL!ToggleRepeat /\ repeat' \in RepeatModes /\ UNCHANGED <<call, strayed>>

SetCrossfadeEnabled(enabled) ==
  /\ Main
  /\ crossfade' = enabled
  /\ UNCHANGED <<playlist, call, requests, skips, ahead, saved, startPaused, current,
                 started, streaming, engine, history>>

\* TuiTrackService::DownloadTrack, for a track that has no URL yet.
DownloadTrack(t) ==
  /\ Main /\ SourceOf[t] # NoSource
  /\ Fetch(SourceOf[t], Request("disk", t, 0))
  /\ UNCHANGED <<playlist, call, debounce, timers, skips, ahead, saved, startPaused,
                 settings, streaming, engine, history>>

-----------------------------------------------------------------------------
(* Changes of account and source, from ApplicationCore. *)

\* What ClearState and CancelPlaybackAndRetries have in common.
Cancel(provider) ==
  /\ debounce' = NoTrack /\ CancelFetch(provider)
  /\ streaming' = NoTrack
  /\ Load(NoTrack) /\ playing' = FALSE

ClearState(provider) ==
  /\ Cancel(provider)
  /\ ahead' = NoTrack /\ saved' = NoTrack /\ Asked(NoTrack)
  /\ UNCHANGED <<skips, startPaused, crossfade>>

\* The user has to sign in.
CancelPlaybackAndRetries ==
  /\ Main
  /\ Cancel(current)
  /\ UNCHANGED <<playlist, call, skips, ahead, saved, startPaused, settings, history>>

\* SourceRouter::SourceChanged: the list goes; what plays goes on.
SourceChanged(s) ==
  /\ Main
  /\ current' = s
  /\ IF playing \/ started
       THEN /\ PL!ClearKeepActive
            /\ UNCHANGED <<requests, skips, ahead, saved, startPaused, crossfade, started,
                           streaming, engine, history>>
       ELSE PL!Clear /\ ClearState(s) /\ started' = FALSE
  /\ call' = NoTrack

\* What the database holds for the source: all of it when online, the tracks
\* on disk when not.
Stored(online) == Library[current][online]

(***************************************************************************)
(* PopulatePlaylistFromStorage: an empty list is filled.  With shuffle on in *)
(* the configuration, where the settings may have put it at any time, the   *)
(* saved queue is restored, and if there is none SetShuffle makes the first *)
(* track of a new one active: t.                                            *)
(***************************************************************************)
Populate(ts, t) ==
  IF tracks # <<>> THEN t = active /\ UNCHANGED <<tracks, queue, shuffle>>
  ELSE /\ tracks' = ts
       /\ \/ queue' = PL!Identity(Len(ts)) /\ t = active /\ UNCHANGED shuffle
          \/ /\ queue' \in PL!Orders(Len(ts)) /\ shuffle' = TRUE
             /\ t = active \/ (ts # <<>> /\ t = ts[queue'[1]])

\* AlignWithActiveTrack, t being the active track.
Aligned(t) ==
  IF t \in PL!Range(tracks') /\ PL!FirstAt(tracks', t) \in PL!Range(queue')
    THEN PL!FirstAt(queue', PL!FirstAt(tracks', t)) ELSE index

\* SourceRouter::ProviderReady: the list is filled; the first time the track
\* of the last session is played, perhaps from the position saved with it.
\* The choice to work offline does the same until playback has started.
ProviderReady(online) ==
  /\ Main
  /\ \E t \in Ids \cup {NoTrack} :
       /\ Populate(Stored(online), t) /\ Strays(t)
       /\ IF started \/ tracks' = <<>>
            THEN /\ index' = IF started THEN Aligned(t) ELSE index
                 /\ active' = t /\ call' = NoTrack
                 /\ UNCHANGED <<saved, started>>
            ELSE /\ started' = TRUE
                 /\ \/ \E i \in PL!Range(queue') :
                         index' = PL!FirstAt(queue', i) /\ active' = tracks'[i] /\ call' = active'
                    \/ index' = index /\ active' = t /\ call' = CurrentTrack'
                 /\ saved' \in {NoTrack, call'}
  /\ UNCHANGED <<repeat, requests, skips, ahead, startPaused, crossfade, current,
                 streaming, engine>>

\* HandleLogout, for the source in use.
HandleLogout ==
  /\ Main
  /\ ClearState(current) /\ PL!Clear
  /\ started' = FALSE
  /\ UNCHANGED <<call, current>>

-----------------------------------------------------------------------------

Command == \/ AskForNext \/ AskForPrevious
           \/ \E i \in 1 .. Len(tracks) : AskFor(i)
           \/ \E t \in Ids : AskForFound(t)
           \/ \E enable \in BOOLEAN, play \in AutoPlay : SetShuffle(enable, play)
           \/ \E enabled \in CrossfadeModes : SetCrossfadeEnabled(enabled)
           \/ \E t \in Saves : DownloadTrack(t)
           \/ ToggleRepeat \/ SetPositionSeconds \/ TogglePause

Account == \/ CancelPlaybackAndRetries \/ HandleLogout
           \/ \E s \in Sources \cup {NoSource} : SourceChanged(s)
           \/ \E online \in BOOLEAN : ProviderReady(online)

Answers == {"url", "restricted", "error"}

Handler == \/ \E t \in Ids : call = t /\ AttemptPlay(t)
           \/ DebounceTimeout \/ PollEvents
           \/ \E r \in timers : RetryTimeout(r)
           \/ \E provider \in Sources, a \in Answers : Answer(provider, a)

Audio == RaiseNearEnd \/ RaiseFinished

Next == Command \/ Account \/ Handler \/ Audio

Spec == Init /\ [][Next]_vars

\* The event loop runs every handler it has been given, and a request to a
\* provider is answered: if only by a transfer timeout, where one is set.
FairSpec == Spec /\ WF_vars(Handler)

-----------------------------------------------------------------------------
(* What makes playback correct. *)

Requests == [for : {"none", "play", "ahead", "disk"}, track : Ids \cup {NoTrack},
             attempt : 0 .. MaxAttempts, fresh : BOOLEAN]
Signals == {"armed", "raised", "taken"}

(* The types of the members of PlaybackController and its neighbours.       *)
TypeOK ==
  /\ PL!TypeOK
  /\ \A t \in {call, debounce, ahead, saved, streaming, heard} : t \in Ids \cup {NoTrack}
  /\ slot \in [Sources -> Requests] /\ timers \subseteq Requests
  /\ skips \in 0 .. MaxSkips - 1
  /\ startPaused \in BOOLEAN /\ crossfade \in BOOLEAN
  /\ started \in BOOLEAN /\ playing \in BOOLEAN
  /\ current \in Sources \cup {NoSource}
  /\ nearEnd \in Signals /\ finished \in Signals
  /\ asked \in Ids \cup {NoTrack} /\ strayed \in BOOLEAN /\ fading \in BOOLEAN

\* The requests of the current generation.
Fetching == {s \in Sources : slot[s].fresh}
Retrying == {r \in timers : r.fresh}
Wanted == ({debounce} \ {NoTrack}) \cup {slot[s].track : s \in Fetching}
            \cup {r.track : r \in Retrying}
Waiting == debounce # NoTrack \/ Fetching # {} \/ Retrying # {}

(* At any moment one request is under way at most: in the debounce timer, at *)
(* one provider, or waiting for a retry.                                     *)
OneRequest ==
  /\ debounce # NoTrack => Fetching = {} /\ Retrying = {}
  /\ Fetching # {} => Retrying = {}
  /\ \A s, p \in Fetching : s = p
  /\ \A r, q \in Retrying : r = q

(* It is for the track that was asked for last, and only that track is      *)
(* downloaded: no late answer or retry of an older request plays, whatever   *)
(* the playlist, the source or the account have come to since.              *)
OnlyAskedIsWanted == Wanted \cup ({streaming} \ {NoTrack}) \subseteq {asked}

(* What is heard is the track that was asked for last, but for one that a   *)
(* crossfade leaves playing until that one is there; and it is the track    *)
(* shown, liked and saved as playing, unless a shuffle has changed that one *)
(* without playing it.                                                      *)
CurrentIsHeard ==
  Main /\ heard # NoTrack /\ ~fading
    => heard = asked /\ (strayed \/ heard = CurrentTrack)

(* HandleTrackFinished follows the end of the track asked for last, with no *)
(* request under way that its call of Next would skip; but for the track a  *)
(* crossfade has left playing, whose end does skip one.                     *)
FinishIsOfCurrent ==
  [][PollEvents /\ call' # NoTrack => fading \/ (heard = asked /\ ~Waiting)]_vars

(* The URL fetched ahead for the next track does not take the place of the  *)
(* request for one that was asked for, again but for the track a crossfade  *)
(* has left playing, near whose end it may.                                 *)
FetchAheadSparesRequest ==
  [][Waiting /\ ~fading /\ PollEvents => Waiting' \/ call' # NoTrack]_vars

(* Nor does a download to disk.                                             *)
DownloadSparesRequest ==
  [][Waiting /\ (\E t \in Saves : DownloadTrack(t)) => Waiting']_vars

\* The list, the queue and the place in it fit together.
Placed ==
  /\ queue \in [1 .. Len(tracks) -> 1 .. Len(tracks)]
  /\ index \in 1 .. Len(tracks) \/ (tracks = <<>> /\ index = 1)

(* The inductive invariant: the requests are for the track asked for last,  *)
(* which is the current one but for a shuffle, and have attempts left; a    *)
(* track that is about to be asked for is current.                          *)
IInv ==
  /\ TypeOK /\ Placed /\ OneRequest /\ OnlyAskedIsWanted
  /\ Main /\ asked # NoTrack => strayed \/ asked = CurrentTrack
  /\ ~Main => call = CurrentTrack
  /\ \A s \in Fetching : slot[s].track \in Ids
  /\ \A r \in timers : r.track \in Ids /\ r.attempt < MaxAttempts

(* With it: what is heard was asked for last, and nothing is under way any  *)
(* more, unless a crossfade has left it playing.                            *)
QuietInv ==
  /\ IInv
  /\ heard # NoTrack /\ ~fading => heard = asked /\ ~Waiting
  /\ heard = NoTrack => ~fading /\ nearEnd = "armed" /\ finished = "armed"

(* Tracks that may not be played are not skipped for ever: if from some     *)
(* moment on all the program does is to ask for a URL and not to get it, it *)
(* comes to rest.                                                           *)
Refused == \/ DebounceTimeout
           \/ \E t \in Ids : call = t /\ AttemptPlay(t)
           \/ \E s \in Sources : Answer(s, "restricted")
SkippingStops == <>[][Refused /\ ~playing']_vars => <>[](~Waiting /\ Main)
===============================================================================
