# Verification of VKAudioPlayer

TLA+ models of the player's core, checked with TLC and, where a property should
hold for every playlist, every number of tracks or every buffer size, proved
with TLAPS. The reference is the C++ source under `src/` of the repository; the
paths below are relative to the repository. `PROJECT.json` maps each definition
to the lines it stands for and lists runs, mutants, hazards, findings and
theorems.

    tlc -workers 2 -config NetworkStreamer.cfg MCNetworkStreamer
    tlapm NetworkStreamer_proofs.tla

## 1. The system

The program is one Qt process. The **main thread** runs the event loop, where
every network reply, timer and signal is handled, one handler at a time. There
are three other kinds of thread: the **decoder thread** and the **audio
callback** of the engine, and the tasks of the **global thread pool** (AES
decryption of HLS chunks, writes to SQLite). The terminal interface has a thread
of its own, which posts its commands to the event loop.

| Component | State it keeps | Operations | Talks to |
|---|---|---|---|
| `PlaylistManager` | list, queue, place in the queue, active track, shuffle, repeat | add, insert, move, remove, next, previous, jump, shuffle, repeat, restore | a callback asks `PlaybackController` to play |
| `PlaybackController` | generation, retry timers, skip count, URL fetched ahead, track loaded, saved position | `AttemptPlay` and its answers, retries, near-end, finished, commands | providers (URLs), streamer, engine, playlist |
| `NetworkStreamer` | generation, queue of chunks, request under way, keys, reorder buffer, decryptions counted, pause | start, seek, pause, resume, replies | thread pool; `DataReceived` and `DownloadFinished` to the engine |
| `MiniaudioEngine` | network buffer, MP3 buffer, detected format, ring buffer, clocks, near-end and finished flags | push data, decode, play, seek, clear; its three threads share these | ring buffer; flags polled by `PlaybackController` |
| `RingBuffer` | head and tail (atomics), samples | write, read, clear, available | decoder writes, callback reads, main thread clears |
| `ApplicationCore` | active source, sync position, known ids, whether playback has started | handlers of the router's signals, the poll of the engine, seeking, logout, quit | all of the above |
| `PlaybackSessionService`, repositories | SQLite: tracks, sessions and queues by source | save at once or by the pool, load, forget | `ApplicationCore` |
| `SourceRouter` | providers, current provider, sign-in under way, silent timer, cooldown | switch, start a service, sign in, refresh, log out, revalidate, find the next source | keychain, sign-in windows, providers; signals to `ApplicationCore` |
| Providers (`VkClient`, `YandexClient`, ...) | token, one cancellable request for a URL | pages of the library, URLs, search, likes, lyrics | HTTP |
| `VkAuthService` | the dialogue of login, code and captcha | one HTTP request after another | router and interfaces |
| `TrackDownloader`, `TuiTrackService` | files on disk, likes under way | download, tag, toggle a like | providers, playlist, database |
| Interfaces (TUI, console) | what is shown | commands | the controller and the core |

Small parts without state of their own between two calls (configuration,
logging, paths, dialogs, lyrics, Shazam, FFT) and vendored libraries are listed
in `PROJECT.json` with the reason they are left out.

### What is hard

* Answers come late: a URL for a track that is no longer current, a decryption
  of an earlier stream, a library page of a source that was left, a token after
  logout. Each part has a guard of its own against this (generations, `sender`
  checks, `m_currentProvider == ptr`), and each guard covers some paths only.
* Answers come out of order: chunks are decrypted concurrently, pages of some
  libraries are requested all at once, database writes are pooled.
* The decoder and the callback share buffers with the main thread without locks;
  a download is paused and resumed by watermarks that another thread moves; ends
  are raised by the callback and polled up to 20 ms later.
* Things must eventually happen: a stream ends, a track ends, skipping stops, a
  library arrives.
* Background work changes the list while the list is being played.
* The program stops, or is killed, with writes in the pool.

### What makes each part correct

* Streamer: no chunk lost, doubled or out of order; the end announced once,
  after everything; never stuck.
* Playlist: the queue is a permutation, the place is in it, edits in the
  background do not move the turn; what was announced as next is next.
* Playback: one request at a time, for the track asked for last; what is heard
  is that track, and is the one shown unless a shuffle has changed that; an end
  reported late does not skip a track; skipping stops.
* Engine: every byte handed over is decoded once, no slot is read and written at
  once, a switch of track leaves nothing of the old one behind, ends are neither
  early nor missed.
* Library: the list is that of the active source, is stored under it, keeps the
  place of what plays, and is completed by the fetch that was begun.
* Router: who waits for a sign-in has its window, and only a refusal takes that
  away; a silent sign-in ends; a token is saved for the service whose page
  yielded it; a change of source is answered.

## 2. The modules

| Module | Models | Checked by | Proofs |
|---|---|---|---|
| `NetworkStreamer` | `services/network/NetworkStreamer` | `MCNetworkStreamer` | `NetworkStreamer_proofs` |
| `OrderedStream` | abstract: a stream in order that ends once | as a property | refinement |
| `PlaylistManager` | `core/playlist/PlaylistManager` | `MCPlaylistManager` | `PlaylistManager_proofs` |
| `PlaybackController` | `core/audio/playback/PlaybackController` with the playlist (by `INSTANCE PlaylistManager`), providers, the engine's signals | `MCPlaybackController` | `PlaybackController_proofs` |
| `RingBuffer` | `utils/buffer/RingBuffer`: `Write` and `Read` in two steps each, one that loads both positions, one that has copied and publishes its own | through `AudioPipeline` | `RingBuffer_proofs` |
| `PcmQueue` | abstract: a bounded FIFO that can be emptied | as a property | refinement |
| `AudioPipeline` | decoder thread, callback and buffers of `MiniaudioEngine`, the poll of `ApplicationCore`, `RingBuffer` (by `INSTANCE`) | `MCAudioPipeline` | `AudioPipeline_proofs` |
| `LibrarySync` | `ApplicationCore`'s synchronisation, `PlaybackSessionService`, the repositories, the router's signals, with operators of `PlaylistManager` | `MCLibrarySync` | `LibrarySync_proofs` |
| `SourceRouter` | `core/auth/router/SourceRouter` with `OAuthManager`, the cookie reader, and what it uses of the clients | `MCSourceRouter` | `SourceRouter_proofs` |
| `SequenceLemmas` | nothing of its own: what a function defined along `0 .. n` computes, and insertion, removal and moves in sequences, for the proofs | - | itself |

### NetworkStreamer

Each reply handler is an action: `ManifestReceived`, `KeyReceived`,
`ChunkFinishedPlain`, `ChunkFinishedEncrypted`, `DirectData`, `DirectFinished`
and their failures; `StartDownload`, `StopDownload`, `SeekTo`, `PauseDownload`
and `ResumeDownload` are the public methods. `FinishJob` is a pool task and
`DeliverPosted` its result on the event loop, which compares generations
(`DeliverChunkSafe`). A chunk is its sequence number and key; its bytes are
"some" or "none"; a direct file is numbered pieces. A seek of a direct stream to
`t` makes a ranged request from `t`. `emitted`, `lost`, `ends` and `errored` are
history. Cookies, headers and the HTTP status text are left out.

### PlaylistManager

One action per public method that changes state; `Rebuilt` is `RebuildQueue`,
`Orders` the outcomes of `std::shuffle`. Where the code reads the queue at a
place beyond its end (below, section 5), `ReadQueue` yields any position or
none, as what lies there may be; so do the invariants hold whatever is read.
`m_playQueue`, `m_queueIndex`, `m_activeTrack` are `queue`, `index` (from 1) and
`active`. `External` stands for an active track that is not in the list (a
search result). A call is atomic because each method holds `m_mutex`.

### PlaybackController

`call` is a request of the playlist to play that is still to be handled: in the
code `OnTrackRequested` is called inside the playlist's method, here
`AttemptPlay` is the next step of the main thread and nothing else of it runs in
between (`Main`), while the audio thread may. `slot[s]` is the one request of
provider `s`; `fresh` stands for the comparison with `m_currentGeneration`,
which only ever asks whether it has changed. `timers` are the single-shot
retries, `debounce` the 180 ms timer. `heard`, `nearEnd` and `finished` are the
engine as its flags show it. `ProviderReady` is also the choice to work offline,
and `Populate` restores shuffle from the configuration in the same handler, as a
saved queue or by `SetShuffle`, which changes the active track. Repeat mode and
`startPaused` start as the configuration has them. `AutoPlay` says whether a
change of shuffle also asks for a track, which depends on the configuration and
on the command; both are checked, for by default it does not. Three variables
are history: `asked`, the track `AttemptPlay` was last called with; `strayed`,
that the playlist has since shuffled another one into its place; and `fading`,
that what is heard was left playing, for a crossfade into the one asked for.
Abstractions: the set of downloaded files is fixed, URLs do not expire, Spotify
is a provider like the others, a seek is `AudioPipeline`'s matter.

### RingBuffer and AudioPipeline

`RingBuffer` has two steps for `Write` and two for `Read`: the first loads both
positions, the second has copied and stores the one it moves; `Clear` may come
in the middle of a write of the decoder, not of a read of the callback, because
it is called under `m_audioMutex`, which the callback holds.

`AudioPipeline` composes it. Of the download, `OnChunkFinished` is an answer,
upon which the next request is made whether or not what came has been decrypted:
`fetched` is what has been answered, `pushed` what has been delivered.
`DeliverChunk` delivers a decrypted chunk and may go on, in the same handler,
with all that only waited for it, paused or not; `PushNetworkData` is each
delivery with its look at the high watermark. `PollNearEnd` and `PollFinished`
are the 20 ms poll: `PollEvents` exchanges one flag after the other, the
callback may raise both in between, and the watermarks come last. The `pc` of
the decoder runs through `DecoderLoop` (test, doze, take, demux, decode, write);
`Callback` reads or plays silence, counts the clock and raises near-end and
finished, neither of them for a track of duration 0.

`BeginSwitch`, `ClearAudio`, `ClearNetwork` are the steps of starting another
track, at the locks the code takes; `BeginSeek`, `SeekAudio`, `SeekNetwork`
those of `SetPositionSeconds`, after which `SeekTo` of the streamer is posted:
until it is handled the old download goes on delivering. `SeekUnknown` is what a
seek does to a track of duration 0. `gen` counts tracks and seeks, and every
unit bears the `gen` of the download that brought it (`stream`). A download may
break off at any answer (`broken`), and what was still being decrypted is
delivered afterwards. A pause by the user is a callback that does not come. A
seek in an HLS stream ends the download, as finding 1 says; a direct one goes on
from the target.

`quiet` is history: it holds while each replacement and seek found the decoder
asleep and nothing of the old download came before `SeekTo`. Otherwise the code
does leave something of the old track to be heard (the rest of `localChunk`, a
write that the clear overtakes), so `CleanSwitch` and `EndNotEarly` are about
quiet states.

Abstractions: the unit is a frame, so what a stale end flag does to a partial
frame is not shown; a direct file's size is known when a seek is made unless its
download broke off; `m_networkDiscardFrames`, which drops what a chunk has
before the target, is part of the target's being the next unit. Left out: empty
chunks (an HTML page in place of one), local files, the mixing of two tracks in
a crossfade, the destructor, torn reads of a size, the AAC decoder being closed
while it decodes.

### LibrarySync

`app` holds the list and the members of `ApplicationCore` that the handlers
change; the handlers are functions from `app` to the set of its next values,
since one signal runs into another in the code (`SwitchSource` emits
`SourceChanged`, and for the offline source `ProviderReady` in the same call).
`fetches` are the calls of `FetchAllUserAudio` under way with the pages each
waits for: one after the other, or, for `Parallel` services, a list of ids and
then all pages at once. `told` of a reply says whether a fetch that breaks off
announces its end: where the account behind the library cannot be asked
(SoundCloud) or the token has expired (YouTube) it does not. `Left` takes a
source away while it plays or before; `OfflineModeRequested` is the choice to
work offline, possible until playback has started. `Answer` is any outcome of a
`Start*Service`: the token is accepted (ready and a fetch), refreshed or refused
(ready), or the answer is swallowed. `leaving` is the search for the next
signed-in source after a logout. `pool` is a bag of writes done in any order.
`Crash` loses it, `Quit` saves the session and leaves it to the pool, which has
two seconds: `Start` drops the rest. `seen` is history, reset when the list is
emptied. Left out: shuffle (the queue is the list, so `PlaylistManager`'s
operators apply with the identity), the sources "All" and "Custom", likes,
search results, `savePositionMode` 0, the age of tokens.

### SourceRouter

All of it runs on the main thread; what is asynchronous is `calls`, the set of
keychain jobs, requests and cookie looks under way, each with the service it is
for. An answer is an action (`StartChecks`, `Valid`, `VkInvalid`, `SecretRead`,
`Refreshed`, `Exchanged`, `CookiesRead`, ...) and comes at any later moment. The
keychain does its jobs in the order they were started, so what a read finds is
known when it is started. `saved` is the keychain, `clients` who has a token in
memory. The window is `closed`, `silent` or `visible`, which is what the code
asks of it (`auth.qml:13` makes the window visible in either case), and shows
one `page`; `waiting` is the last `AuthUiStateChanged`. `StartAuthFlow` is the
code's with its early return and the flag it sets; `TokenReceived`,
`AuthCodeReceived`, `YtAuthSucceeded` and `WindowClosed` are what the window may
do, `SilentAuthTimeout` its timer, `VkTokenExpired`, `YouTubeTokenExpired` and
`SpotifyRefused` the clients' signals. A command or such a signal takes a turn
(`MaxTurns`). External: the pages, the servers, the browser's cookie store,
`VkAuthService`'s dialogue (its success is `VkSignedIn`). Assumed:
`SPOTIFY_CLIENT_ID` is set, `SPOTIFY_SP_DC` and `YOUTUBE_COOKIE` are not. What a
token contains is left out.

## 3. The runs

| Run | Question | Instance | Result |
|---|---|---|---|
| `streamer` | does every chunk arrive once, in order, and does the stream end | playlists of three chunks with one or two keys and plain chunks, of one encrypted chunk (monolith), and empty; a file of two pieces; seeks to its start and end; two generations | holds |
| `streamer_hls_seek` | does a seek in HLS go on | same | **violated** |
| `playlist` | do list, queue and place fit together, does every track play | three tracks, lists of at most three, in which a track may stand twice | holds |
| `playlist_remove` | does removing another track keep the turn | same | **violated** |
| `playback_safety` | is one track fetched at a time, and is it the one asked for, heard and shown | three tracks: one that names no source, one that is on disk and found by a search; two providers, two attempts, one skip, one retry timer at a time, no crossfade; shuffle that plays or does not, and lists shuffled when they are filled; repeating all or one | holds |
| `playback_liveness` | does skipping stop, and what is heard with crossfade | two tracks of one provider, one attempt, two skips, crossfade, repeating all, one of them downloaded to disk | holds |
| `playback_download` | does a download leave playback alone | three tracks, one of which may be downloaded, each repeat mode | **violated** |
| `pipeline` | is everything decoded once, do switches, seeks and ends work | three units of data, announced as four or of unknown length, AAC over HLS or a plain MP3; two tracks, or one that is sought; chunks of one unit, watermarks of one and none | holds |
| `pipeline_hls_mp3` | does an MP3 over HLS end | fourteen units, high and low watermarks of eight and two | **violated** |
| `library_sync` | is the list the active source's library | a service with two pages and one asked for all pages at once; two fetches; one change of source, logout or end of the program; two of three tracks on disk; two pooled writes | holds |
| `sign_in` | does whoever waits have a window, and is a change of source answered | four services, no token saved or all; three commands or signals, one look for cookies more | holds |
| `sign_in_silent` | does the visible window come up only when the silent sign-in failed | the same | **violated** |

### What the properties say

* `NetworkStreamer`: `NoChunkLostOrDoubled` (seven places partition the
  playlist), `InFlightIsExact`, `EndIsTheEnd`, `DecryptedWithOwnKey`,
  `ImplementsOrderedStream`, `StreamEnds`.
* `PlaylistManager`: `QueueIsPermutation`, `PlaceInQueue`,
  `OrderedUnlessShuffled`, `NextFollowsPeek`, `EveryTrackPlays`;
  `EditKeepsPlace` is proved only (`PlaceKept`).
* `PlaybackController`: `OneRequest`, `OnlyAskedIsWanted`, `CurrentIsHeard`,
  `FinishIsOfCurrent`, `FetchAheadSparesRequest`, `SkippingStops`.
* `AudioPipeline`: `NothingLost`, `NoSharedSlot`, `RingIsQueue` (refinement of
  `PcmQueue` inside the composition), `FullIsPaused`, `CleanSwitch`,
  `EndNotEarly`, `NearBeforeEnd`, `TrackEnds`.
* `LibrarySync`: `OnlyActiveSource`, `StoredUnderItsSource`, `CurrentIsInPlace`,
  `FetchedInFront`, `LibraryArrives`.
* `SourceRouter`: `WaitingMeansWindow`, `SilentSignInEnds`, `SwitchAnswered` (a
  switch that is not answered was dropped by `OnVkTokenExpired`, which the
  property allows and names), and `PageIsOfService` and `SilentSparesWaiting`,
  which are proved only. Proved only is also `NothingFallsBetween` of
  `LibrarySync`, the safety half of `LibraryArrives`.

Each of those that a run checks is violated by a mutant of a mapped definition,
a mistake the code could plausibly have (`...Mutant` beside the definition).

### Bounds

* `MaxGeneration = 2`: a stale result is one of an earlier generation; a third
  generation sees both older ones in the same way.
* Three chunks: one held back, one late and one to be dequeued; with fewer a gap
  in the reorder buffer cannot be followed by a run.
* Lists of three: an edit before, at and after the place; a shuffled queue that
  is not the reverse of the other.
* `MaxAttempts` and `MaxSkips` are 3 and 5 in the code; two of each let a count
  be reset, reach its limit, and stop; the safety run has one skip, for a second
  one only repeats the step, the liveness run two. `MaxTimers` 1: a second retry
  needs another request, which `OneRequest` excludes; the proof has no such
  bound.
* `pipeline`: every buffer can be empty, partly full and full; with three units
  one is in the decoder's hands, one at the mark and one beyond it, so that a
  delivery without its look at the watermark breaks `FullIsPaused`. The slack
  `EndSlack` of two units stands for the five seconds before which an underflow
  is not an end. `TrackEnds` is about lengths that fit (`LengthFits`): up to
  `MinDecode - 1` units may stay undecoded, so a length is announced as at most
  `EndSlack` less those too long. In the code that is five seconds but for less
  than 8 KiB of MP3; a track announced as longer than that, or with duration 0,
  does not end (section 5). The metadata are wrong by one unit, or say nothing.
  The position sought is where the track is near its end. A track is not
  replaced while a `SeekTo` is posted. `pipeline_hls_mp3` needs a longer track:
  the watermarks apart, and the MP3 buffer fuller than the low one.
* `library_sync`: two fetches are what it takes to overlap. `MaxTurns` 1 leaves
  a switch, a logout followed by the search for another source, a crash and a
  quit, but not a switch away and back; Yandex' library is one page here, so
  that pages out of order are only covered by the theorem (`InFrontInOrder`),
  which has any number of them; the safety invariants were explored for
  `MaxTurns` 2 without reaching the end of the state space.
* `sign_in`: the four services cover each way in: a token of VK with its secret
  and `VkAuthService`, Yandex's token with a second read, Spotify's code,
  YouTube's cookies and silent window; SoundCloud behaves as Yandex without the
  second read. Three turns let a sign-in for one service meet a signal of
  another and a change of source. `MaxRetries` is 8 in the code: all that
  matters is that there is a last look and one before it.
* A bound is a guard on the action that would pass it, so no fairness assumption
  asks for what a bound forbids; `MaxWrites` blocks a reply until the pool has
  run a task, for which there is fairness.

### Fairness

* Streamer: requests are answered or fail, pool tasks end, posted results are
  handled, and the poll resumes a paused download. The streamer sets no transfer
  timeout, so a connection that stays open and delivers nothing is outside of
  what `StreamEnds` and `TrackEnds` say.
* Playlist: a track that plays ends, then `Next` is called. Nothing is assumed
  of the user.
* Playback: the event loop runs the handlers it has been given, timers fire,
  providers answer. VK and YouTube set a transfer timeout (five or eight
  seconds) on their requests for a URL; Yandex (`YandexClient.cpp:336-354`) and
  SoundCloud (`SoundCloudClient.cpp:326-327`, `367-369`) do not, and of them an
  answer is an assumption. Not assumed: that the engine plays to an end.
  `SkippingStops` counts the skips the code counts, those of restricted tracks:
  tracks without a provider (`PlaybackController.cpp:187-191`) and files that
  cannot be decoded (`:131-132`) are skipped without a count.
* Pipeline: a strong condition for the main thread's handlers (the download
  delivers until it ends or breaks off, a clear or seek that has begun is
  finished, a posted `SeekTo` is handled), because the poll, which takes two
  steps here, keeps putting them off, while the event loop leaves no event out;
  a weak one each for the poll, the decoder and the callback. Hence `TrackEnds`
  is about a player that is not paused for ever.
* Library: requests are answered or fail, as for the streamer, and the pool goes
  on. Nothing is assumed of keychain, user or router. The condition is on the
  part of `Reply` that consumes the answer, which is cheaper to evaluate and is
  enabled whenever an answer is due.
* Router: keychain jobs end, requests are answered or fail, and the timer of a
  silent sign-in fires. Nothing is assumed of the user or of a page.

Deadlock is not checked where the user may simply do nothing more or a counter
has reached its bound.

## 4. What is proved

No theorem assumes more than the named `ASSUME`s of the constants
(`NetworkStreamerAssumption`, ...), which TLC evaluates for the instances; these
say what the constants are, not which values the runs give them.

* **NetworkStreamer**. `NoChunkLostOrDoubled` alone is not inductive: a step
  needs to know that the places lie in the window `nextEmit .. Dequeued - 1` and
  that they are numbered without gaps. `IInv` says so (`PlaylistInv`,
  `WindowInv`), with what is posted at most once (`WorkInv`), what is around
  without a playlist (`NoPlaylistInv`) and that after the end everything is
  quiet. From it: `TypeCorrect`, `NothingLost`, `InFlightExact`, `EndAtTheEnd`;
  and `Refinement`: every step is a step of `OrderedStream` or a stutter.
  `EmittedInv` is what the refinement needs of the past. `OwnKeys`: as long as
  no request fails, a chunk is decrypted with its own key. `KeyInv` says why:
  the key held is that of `m_loadedKeyUrl` unless a key is being fetched, and
  that of the chunk whose bytes are under way. After a failed request for a key
  it is not, and the code decrypts with the wrong one.
* **PlaylistManager**. `Invariance`: the queue is a permutation of the list, the
  place is within it, or 1 for an empty list (the code leaves 0 there, and the
  other reads rely on it); it holds whatever the read beyond the end of the
  queue yields (`ReadQueue`). From it `Permutation`, `PlaceExists`, and, as
  action properties, `PlaceKept`, `Ordered` and `PeekIsKept`. The main lemmas
  are about `Inserted` and `Moved`: shifting the positions of a permutation
  gives a permutation with the same element at the shifted place. `Ordered`
  rests on the same shifts giving the identity when they start from it, and on
  the invariant where shuffle is turned off for an empty list, which rebuilds
  nothing; `PeekIsKept` on the place's being within the queue.
* **PlaybackController**. For any lists, sources and downloaded files, with and
  without crossfade, whether or not a shuffle plays. `IInv` is needed because
  between the playlist's callback and `AttemptPlay` the old request is still
  there for a track that is no longer current: it says what `call` is then, that
  what was asked for last is the current track unless a shuffle has moved that
  one (`strayed`), and that requests and timers carry real tracks with attempts
  left. `SingleRequest` and `AskedWanted` follow. `QuietInv` adds that while
  something is heard that was not left for a crossfade (`fading`), it is what
  was asked for and nothing is waited for; `CurrentHeard`, `FinishOfCurrent` and
  `FetchAheadSpares` follow, each with that exception: a track left for a
  crossfade does skip the next one when it ends, and its fetch-ahead does take
  the request.
* **RingBuffer**. The invariant has a part for a write under way (`WriterInv`:
  it fits behind what is there, or a clear has overtaken it) and one for a read
  (`ReaderInv`). `SlotsApart`: for every size, decoder and callback never touch
  the same slot. `RingImplementsQueue`: refinement of `PcmQueue`, by `From(f, r,
  n)`, the items between tail and head.
* **AudioPipeline**. For all sizes of buffers and chunks, formats, lengths and
  targets, and any number of tracks and seeks. `IInv` is the types, what each
  thread can hold at each place (`ThreadInv`), how far a handler in two parts
  has got (`HandlerInv`), what may be of which track (`AgeInv`) and `Ring!IInv`,
  whose preservation is taken from `RingBuffer_proofs`, since every step of the
  pipeline is one of the ring buffer or leaves it alone; from this come
  `SlotsApart` and `RingQueues`. On top of it stand four arguments: `NearFirst`
  by `NearInv`, the order in which a position raises the two triggers;
  `SwitchClean` and `EndInTime` by `QuietInv`, which has to say where everything
  that can still be heard is of the current track (`SoundInv`) and, since the
  end is decided by the clock, by how much that may be ahead of what was heard
  (`ClockInv`); `FullPauses` by `SizeInv` and `WaterInv`: the size the
  watermarks go by is short of the true one by what the decoder holds, at most
  `Take`, and a stream beyond the mark is paused since its last delivery; and
  `AllHeard` by `Whole`: the four buffers, in order, end with exactly what was
  delivered and not heard (`Fits`), a statement about sequences that each step
  splits or appends to.
* **SourceRouter**. For any set of services and any number of commands.
  `WaitingSafe` alone is not inductive: that the window stays while the
  interface waits depends on `StartAuthFlow`'s early return (`flowActive`), on
  the page being that of the service, which decides what a success closes, and
  on the silent window having its timer. `FlowInv` says so; `PageSafe` and
  `SilentSpares` follow.

* **LibrarySync**. For any services, libraries, page sizes and any number of
  fetches, switches, logouts, crashes and pooled writes. None of the four
  invariants is inductive. `OnlyActiveSource` needs that what is read back from
  the database and what waits in the pool to be written there is of its source
  too (`GoodDisk`, `GoodPool`), so it is proved together with
  `StoredUnderItsSource`. `CurrentIsInPlace` needs that nothing is listed before
  playback has started (`GoodMemory`). `FetchedInFront` needs most: that
  `m_syncIndex` is the number of tracks seen, that what a fetch has brought is
  disjoint from what it may still bring (`Ahead`, `InOrder`), and that
  `m_syncExistingIds` has every listed track until the fetch is over
  (`NoneTwice`). The handlers fold over a page and queries over a table; what a
  fold computes is proved by walking along it: `Least` of `SequenceLemmas` takes
  the first place at which a set of numbers ends, `UpTo` and `Iterated` follow,
  and a lemma says of each fold what one step keeps (`PlacedFacts`, then
  `AllPlacedFacts` and `AllPlacedInFront`; `KeptFacts`; `NamedFacts`).
  `NothingFalls` is about two states: as long as the source stays and nothing
  fails, each track that is in the list or `Ahead` of a fetch is so after every
  step; with `FetchCovers`, that a fetch covers its library when it begins, only
  the fairness of the answers is left of `LibraryArrives`. It rests on
  `NoneSkipped`: pages that are full, short, empty, or counted by rounding up,
  leave no gap between them.

Only model-checked: liveness (`StreamEnds`, `EveryTrackPlays`, `SkippingStops`,
`TrackEnds`, `LibraryArrives`, `SilentSignInEnds`, `SwitchAnswered`), out of the
prover's reach. Every invariant and every action property that a passing run
checks is also a theorem.

## 5. Findings

1. **A seek in an HLS stream ends it** (`NetworkStreamer.cpp:563`): the chunks
   are cleared before the target is looked up among them.
2. **Removing an earlier track skips one** (`PlaylistManager.cpp:392`): the
   place is rebuilt from the shortened list.
3. **A download to disk silences playback** (`TuiTrackService.cpp:114`): it
   takes the provider's one request, whose callback is never called.
4. **An MP3 over HLS stalls** (`MiniaudioEngine.cpp:540`): the size the
   watermark reads is not updated while the decoder lives from its second
   buffer, so the paused download is never resumed.
5. **A silent sign-in that succeeds opens the visible window**
   (`SourceRouter.cpp:285`): its timer is not stopped, and playback is
   cancelled. (`auth.qml:13` makes the silent window visible as well; silent and
   visible are the code's words.)

Seen while modelling, and contradicting nothing that the repository states:

* `Next` at the end of a shuffled queue that is repeated increments
  `m_queueIndex` and calls `RebuildQueue`, which reads `m_playQueue` one beyond
  its end (`PlaylistManager.cpp:91`, from `:141` and `:144`). A new queue does
  not use what it finds there, so the place is within it in any case, unless the
  read itself is trapped.
* The track shown, liked and saved is not always the one heard: toggling shuffle
  changes it without playing it, by default (`PlaylistManager.cpp:252`), and so
  does the shuffle restored when the source is changed while a track plays
  (`PlaybackSessionService.cpp:109-113`).
* With crossfade, the end of the track that is left playing skips the one that
  was asked for (`PlaybackController.cpp:169`), and its near-end takes the
  provider's one request from it (`:86`).
* Tracks without a provider and files that cannot be decoded are skipped without
  a count, so a list of nothing else goes round for ever
  (`PlaybackController.cpp:187-191`, `:131-132`).
* A track of duration 0 (`YouTubeClient.cpp:253`, `:303`), or one announced as
  more than five seconds longer than it is, never ends
  (`MiniaudioEngine.cpp:383`, `:394`): silence follows it until the user does
  something.
* The end of a track may be reported before its near-end: the callback may raise
  both between the two exchanges of the poll (`MiniaudioEngine.cpp:914`,
  `:920`), and the near-end is then reported at the next one.
* One failed chunk of an HLS stream holds back all that come after it
  (`NetworkStreamer.cpp:324`).
* `OnVkTokenExpired` does nothing while `m_isAuthFlowActive` is set
  (`SourceRouter.cpp:362`), which some ways a sign-in ends leave it, so that a
  change of source to VK may go unanswered.
* The choice to work offline after `ProviderReady`, while pages are still being
  fetched, fills the list from the database, and what the pages still bring is
  listed twice (`ApplicationCore.cpp:200`).
* Of two fetches under way, which a VK sign-in in the terminal interface begins,
  the first to end is announced as the end of the synchronisation
  (`ApplicationCore.cpp:321`), and what the other still brings is listed twice.
* A seek posts `SeekTo` and clears the engine at once: what the old download
  delivers in between is heard at the new place, and a track replaced in between
  is sought itself (`ApplicationCore.cpp:174`).
* After a refusal of Spotify has cleared the flag of a sign-in under way, the
  next sign-in, a silent renewal among them, takes the window of the first
  (`SourceRouter.cpp:355`).
* A renewal or a look for cookies under way at a logout saves a token again
  (`SourceRouter.cpp:640`).
* The PKCE verifier is one member, overwritten by the next sign-in
  (`SpotifyClient.cpp:103`).
* Network errors reset the count of skips, so without a network the player goes
  round the list (`PlaybackController.cpp:213`).

`FetchedInFront` therefore asks that one fetch at a time reach the list, none
from before a `ProviderReady`, and that the offline mode not be asked for after
it: without that, duplicates are reachable, also by a page that arrives between
a logout and the switch that follows it.

## 6. Not modelled, and the plan

Reasons are given for each component in `PROJECT.json`. In order:

1. `VkAuthService`: the dialogue of login, password, code and captcha, whose
   replies do not say which login they answer.
2. `TrackDownloader`: partial files, renaming, two downloads of one track.
3. `LibrarySync` with likes (`TuiTrackService`), shuffle and the sources "All"
   and "Custom"; the search over all sources.
4. Crossfade and local files in `AudioPipeline`; a composition of streamer and
   pipeline through `OrderedStream`; `CoverArtRenderer`'s cache.
5. Proofs: the safety half of the other liveness properties, as `NothingFalls`
   is of `LibraryArrives`.

The mapped lines are a small share of all lines of the repository because the
vendored codecs (`miniaudio.h`, `libs/fdk-aac`, `minimp3`, `tiny-aes`) hold most
of them; these are modelled by what the player gets from them. Drawing, parsing
and wire formats make up most of the rest.

Hazards with no property yet are listed in `PROJECT.json` with a note.
