--------------------------- MODULE NetworkStreamer ---------------------------
(***************************************************************************)
(* services/network/NetworkStreamer: downloads one track at a time, either  *)
(* as one HTTP response ("direct") or as the chunks of an HLS playlist,     *)
(* and hands the bytes to the audio engine through DataReceived.            *)
(*                                                                         *)
(* Every handler runs on the Qt event loop and is one action here.  Only    *)
(* AES decryption leaves that thread: it is a job on the global thread      *)
(* pool, which reads the atomic stream generation and posts its result      *)
(* back to the event loop.  Chunks are downloaded one after the other but   *)
(* decrypted concurrently, so their results come back in any order and go   *)
(* through a reorder buffer.                                                *)
(*                                                                         *)
(* Data is abstracted to what the properties tell apart: a chunk is its     *)
(* media sequence number and the key that encrypts it, its bytes are "some" *)
(* (TRUE) or "none" (FALSE); a direct file is FileSize numbered pieces.     *)
(***************************************************************************)
EXTENDS Integers, Sequences, FiniteSets

CONSTANTS
  Manifests,      \* the playlists a server may answer with
  Keys, NoKey,    \* AES keys (one per key URL); NoKey: not encrypted
  FileSize,       \* pieces of a direct file
  SeekTargets,    \* positions a user may seek to
  DurationKnown,  \* m_trackDurationSec > 0
  MaxGeneration   \* bound: no stream is started or sought beyond it

\* A playlist is the sequence number of its first chunk and each chunk's key.
ASSUME NetworkStreamerAssumption ==
  /\ NoKey \notin Keys
  /\ \A man \in Manifests : /\ man.base \in Nat
                            /\ man.keys \in Seq(Keys \cup {NoKey})
  /\ FileSize \in Nat \ {0}
  /\ SeekTargets \subseteq 0 .. FileSize
  /\ DurationKnown \in BOOLEAN
  /\ MaxGeneration \in Nat

VARIABLES
  gen,       \* m_streamGeneration
  type,      \* m_streamType
  pending,   \* m_pendingSeekPos, -1: none
  total,     \* m_totalFileSize
  chunks,    \* m_hlsChunks
  queue,     \* m_chunkQueue
  cur,       \* m_currentChunk
  key,       \* m_aesKey
  keyUrl,    \* m_loadedKeyUrl
  reply,     \* m_reply: what the outstanding request is for
  at,        \* the next piece the server sends on a direct request
  nextEmit,  \* m_nextEmitSequence
  ready,     \* m_readyChunks
  inFlight,  \* m_chunksInFlight
  paused,    \* m_isPaused
  jobs,      \* decryptions on the thread pool
  posted,    \* finished decryptions queued on the event loop
  emitted,   \* history: what DataReceived carried in this generation
  lost,      \* history: chunks dropped without a delivery
  ends,      \* history: DownloadFinished signals of this generation
  errored    \* history: DownloadError was signalled in this generation

streamVars == <<gen, type, pending, total, chunks>>
fetchVars == <<queue, cur, key, keyUrl, reply, at>>
orderVars == <<nextEmit, ready, inFlight, paused>>
history == <<emitted, lost, ends, errored>>
vars == <<streamVars, fetchVars, orderVars, jobs, posted, history>>

Chunk == [seq : Nat, key : Keys \cup {NoKey}]
NoChunk == [seq |-> 0, key |-> NoKey]
Empty == [s \in {} |-> FALSE]
Types == {"unknown", "direct", "hls", "monolith"}
Replies == {"none", "manifest", "key", "chunk", "direct"}

Init ==
  /\ gen = 0 /\ type = "unknown" /\ pending = -1 /\ total = 0 /\ chunks = <<>>
  /\ queue = <<>> /\ cur = NoChunk /\ key = NoKey /\ keyUrl = NoKey
  /\ reply = "none" /\ at = 0
  /\ nextEmit = 0 /\ ready = Empty /\ inFlight = 0 /\ paused = FALSE
  /\ jobs = {} /\ posted = {}
  /\ emitted = {} /\ lost = {} /\ ends = 0 /\ errored = FALSE

-----------------------------------------------------------------------------
(* ParseM3u8: the chunks a playlist stands for, and the kind of stream. *)

Chunks(man) ==
  [i \in 1 .. Len(man.keys) |-> [seq |-> man.base + i - 1, key |-> man.keys[i]]]

HlsType(cs) ==
  IF Len(cs) = 1 /\ cs[1].key # NoKey THEN "monolith" ELSE "hls"

\* Mutant: the counter of decryptions survives the generation.
StopMutant ==
  /\ gen' = gen + 1
  /\ cur' = NoChunk /\ key' = NoKey /\ keyUrl' = NoKey
  /\ ready' = Empty /\ inFlight' = inFlight /\ paused' = FALSE
  /\ emitted' = {} /\ lost' = {} /\ errored' = FALSE

(***************************************************************************)
(* StopDownload: a new generation with nothing queued, collected, decoded   *)
(* or outstanding.  Requests are disconnected and aborted, so no handler    *)
(* of theirs runs any more; decryptions go on, as strangers.                *)
(***************************************************************************)
Stop ==
  /\ gen' = gen + 1
  /\ cur' = NoChunk /\ key' = NoKey /\ keyUrl' = NoKey
  /\ ready' = Empty /\ inFlight' = 0 /\ paused' = FALSE
  /\ emitted' = {} /\ lost' = {} /\ errored' = FALSE

\* StartDownload: request a playlist (an URL with ".m3u8") or the file itself.
StartDownload(what) ==
  /\ gen < MaxGeneration
  /\ Stop
  /\ type' = "direct" /\ pending' = -1 /\ total' = 0
  /\ chunks' = <<>> /\ queue' = <<>>
  /\ reply' = what /\ at' = 0
  /\ ends' = 0
  /\ UNCHANGED <<nextEmit, jobs, posted>>

\* Mutant: the key that is loaded is taken for every chunk's key.
NeedsKeyMutant(c) == c.key # NoKey /\ key = NoKey

(***************************************************************************)
(* DownloadNextChunk on a non-empty queue: dequeue, then ask for the        *)
(* chunk's key if another key (or none) is loaded, else for the chunk.      *)
(***************************************************************************)
NeedsKey(c) == c.key # NoKey /\ (key = NoKey \/ keyUrl # c.key)

Advance(q) ==
  /\ cur' = Head(q)
  /\ queue' = Tail(q)
  /\ reply' = IF NeedsKey(Head(q)) THEN "key" ELSE "chunk"
  /\ keyUrl' = IF NeedsKey(Head(q)) THEN Head(q).key ELSE keyUrl

\* Mutant: decryptions under way are forgotten when the end is announced.
DrainedMutant == queue' = <<>> /\ ready' = Empty /\ reply' = "none"

\* The test all places that announce the end make; ends is the old count.
Drained == queue' = <<>> /\ ready' = Empty /\ reply' = "none" /\ inFlight' = 0
AnnounceEnd == ends' = IF Drained THEN ends + 1 ELSE ends

(***************************************************************************)
(* SeekTo in an HLS stream: StopDownload empties m_hlsChunks before the     *)
(* target chunk is looked up in it.  The lookup reads element 0 of the      *)
(* emptied list: undefined, in a build without assertions what is left in   *)
(* that memory (old or reused).  Nothing is queued, so the download ends.   *)
(***************************************************************************)
StaleSequence(cs) == {cs[1].seq, 0}

SeekHls(cs) ==
  /\ Stop
  /\ chunks' = <<>> /\ queue' = <<>> /\ reply' = "none"
  /\ nextEmit' \in StaleSequence(cs)
  /\ ends' = 1

\* Stopped, and that is all: what StopDownload leaves for no new request, and
\* SeekTo in an encrypted one-chunk stream.
Halt ==
  /\ Stop
  /\ chunks' = <<>> /\ queue' = <<>> /\ reply' = "none"
  /\ ends' = 0
  /\ UNCHANGED nextEmit

\* StopDownload called on its own, when another track is asked for, a local
\* file is played, the playlist is cleared or playback is cancelled.
StopDownload ==
  /\ gen < MaxGeneration
  /\ Halt
  /\ UNCHANGED <<type, pending, total, at, jobs, posted>>

\* Mutant: the ranged request is off by one.
SeekDirectMutant(t) ==
  /\ Stop
  /\ chunks' = <<>> /\ queue' = <<>>
  /\ IF DurationKnown
       THEN reply' = "direct" /\ at' = t + 1
       ELSE reply' = "none" /\ at' = at
  /\ ends' = 0
  /\ UNCHANGED nextEmit

\* SeekTo in a direct stream: a ranged request, if the duration is known.
SeekDirect(t) ==
  /\ Stop
  /\ chunks' = <<>> /\ queue' = <<>>
  /\ IF DurationKnown
       THEN reply' = "direct" /\ at' = t
       ELSE reply' = "none" /\ at' = at
  /\ ends' = 0
  /\ UNCHANGED nextEmit

\* SeekTo, from the engine's queued seek request.
SeekTo(t) ==
  \/ /\ chunks = <<>> /\ total = 0
     /\ pending' = t
     /\ UNCHANGED <<gen, type, total, chunks, fetchVars, orderVars, jobs, posted, history>>
  \/ /\ ~(chunks = <<>> /\ total = 0)
     /\ gen < MaxGeneration
     /\ \/ type = "direct" /\ SeekDirect(t)
        \/ type = "hls" /\ chunks # <<>> /\ SeekHls(chunks) /\ at' = at
        \/ type = "monolith" /\ Halt /\ at' = at
     /\ UNCHANGED <<type, pending, total, jobs, posted>>

-----------------------------------------------------------------------------
(* Answers to the playlist and key requests. *)

\* ParseM3u8: fresh queue and reorder buffer, then the deferred seek, if any,
\* or the first chunk.
ManifestReceived(man) ==
  LET cs == Chunks(man) IN
  /\ reply = "manifest"
  /\ type' = HlsType(cs)
  /\ \/ /\ pending >= 0 /\ cs # <<>>
        /\ pending' = -1
        /\ \/ HlsType(cs) = "hls" /\ SeekHls(cs)
           \/ HlsType(cs) = "monolith" /\ Stop
              /\ chunks' = <<>> /\ queue' = <<>> /\ reply' = "none" /\ ends' = 0
              /\ nextEmit' = man.base
     \/ /\ pending < 0 \/ cs = <<>>
        /\ pending' = pending
        /\ chunks' = cs
        /\ nextEmit' = man.base /\ ready' = Empty /\ inFlight' = 0
        /\ IF paused \/ pending >= 0 \/ cs = <<>>
             THEN /\ queue' = cs /\ reply' = "none"
                  /\ UNCHANGED <<cur, keyUrl>>
             ELSE Advance(cs)
        /\ IF paused \/ pending >= 0 THEN ends' = ends ELSE AnnounceEnd
        /\ UNCHANGED <<gen, key, paused, emitted, lost, errored>>
  /\ UNCHANGED <<total, at, jobs, posted>>

\* The playlist request fails: reported, by errorOccurred and again here.
ManifestFailed ==
  /\ reply = "manifest"
  /\ reply' = "none" /\ errored' = TRUE
  /\ UNCHANGED <<streamVars, queue, cur, key, keyUrl, at, orderVars, jobs, posted,
                 emitted, lost, ends>>

\* The key arrives: the dequeued chunk is requested, paused or not.
KeyReceived ==
  /\ reply = "key"
  /\ key' = keyUrl /\ reply' = "chunk"
  /\ UNCHANGED <<streamVars, queue, cur, keyUrl, at, orderVars, jobs, posted, history>>

\* The key does not arrive: logged, and the dequeued chunk is forgotten.  The
\* old key stays in m_aesKey under the new m_loadedKeyUrl.
KeyFailed ==
  /\ reply = "key"
  /\ reply' = "none" /\ lost' = lost \cup {cur.seq}
  /\ UNCHANGED <<streamVars, queue, cur, key, keyUrl, at, orderVars, jobs, posted,
                 emitted, ends, errored>>

-----------------------------------------------------------------------------
(* The direct download. *)

\* OnReadyRead: the first data tell the size, which releases a deferred seek;
\* otherwise the data go straight to the engine.
DirectData(size) ==
  /\ reply = "direct" /\ at < FileSize
  /\ size \in {0, FileSize}     \* the Content-Length may be missing
  /\ total' = IF total = 0 THEN size ELSE total
  /\ IF total = 0 /\ pending > 0 /\ total' > 0 /\ DurationKnown
       THEN pending' = -1 /\ SeekDirect(pending)
       ELSE /\ at' = at + 1
            /\ emitted' = emitted \cup {at}
            /\ UNCHANGED <<gen, pending, chunks, queue, cur, key, keyUrl, reply,
                           orderVars, lost, ends, errored>>
  /\ UNCHANGED <<type, jobs, posted>>

\* OnChunkFinished of a complete direct download: the unread rest, and the end.
DirectFinished ==
  /\ reply = "direct"
  /\ reply' = "none"
  /\ emitted' = emitted \cup at .. (FileSize - 1)
  /\ ends' = ends + 1
  /\ UNCHANGED <<streamVars, queue, cur, key, keyUrl, at, orderVars, jobs, posted,
                 lost, errored>>

\* A direct download that breaks off is an error and, to the engine, the end.
DirectFailed ==
  /\ reply = "direct"
  /\ reply' = "none"
  /\ errored' = TRUE
  /\ ends' = ends + 1
  /\ UNCHANGED <<streamVars, queue, cur, key, keyUrl, at, orderVars, jobs, posted,
                 emitted, lost>>

-----------------------------------------------------------------------------
(* The chunks of a playlist. *)

\* The reorder buffer r is emptied from position n on until m is missing; a
\* smaller element at its front would stop that loop before it began.
DrainsTo(r, n, m) ==
  IF \E s \in DOMAIN r : s < n
    THEN m = n
    ELSE m >= n /\ n .. (m - 1) \subseteq DOMAIN r /\ m \notin DOMAIN r

\* Mutant: no reorder buffer, chunks go to the engine as they come.
DeliverMutant(seq, full, flights) ==
  /\ nextEmit' = nextEmit + 1
  /\ emitted' = emitted \cup (IF full THEN {seq} ELSE {})
  /\ inFlight' = flights
  /\ UNCHANGED <<ready, paused>>
  /\ AnnounceEnd

(***************************************************************************)
(* DeliverChunk in its own generation: into the reorder buffer, then all    *)
(* that is in order to the engine (whose watermark test may pause the       *)
(* download), then perhaps the end.                                         *)
(***************************************************************************)
Deliver(seq, full, flights) ==
  LET r == [s \in DOMAIN ready \cup {seq} |-> IF s = seq THEN full ELSE ready[s]]
  IN  \E m \in nextEmit .. (nextEmit + Cardinality(DOMAIN r)) :
        LET out == {s \in nextEmit .. (m - 1) : r[s]} IN
        /\ DrainsTo(r, nextEmit, m)
        /\ nextEmit' = m
        /\ ready' = [s \in DOMAIN r \ (nextEmit .. (m - 1)) |-> r[s]]
        /\ emitted' = emitted \cup out
        /\ paused' \in {paused, paused \/ out # {}}
        /\ inFlight' = IF flights < 0 THEN 0 ELSE flights
        /\ AnnounceEnd

\* Pipelining: the next chunk is requested before the last one is processed.
Pipeline ==
  IF ~paused /\ queue # <<>>
    THEN Advance(queue)
    ELSE reply' = "none" /\ UNCHANGED <<queue, cur, keyUrl>>

\* OnChunkFinished of a plain chunk, or of an encrypted one that turns out to
\* be an HTML page (and counts as empty): delivered at once.
ChunkFinishedPlain(full) ==
  /\ reply = "chunk"
  /\ cur.key = NoKey \/ ~full
  /\ Pipeline
  /\ Deliver(cur.seq, full, inFlight)
  /\ UNCHANGED <<streamVars, key, at, jobs, posted, lost, errored>>

\* OnChunkFinished of an encrypted chunk: a decryption with the loaded key.
ChunkFinishedEncrypted ==
  /\ reply = "chunk"
  /\ cur.key # NoKey
  /\ Pipeline
  /\ inFlight' = inFlight + 1
  /\ jobs' = jobs \cup {[seq |-> cur.seq, gen |-> gen, key |-> key]}
  /\ UNCHANGED <<streamVars, key, at, nextEmit, ready, paused, posted, history>>

\* OnChunkFinished after a network error: the chunk is skipped without a
\* delivery, so its place in the reorder buffer stays empty.
ChunkFailed ==
  /\ reply = "chunk"
  /\ errored' = TRUE
  /\ lost' = lost \cup {cur.seq}
  /\ Pipeline
  /\ ends' = IF queue = <<>> /\ ready = Empty /\ inFlight = 0 THEN ends + 1 ELSE ends
  /\ UNCHANGED <<streamVars, key, at, orderVars, jobs, posted, emitted>>

\* A pool thread ends a decryption and posts the outcome: nothing if the
\* generation has moved on or the bytes or the key are unusable.
FinishJob(j, full) ==
  /\ j \in jobs
  /\ full => j.gen = gen
  /\ jobs' = jobs \ {j}
  /\ posted' = posted \cup {[seq |-> j.seq, gen |-> j.gen, full |-> full]}
  /\ UNCHANGED <<streamVars, fetchVars, orderVars, history>>

\* Mutant: deliveries of an old generation are accepted.
DeliverPostedMutant(d) ==
  /\ d \in posted
  /\ posted' = posted \ {d}
  /\ UNCHANGED <<queue, reply>>
  /\ Deliver(d.seq, d.full, inFlight - 1)
  /\ UNCHANGED <<streamVars, cur, key, keyUrl, at, jobs, lost, errored>>

\* The event loop runs a posted DeliverChunk; one of an old generation is void.
DeliverPosted(d) ==
  /\ d \in posted
  /\ posted' = posted \ {d}
  /\ IF d.gen # gen
       THEN UNCHANGED <<queue, reply, orderVars, emitted, ends>>
       ELSE /\ UNCHANGED <<queue, reply>>
            /\ Deliver(d.seq, d.full, inFlight - 1)
  /\ UNCHANGED <<streamVars, cur, key, keyUrl, at, jobs, lost, errored>>

-----------------------------------------------------------------------------
(* Flow control, from the 20 ms poll of the engine's buffer. *)

PauseDownload ==
  /\ type # "direct"
  /\ ~paused /\ paused' = TRUE
  /\ UNCHANGED <<streamVars, fetchVars, nextEmit, ready, inFlight, jobs, posted, history>>

\* Mutant: the resumed download waits for a chunk that nobody requests.
ResumeDownloadMutant ==
  /\ paused /\ paused' = FALSE
  /\ UNCHANGED <<streamVars, fetchVars, nextEmit, ready, inFlight, jobs, posted, history>>

ResumeDownload ==
  /\ paused /\ paused' = FALSE
  /\ IF type # "direct" /\ reply = "none" /\ queue # <<>>
       THEN Advance(queue)
       ELSE UNCHANGED <<queue, cur, keyUrl, reply>>
  /\ UNCHANGED <<streamVars, key, at, nextEmit, ready, inFlight, jobs, posted, history>>

-----------------------------------------------------------------------------

Requests == \/ \E what \in {"manifest", "direct"} : StartDownload(what)
            \/ StopDownload
            \/ \E t \in SeekTargets : SeekTo(t)

Answers == \/ \E man \in Manifests : ManifestReceived(man)
           \/ ManifestFailed
           \/ KeyReceived \/ KeyFailed
           \/ \E size \in {0, FileSize} : DirectData(size)
           \/ DirectFinished \/ DirectFailed
           \/ \E full \in BOOLEAN : ChunkFinishedPlain(full)
           \/ ChunkFinishedEncrypted \/ ChunkFailed

Pool == \E j \in jobs, full \in BOOLEAN : FinishJob(j, full)
Posts == \E d \in posted : DeliverPosted(d)

Next == Requests \/ Answers \/ Pool \/ Posts \/ PauseDownload \/ ResumeDownload

Spec == Init /\ [][Next]_vars

(***************************************************************************)
(* Fairness: a request is answered or fails, pool and event loop run what   *)
(* they are given, and the poll resumes a paused download once the engine   *)
(* has played what it holds.  Nothing obliges the user to start or seek.    *)
(***************************************************************************)
Fairness == /\ WF_vars(Answers)
            /\ WF_vars(Pool)
            /\ WF_vars(Posts)
            /\ WF_vars(ResumeDownload)

FairSpec == Spec /\ Fairness

-----------------------------------------------------------------------------
(* What makes the streamer correct. *)

(* The types of m_-members, thread pool jobs and posted deliveries: in      *)
(* particular m_chunksInFlight is never negative and a ranged request never *)
(* starts beyond the file.                                                  *)
TypeOK ==
  /\ gen \in Nat /\ type \in Types
  /\ pending \in {-1} \cup SeekTargets /\ total \in {0, FileSize}
  /\ chunks \in Seq(Chunk) /\ queue \in Seq(Chunk) /\ cur \in Chunk
  /\ key \in Keys \cup {NoKey} /\ keyUrl \in Keys \cup {NoKey}
  /\ reply \in Replies /\ at \in 0 .. FileSize
  /\ nextEmit \in Nat /\ inFlight \in Nat /\ paused \in BOOLEAN
  /\ DOMAIN ready \subseteq Nat /\ ready \in [DOMAIN ready -> BOOLEAN]
  /\ jobs \in SUBSET [seq : Nat, gen : Nat, key : Keys \cup {NoKey}]
  /\ posted \in SUBSET [seq : Nat, gen : Nat, full : BOOLEAN]
  /\ emitted \in SUBSET Nat /\ lost \in SUBSET Nat
  /\ ends \in Nat /\ errored \in BOOLEAN

-----------------------------------------------------------------------------
(* Where a chunk of the current playlist can be. *)

OfSequence(s) == {s[i].seq : i \in 1 .. Len(s)}
OwnJobs == {j \in jobs : j.gen = gen}
OwnPosted == {d \in posted : d.gen = gen}

Passed == {s \in OfSequence(chunks) : s < nextEmit}
Decrypting == {j.seq : j \in OwnJobs}
Decrypted == {d.seq : d \in OwnPosted}
Downloading == IF reply \in {"key", "chunk"} THEN {cur.seq} ELSE {}

Places == <<Passed, DOMAIN ready, Decrypting, Decrypted, Downloading,
            OfSequence(queue), lost>>

(* Every chunk of the playlist is in exactly one place on its way from the  *)
(* queue to the engine, or was given up: m_chunkQueue, m_currentChunk, the  *)
(* thread pool, the event queue and m_readyChunks never drop a chunk and    *)
(* never hold one twice, whatever the order of answers and decryptions.     *)
NoChunkLostOrDoubled ==
  chunks # <<>> =>
    /\ OfSequence(chunks) = UNION {Places[p] : p \in DOMAIN Places}
    /\ \A p, q \in DOMAIN Places : p # q => Places[p] \cap Places[q] = {}

(* m_chunksInFlight is exactly the number of decryptions of this stream     *)
(* that have not been delivered, though stale ones are delivered too.       *)
InFlightIsExact == inFlight = Cardinality(OwnJobs) + Cardinality(OwnPosted)

(* The end of an HLS stream is announced only when each of its chunks has   *)
(* passed the reorder buffer or was given up, and nothing is under way.     *)
EndIsTheEnd ==
  ends > 0 => /\ reply = "none" /\ OwnJobs = {} /\ OwnPosted = {}
              /\ OfSequence(chunks) \subseteq Passed \cup lost

(* As long as no request of the stream fails, a chunk is decrypted with the  *)
(* key its playlist names, although the next chunk's key is requested first. *)
DecryptedWithOwnKey ==
  lost = {} => \A j \in OwnJobs : \A i \in 1 .. Len(chunks) :
    chunks[i].seq = j.seq => chunks[i].key = j.key

(* To the engine, the streamer is an ordered stream that ends once.         *)
Ordered == INSTANCE OrderedStream
ImplementsOrderedStream == Ordered!Spec

(* A direct stream, or a playlist of several chunks, comes to its end or     *)
(* reports an error, unless another stream takes its place or a key cannot   *)
(* be had: no lost wake-up between the pause, the pool and the reorder       *)
(* buffer leaves the engine waiting for data.  (A playlist of one encrypted  *)
(* chunk may be stopped for good by a seek, and a failed key, unlike a       *)
(* failed chunk, is not reported.)                                          *)
StreamEnds ==
  \A g \in 1 .. MaxGeneration :
    gen = g /\ (reply = "direct" \/ Len(chunks) > 1)
      ~> (gen # g \/ ends > 0 \/ errored \/ lost # {})

-----------------------------------------------------------------------------
(* Why these hold: the inductive invariant, in parts.                       *)

First == chunks[1].seq
Dequeued == First + Len(chunks) - Len(queue)

\* Pool and event loop hold finitely many results, none of a later generation,
\* and at most one of each chunk.
WorkInv ==
  /\ IsFiniteSet(jobs) /\ IsFiniteSet(posted)
  /\ \A w \in jobs \cup posted : w.gen <= gen
  /\ \A v, w \in OwnJobs : v.seq = w.seq => v = w
  /\ \A v, w \in OwnPosted : v.seq = w.seq => v = w

\* Chunks are numbered in order, and the queue is what is left of them.
PlaylistInv ==
  /\ \A i \in 1 .. Len(chunks) : chunks[i].seq = First + i - 1
  /\ Len(queue) <= Len(chunks)
  /\ \A i \in 1 .. Len(queue) : queue[i] = chunks[Len(chunks) - Len(queue) + i]

\* Without a playlist nothing of a playlist is around.
NoPlaylistInv ==
  IF chunks = <<>>
    THEN /\ ready = Empty /\ OwnJobs = {} /\ OwnPosted = {} /\ lost = {}
         /\ reply \notin {"key", "chunk"}
    ELSE reply \notin {"manifest", "direct"}

\* The window between the next chunk to emit and the next to dequeue is made
\* up of the chunks that are held back, decrypted, downloaded or given up.
WindowInv ==
  chunks # <<>> =>
    /\ nextEmit \in First .. Dequeued
    /\ DOMAIN ready \cup Decrypting \cup Decrypted \cup Downloading \cup lost
         = nextEmit .. (Dequeued - 1)
    /\ DOMAIN ready \cap (Decrypting \cup Decrypted \cup Downloading \cup lost) = {}
    /\ Decrypting \cap (Decrypted \cup Downloading \cup lost) = {}
    /\ Decrypted \cap (Downloading \cup lost) = {}
    /\ Downloading \cap lost = {}

\* What was emitted lies before the next thing to emit.
EmittedInv ==
  /\ chunks # <<>> => \A s \in emitted : s < nextEmit
  /\ reply = "direct" => \A s \in emitted : s < at
  /\ reply = "manifest" => emitted = {}

\* After the end everything is quiet.
QuietInv ==
  /\ ends <= 1
  /\ ends > 0 => /\ reply = "none" /\ queue = <<>> /\ ready = Empty
                 /\ OwnJobs = {} /\ OwnPosted = {}

(* All of them together are preserved by every handler of the streamer: the  *)
(* safety properties above follow from it in every reachable state.         *)
IInv == /\ TypeOK /\ WorkInv /\ PlaylistInv /\ NoPlaylistInv /\ WindowInv
        /\ InFlightIsExact /\ EmittedInv /\ QuietInv

(* README.md:103, "Seek backward / forward": a seek in a playing HLS stream  *)
(* goes on with the chunks from the target on, it does not end the stream.  *)
SeekGoesOn ==
  [][\A t \in SeekTargets : SeekTo(t) /\ type = "hls" /\ chunks # <<>>
                              => reply' # "none" /\ ends' = 0]_vars
===============================================================================
