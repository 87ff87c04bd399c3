----------------------------- MODULE AudioPipeline -----------------------------
(***************************************************************************)
(* core/audio/miniaudio/MiniaudioEngine for network streams, with the ring  *)
(* buffer it plays from (module RingBuffer) and the watermarks by which     *)
(* ApplicationCore holds the download up.                                   *)
(*                                                                         *)
(* Three threads.  The main thread pushes what is downloaded into the       *)
(* network buffer, ends the stream, replaces the track and polls.  The      *)
(* decoder thread sleeps on a condition variable until there is enough,     *)
(* takes a chunk under the mutex and then works without it: AAC goes        *)
(* straight to the ring buffer, MP3 first into a buffer of its own.  The    *)
(* audio callback reads the ring buffer and detects the end of the track.   *)
(*                                                                         *)
(* One unit is one frame of audio, encoded or decoded; lengths of buffers   *)
(* are in units, and so are times.  A pause by the user is a callback that   *)
(* does not come.  Not here: local files and crossfade.                     *)
(***************************************************************************)
EXTENDS Integers, Sequences, FiniteSets

CONSTANTS
  Formats,     \* protocol and codec a track may have
  Total,       \* length of every track
  Durations,   \* lengths its metadata may give it
  Chunk,       \* what the streamer delivers at a time
  High, Low,   \* watermarks: 2 MiB and 512 KiB
  Take,        \* what the decoder takes at a time: 64 KiB
  MinDecode,   \* MP3 data it wants before it decodes: 8 KiB
  MinFrame,    \* MP3 data it wants for each frame: 2 KiB
  Size,        \* of the ring buffer: twelve seconds
  Room,        \* space in it that the decoder waits for: one second
  Frames,      \* what the callback asks for
  NearEnd,     \* ten seconds
  EndSlack,    \* five seconds
  Targets,     \* positions the user seeks
  MaxTracks    \* bound: tracks played, or positions sought, one after the other

Codecs == {"aac", "mp3"}

Units == [track : 0 .. MaxTracks, n : 0 .. Total, codec : Codecs]
Silence == [track |-> 0, n |-> 0, codec |-> "aac"]

VARIABLES
  main,      \* what the main thread is in the middle of
  gen,       \* counts the tracks that are played, and what is played after a seek
  format,    \* its protocol and codec
  duration,  \* m_currentDurationSec
  stream,    \* what of this the download is for
  fetched,   \* how much of it requests have been answered with, what a seek passes over
             \* included
  pushed,    \* how much of that has been delivered: an HLS stream decrypts it first
  inFlight,  \* whether NetworkStreamer has a request under way
  broken,    \* whether it has broken off
  paused,    \* NetworkStreamer::m_isPaused
  seekTo,    \* the position of the seek under way, or of the SeekTo that is posted
  aac,       \* m_aacBuffer, which holds what is downloaded in any format
  mp3,       \* m_mp3Buffer from m_mp3ReadOffset on
  netSize,   \* m_atomicNetworkBufferSize
  finished,  \* m_isNetworkFinished
  detected,  \* MpegTsDemuxer::m_format
  pc, calls, \* where the decoder thread is; calls of DecodeMp3Payload to come
  atEof,     \* isEof in that function
  local,     \* localChunk, as far as it has not been decoded
  torn,      \* whether m_mp3Buffer was cleared while it was decoded from
  slots, readPos, writePos, writing, reading,  \* m_pcmBuffer
  position,  \* m_playbackFrameCount
  nearEnd, ended,  \* the triggers m_nearEndTriggered, m_finishedTriggered
  nearSignal, endSignal,  \* m_nearEndSignaled, m_finishedSignaled
  toldNear, toldEnd,  \* history: the calls of OnTrackNearEnd, OnTrackFinished
  heard,     \* history: how much of the current track has been heard or passed over
  haunted,   \* history: whether anything of an earlier one has been heard, too
  quiet      \* history: the decoder slept when the buffers were cleared, nothing of an
             \* earlier download has come since, and a stream that is sought was not
             \* taken for one of another format

streamer == <<format, stream, fetched, pushed, inFlight, broken, paused, seekTo>>
network == <<aac, netSize, finished, detected>>
decoder == <<pc, calls, atEof, local, mp3, torn>>
ring == <<slots, readPos, writePos, writing, reading>>
signals == <<nearEnd, ended, nearSignal, endSignal>>
clock == <<duration, position>>
told == <<toldNear, toldEnd>>
history == <<heard, haunted, quiet>>
vars == <<main, gen, streamer, network, decoder, ring, signals, clock, told, history>>

Ring == INSTANCE RingBuffer WITH Items <- Units

ASSUME PipelineAssumption ==
  /\ Formats \subseteq [hls : BOOLEAN, codec : Codecs] /\ Formats # {}
  /\ Durations \subseteq Nat /\ Durations # {}
  /\ {Total, Chunk, Take, MinDecode, MinFrame, Room, Frames, MaxTracks} \subseteq Nat \ {0}
  /\ {High, Low, NearEnd, EndSlack} \subseteq Nat /\ Targets \subseteq Nat
  /\ Low < High /\ EndSlack <= NearEnd /\ Room <= Size
  /\ Ring!RingAssumption

NoSeek == -1

Init ==
  /\ main = "idle" /\ gen = 1
  /\ format \in Formats /\ duration \in Durations
  /\ stream = 1 /\ fetched = 0 /\ pushed = 0
  /\ inFlight = TRUE /\ broken = FALSE /\ paused = FALSE /\ seekTo = NoSeek
  /\ aac = <<>> /\ mp3 = <<>> /\ netSize = 0
  /\ finished = FALSE /\ detected = "none"
  /\ pc = "test" /\ calls = 0 /\ atEof = FALSE /\ local = <<>> /\ torn = FALSE
  /\ Ring!Init /\ position = 0
  /\ nearEnd = FALSE /\ ended = FALSE /\ nearSignal = FALSE /\ endSignal = FALSE
  /\ toldNear = FALSE /\ toldEnd = FALSE
  /\ heard = 0 /\ haunted = FALSE /\ quiet = TRUE

\* m_decodeCv.notify: it reaches the decoder only once that is asleep.
Notify == pc' = IF pc = "asleep" THEN "test" ELSE pc

\* The decoder holds m_networkMutex between its test and its going to sleep.
NetworkFree == pc # "dozing"

-----------------------------------------------------------------------------
(* The main thread: the download. *)

\* The next n units of the download.
Arriving(n) ==
  [i \in 1 .. n |-> [track |-> stream, n |-> pushed + i, codec |-> format.codec]]

PushKeeps == <<gen, format, stream, broken, seekTo, finished, detected, calls, atEof, local,
               mp3, torn, ring, signals, clock, told, heard, haunted>>

\* Mutant: only the timer looks at the watermark.
PushNetworkDataMutant(n) ==
  /\ NetworkFree
  /\ aac' = aac \o Arriving(n) /\ pushed' = pushed + n
  /\ netSize' = Len(aac') + Len(mp3)
  /\ paused' = paused
  /\ Notify
  /\ quiet' = (quiet /\ stream = gen)
  /\ UNCHANGED PushKeeps

\* DataReceived: the data is pushed, then the watermark looked at.
PushNetworkData(n) ==
  /\ NetworkFree
  /\ aac' = aac \o Arriving(n) /\ pushed' = pushed + n
  /\ netSize' = Len(aac') + Len(mp3)
  /\ paused' = (paused \/ (format.hls /\ netSize' >= High))
  /\ Notify
  /\ quiet' = (quiet /\ stream = gen)
  /\ UNCHANGED PushKeeps

\* A request has been answered, and the next one is made at once.  What came is
\* delivered, or held: while it is decrypted, or until all before it has been.
OnChunkFinished ==
  /\ main = "idle" /\ inFlight
  /\ fetched' = Ring!Least(fetched + Chunk, Total)
  /\ inFlight' = (fetched' < Total /\ ~paused)
  /\ \/ /\ pushed = fetched /\ PushNetworkData(fetched' - fetched)
        /\ main' = IF fetched' < Total THEN "idle" ELSE "ending"
     \/ /\ format.hls
        /\ UNCHANGED <<main, gen, format, stream, pushed, broken, paused, seekTo, network,
                       decoder, ring, signals, clock, told, history>>

\* A chunk is decrypted: it is delivered, and with it in the same handler those that
\* only waited for it, whether the download is paused or not.  Where a later chunk
\* failed, the end is reported if that was the last.
DeliverChunk ==
  /\ main \in {"idle", "delivering"} /\ pushed < fetched
  /\ PushNetworkData(Ring!Least(Chunk, fetched - pushed))
  /\ main' \in IF pushed' < fetched THEN {"idle", "delivering"}
               ELSE IF broken THEN {"idle", "ending"}
               ELSE IF pushed' < Total THEN {"idle"} ELSE {"ending"}
  /\ UNCHANGED <<fetched, inFlight>>

\* A request fails: a direct stream breaks off, and the reorder buffer of an
\* HLS stream lets nothing through that comes after what has been fetched.
DownloadError ==
  /\ main = "idle" /\ inFlight
  /\ inFlight' = FALSE /\ broken' = TRUE /\ main' = "ending"
  /\ UNCHANGED <<gen, format, stream, fetched, pushed, paused, seekTo, network, decoder, ring,
                 signals, clock, told, history>>

\* The flag is set and the decoder notified without the mutex.
SetNetworkStreamFinished ==
  /\ main = "ending" /\ main' = "idle"
  /\ finished' = TRUE /\ Notify
  /\ UNCHANGED <<gen, streamer, aac, netSize, detected, calls, atEof, local, mp3, torn,
                 ring, signals, clock, told, history>>

-----------------------------------------------------------------------------
(* The main thread: another track. *)

\* Bound: not while a SeekTo is posted, which would go to the new download.
BeginSwitch ==
  /\ main = "idle" /\ gen < MaxTracks /\ seekTo = NoSeek
  /\ main' = "clearAudio"
  /\ fetched' = pushed /\ inFlight' = FALSE /\ paused' = FALSE
  /\ finished' = FALSE
  /\ UNCHANGED <<gen, format, stream, pushed, broken, seekTo, aac, netSize, detected, decoder,
                 ring, signals, clock, told, history>>

\* Under m_audioMutex, which keeps the callback out but not the decoder: the ring
\* buffer, the triggers and the clock are set to position p.
SetAudio(p, clean) ==
  /\ Ring!Clear
  /\ nearEnd' = FALSE /\ ended' = FALSE /\ nearSignal' = FALSE /\ endSignal' = FALSE
  /\ position' = p
  /\ gen' = gen + 1
  /\ toldNear' = FALSE /\ toldEnd' = FALSE
  /\ haunted' = FALSE /\ quiet' = (clean /\ pc = "asleep")
  /\ UNCHANGED <<streamer, network, decoder>>

ClearAudio ==
  /\ main = "clearAudio" /\ main' = "clearNetwork"
  /\ SetAudio(0, TRUE) /\ heard' = 0
  /\ \E d \in Durations : duration' = d

\* Where the decoder uses m_mp3Buffer, which it does without the mutex.
DecodingMp3 == pc \in {"decodeMp3", "writeMp3"}

\* What the decoder finds in m_mp3Buffer when it was cleared under its hands:
\* nothing, or what was there before.
ClearedMp3 == IF DecodingMp3 THEN {<<>>, mp3} ELSE {<<>>}

\* Mutant: MP3 data of the old track is kept.
EmptyNetworkMutant ==
  /\ NetworkFree
  /\ aac' = <<>> /\ mp3' = mp3 /\ torn' = torn
  /\ netSize' = 0
  /\ Notify
  /\ UNCHANGED <<calls, atEof, local>>

\* Under m_networkMutex; localChunk is the decoder's own.
EmptyNetwork ==
  /\ NetworkFree
  /\ aac' = <<>> /\ mp3' \in ClearedMp3 /\ torn' = DecodingMp3
  /\ netSize' = 0
  /\ Notify
  /\ UNCHANGED <<calls, atEof, local>>

\* The download of the new track begins in the same handler.
ClearNetwork ==
  /\ main = "clearNetwork" /\ main' = "idle"
  /\ EmptyNetwork /\ detected' = "none"
  /\ \E f \in Formats : format' = f
  /\ stream' = gen /\ fetched' = 0 /\ pushed' = 0
  /\ inFlight' = TRUE /\ broken' = FALSE /\ paused' = FALSE
  /\ UNCHANGED <<gen, seekTo, finished, ring, signals, clock, told, history>>

-----------------------------------------------------------------------------
(* The main thread: SetPositionSeconds, which posts the streamer's SeekTo. *)

\* Stopping the device waits for the callback.
BeginSeek(p) ==
  /\ main = "idle" /\ gen < MaxTracks /\ seekTo = NoSeek /\ reading.n = 0
  /\ duration > 0
  /\ main' = "seekAudio" /\ seekTo' = Ring!Least(p, duration)
  /\ finished' = FALSE
  /\ UNCHANGED <<gen, format, stream, fetched, pushed, inFlight, broken, paused, aac, netSize,
                 detected, decoder, ring, signals, clock, told, history>>

\* A track of unknown length is not sought, but no longer counts as downloaded.
SeekUnknown ==
  /\ main = "idle" /\ duration = 0
  /\ finished' = FALSE
  /\ UNCHANGED <<main, gen, streamer, aac, netSize, detected, decoder, ring, signals, clock,
                 told, history>>

\* Where in the file a position is looked for.
Offset(p) == (p * Total) \div duration

SeekAudio ==
  /\ main = "seekAudio" /\ main' = "seekNetwork"
  /\ SetAudio(seekTo, detected \in {"none", format.codec}) /\ heard' = Offset(seekTo)
  /\ UNCHANGED duration

\* The demuxer keeps the format.  The download goes on until SeekTo is handled.
SeekNetwork ==
  /\ main = "seekNetwork" /\ main' = "idle"
  /\ EmptyNetwork
  /\ UNCHANGED <<gen, streamer, finished, detected, ring, signals, clock, told, history>>

\* A direct stream is requested from there on; an HLS stream has lost its list of
\* chunks by then, and ends; and nothing comes of it, for a download that broke off
\* before its size or its chunks were known.
SeekTo ==
  /\ main = "idle" /\ seekTo # NoSeek
  /\ seekTo' = NoSeek /\ stream' = gen /\ paused' = FALSE
  /\ fetched' = Offset(seekTo) /\ pushed' = Offset(seekTo)
  /\ \/ ~format.hls /\ inFlight' = TRUE /\ broken' = FALSE /\ main' = "idle"
     \/ format.hls /\ inFlight' = FALSE /\ broken' = TRUE /\ main' = "ending"
     \/ broken /\ inFlight' = FALSE /\ broken' = TRUE /\ main' = "idle"
  /\ UNCHANGED <<gen, format, network, decoder, ring, signals, clock, told, history>>

-----------------------------------------------------------------------------
(* The main thread: the timer of ApplicationCore. *)

\* Mutant: the next request is not made again.
ResumeDownloadMutant == paused' = FALSE /\ UNCHANGED inFlight

ResumeDownload ==
  /\ paused' = FALSE
  /\ inFlight' = (inFlight \/ (paused /\ ~broken /\ fetched < Total))

PauseDownload ==
  /\ paused' = (paused \/ format.hls)
  /\ UNCHANGED inFlight

\* Mutant: an end that is due makes the announcement superfluous.
PollNearEndMutant ==
  /\ main = "idle" /\ main' = "polling"
  /\ nearSignal' = FALSE /\ toldNear' = (toldNear \/ (nearSignal /\ ~endSignal))
  /\ UNCHANGED <<gen, streamer, network, decoder, ring, nearEnd, ended, endSignal, clock,
                 toldEnd, history>>

\* PollEvents exchanges the one signal; the callback may raise both before
PollNearEnd ==
  /\ main = "idle" /\ main' = "polling"
  /\ nearSignal' = FALSE /\ toldNear' = (toldNear \/ nearSignal)
  /\ UNCHANGED <<gen, streamer, network, decoder, ring, nearEnd, ended, endSignal, clock,
                 toldEnd, history>>

\* it exchanges the other.  The watermarks come last.
PollFinished ==
  /\ main = "polling" /\ main' = "idle"
  /\ endSignal' = FALSE /\ toldEnd' = (toldEnd \/ endSignal)
  /\ IF netSize <= Low THEN ResumeDownload
     ELSE IF netSize >= High THEN PauseDownload
     ELSE UNCHANGED <<paused, inFlight>>
  /\ UNCHANGED <<gen, format, stream, fetched, pushed, broken, seekTo, network, decoder, ring,
                 nearEnd, ended, nearSignal, clock, toldNear, history>>

Poll == PollNearEnd \/ PollFinished

-----------------------------------------------------------------------------
(* The decoder thread. *)

DecoderKeeps == <<main, gen, streamer, finished, signals, clock, told, history>>

HasAac == aac # <<>>
HasMp3 == Len(mp3) >= MinDecode \/ (finished /\ mp3 # <<>>)

\* The condition does not hold; the mutex is still held.
Doze ==
  /\ pc = "test" /\ ~HasAac /\ ~HasMp3
  /\ pc' = "dozing"
  /\ UNCHANGED <<calls, atEof, local, mp3, torn, aac, netSize, detected, ring, DecoderKeeps>>

FallAsleep ==
  /\ pc = "dozing" /\ pc' = "asleep"
  /\ UNCHANGED <<calls, atEof, local, mp3, torn, aac, netSize, detected, ring, DecoderKeeps>>

TakeChunk ==
  /\ pc = "test" /\ (HasAac \/ HasMp3)
  /\ LET n == Ring!Least(Take, Len(aac))
     IN /\ local' = SubSeq(aac, 1, n)
        /\ aac' = SubSeq(aac, n + 1, Len(aac))
        /\ netSize' = IF HasAac THEN Len(aac') + Len(mp3) ELSE netSize
  /\ pc' = "room"
  /\ UNCHANGED <<calls, atEof, mp3, torn, detected, ring, DecoderKeeps>>

WaitForRoom ==
  /\ pc = "room" /\ Ring!AvailableWrite >= Room
  /\ pc' = "demux"
  /\ UNCHANGED <<calls, atEof, local, mp3, torn, aac, netSize, detected, ring, DecoderKeeps>>

\* The first chunk after a Reset decides what the whole stream is taken for.
Detected == IF detected = "none" /\ local # <<>> THEN Head(local).codec ELSE detected

\* Everything of the chunk has been handed on.
ChunkDone ==
  /\ pc = "demux" /\ local = <<>>
  /\ pc' = "call" /\ calls' = 1
  /\ UNCHANGED <<atEof, local, mp3, torn, aac, netSize, detected, ring, DecoderKeeps>>

\* MP3 data is only put aside here, and decoded in both of the calls to come.
PutAside ==
  /\ pc = "demux" /\ local # <<>> /\ Detected = "mp3"
  /\ detected' = Detected
  /\ mp3' = mp3 \o local /\ local' = <<>>
  /\ pc' = "call" /\ calls' = 2
  /\ UNCHANGED <<atEof, torn, aac, netSize, ring, DecoderKeeps>>

DecodeAac ==
  /\ pc = "demux" /\ local # <<>> /\ Detected = "aac"
  /\ detected' = Detected
  /\ Head(local).codec = "aac"
  /\ Ring!AvailableWrite >= 1 /\ Ring!WriteBegin(<<Head(local)>>)
  /\ pc' = "writeAac"
  /\ UNCHANGED <<calls, atEof, local, mp3, torn, aac, netSize, DecoderKeeps>>

\* Data of another format makes the decoder fail, and is skipped.
FailAac ==
  /\ pc = "demux" /\ local # <<>> /\ Detected = "aac"
  /\ Head(local).codec # "aac"
  /\ local' = Tail(local)
  /\ UNCHANGED <<pc, calls, atEof, mp3, torn, aac, netSize, detected, ring, DecoderKeeps>>

WrittenAac ==
  /\ pc = "writeAac" /\ pc' = "demux"
  /\ Ring!WriteEnd
  /\ local' = Tail(local)
  /\ UNCHANGED <<calls, atEof, mp3, torn, aac, netSize, detected, DecoderKeeps>>

\* Mutant: the thread never leaves the calls.
CallDecodeMp3Mutant ==
  /\ pc = "call"
  /\ atEof' = (finished /\ aac = <<>>)
  /\ IF ~atEof' /\ Len(mp3) < MinDecode
       THEN calls' = calls - 1 /\ UNCHANGED pc
       ELSE pc' = "decodeMp3" /\ UNCHANGED calls
  /\ UNCHANGED <<local, mp3, torn, aac, netSize, detected, ring, DecoderKeeps>>

\* DecodeMp3Payload, or the next round of the thread.
CallDecodeMp3 ==
  /\ pc = "call"
  /\ IF calls = 0
       THEN pc' = "test" /\ UNCHANGED <<calls, atEof>>
       ELSE /\ atEof' = (finished /\ aac = <<>>)
            /\ IF ~atEof' /\ Len(mp3) < MinDecode
                 THEN calls' = calls - 1 /\ UNCHANGED pc
                 ELSE pc' = "decodeMp3" /\ UNCHANGED calls
  /\ UNCHANGED <<local, mp3, torn, aac, netSize, detected, ring, DecoderKeeps>>

Mp3GoesOn == /\ mp3 # <<>> /\ Ring!AvailableWrite >= Room
             /\ atEof \/ (Len(mp3) >= MinFrame /\ Head(mp3).codec = "mp3")

\* Mutant: what is left is given up whenever the function ends.
StopMp3Mutant ==
  /\ pc = "decodeMp3" /\ ~Mp3GoesOn
  /\ pc' = "call" /\ calls' = calls - 1
  /\ mp3' = <<>>
  /\ torn' = FALSE
  /\ UNCHANGED <<atEof, local, aac, netSize, detected, ring, DecoderKeeps>>

\* What was cleared under its hands is given up at the end of the function.
StopMp3 ==
  /\ pc = "decodeMp3" /\ ~Mp3GoesOn
  /\ pc' = "call" /\ calls' = calls - 1
  /\ mp3' = IF torn THEN <<>> ELSE mp3
  /\ torn' = FALSE
  /\ UNCHANGED <<atEof, local, aac, netSize, detected, ring, DecoderKeeps>>

SkipMp3 ==
  /\ pc = "decodeMp3" /\ Mp3GoesOn /\ Head(mp3).codec # "mp3"
  /\ mp3' = Tail(mp3)
  /\ UNCHANGED <<pc, calls, atEof, local, torn, aac, netSize, detected, ring, DecoderKeeps>>

DecodeMp3 ==
  /\ pc = "decodeMp3" /\ Mp3GoesOn /\ Head(mp3).codec = "mp3"
  /\ Ring!WriteBegin(<<Head(mp3)>>)
  /\ pc' = "writeMp3"
  /\ UNCHANGED <<calls, atEof, local, mp3, torn, aac, netSize, detected, DecoderKeeps>>

WrittenMp3 ==
  /\ pc = "writeMp3" /\ pc' = "decodeMp3"
  /\ Ring!WriteEnd
  /\ mp3' = IF mp3 = <<>> THEN <<>> ELSE Tail(mp3)
  /\ UNCHANGED <<calls, atEof, local, torn, aac, netSize, detected, DecoderKeeps>>

Decoder == \/ Doze \/ FallAsleep \/ TakeChunk \/ WaitForRoom
           \/ ChunkDone \/ PutAside \/ DecodeAac \/ FailAac \/ WrittenAac
           \/ CallDecodeMp3 \/ StopMp3 \/ SkipMp3 \/ DecodeMp3 \/ WrittenMp3

-----------------------------------------------------------------------------
(* The audio callback. *)

CallbackKeeps == <<main, gen, streamer, network, decoder, duration, told, quiet>>

\* The signals a position raises, each once for a track, and for none of unknown length.
Trigger(p) ==
  LET near == duration > 0 /\ p >= duration - NearEnd
      end == duration > 0 /\ p >= duration
  IN /\ nearEnd' = (nearEnd \/ near) /\ nearSignal' = (nearSignal \/ (near /\ ~nearEnd))
     /\ ended' = (ended \/ end) /\ endSignal' = (endSignal \/ (end /\ ~ended))

\* The device is stopped during a seek.
Stopped == main \in {"seekAudio", "seekNetwork"}

CallbackReads ==
  /\ ~Stopped
  /\ Ring!ReadBegin(Frames)
  /\ UNCHANGED <<signals, position, heard, haunted, CallbackKeeps>>

\* How many units of a sequence are of the current track.
OfCurrent(s) == Cardinality({i \in DOMAIN s : s[i].track = gen})

CallbackPlays ==
  /\ Ring!ReadEnd
  /\ position' = position + reading.n
  /\ Trigger(position')
  /\ heard' = heard + OfCurrent(Ring!Copied)
  /\ haunted' = (haunted \/ \E i \in 1 .. reading.n : Ring!Copied[i].track # gen)
  /\ UNCHANGED CallbackKeeps

\* Mutant: whatever is missing, a finished download is the end.
UnderflowMutant ==
  /\ ~Stopped /\ reading.n = 0 /\ Ring!AvailableRead = 0
  /\ position' = IF finished THEN duration ELSE position
  /\ Trigger(position')
  /\ UNCHANGED <<ring, heard, haunted, CallbackKeeps>>

\* Nothing to read: the end of the track, if it is near and all has come.
Underflow ==
  /\ ~Stopped /\ reading.n = 0 /\ Ring!AvailableRead = 0
  /\ position' = IF finished /\ (duration = 0 \/ position >= duration - EndSlack)
                 THEN duration ELSE position
  /\ Trigger(position')
  /\ UNCHANGED <<ring, heard, haunted, CallbackKeeps>>

Callback == CallbackReads \/ CallbackPlays \/ Underflow

-----------------------------------------------------------------------------
Download == OnChunkFinished \/ DeliverChunk \/ DownloadError \/ SetNetworkStreamFinished
Switch == BeginSwitch \/ ClearAudio \/ ClearNetwork

Seek == \/ (\E p \in Targets : BeginSeek(p)) \/ SeekUnknown
        \/ SeekAudio \/ SeekNetwork \/ SeekTo

Next == Download \/ Switch \/ Seek \/ Poll \/ Decoder \/ Callback

Spec == Init /\ [][Next]_vars

(* The network answers, chunks are decrypted, the event loop takes what is  *)
(* posted to it in turn and leaves none out, the threads run.               *)
Handlers == OnChunkFinished \/ DeliverChunk \/ SetNetworkStreamFinished \/ ClearNetwork
            \/ SeekNetwork \/ SeekTo

Fairness ==
  /\ SF_<<main, fetched, pushed, seekTo>>(Handlers) /\ WF_main(Poll)
  /\ WF_<<pc, local, mp3, calls>>(Decoder) /\ WF_<<reading, position, signals>>(Callback)

FairSpec == Spec /\ Fairness

-----------------------------------------------------------------------------
(* What makes the pipeline correct. *)

(* The types of the engine's members and of what its threads hold.          *)
TypeOK ==
  /\ main \in {"idle", "delivering", "ending", "polling", "clearAudio", "clearNetwork",
               "seekAudio", "seekNetwork"}
  /\ gen \in 1 .. MaxTracks /\ stream \in 1 .. MaxTracks
  /\ format \in Formats /\ duration \in Durations
  /\ fetched \in 0 .. Total /\ pushed \in 0 .. fetched
  /\ inFlight \in BOOLEAN /\ broken \in BOOLEAN /\ paused \in BOOLEAN
  /\ seekTo \in Nat \cup {NoSeek}
  /\ aac \in Seq(Units) /\ mp3 \in Seq(Units) /\ local \in Seq(Units)
  /\ netSize \in Nat /\ finished \in BOOLEAN /\ detected \in Codecs \cup {"none"}
  /\ pc \in {"test", "dozing", "asleep", "room", "demux", "writeAac", "call",
             "decodeMp3", "writeMp3"}
  /\ calls \in 0 .. 2 /\ atEof \in BOOLEAN /\ torn \in BOOLEAN
  /\ Ring!TypeOK /\ position \in Nat
  /\ {nearEnd, ended, nearSignal, endSignal, toldNear, toldEnd, haunted, quiet} \subseteq BOOLEAN
  /\ heard \in Nat

\* What has been delivered or decoded and not been heard, in the order in which it
\* will be, and how much of it is of the current track.
Waiting == Ring!Contents \o mp3 \o local \o aac
Due == IF stream = gen THEN pushed - heard ELSE 0

(* Whatever the threads do, each unit of the track that has been delivered  *)
(* is heard or waits its turn in one of the four buffers, in order, once,    *)
(* behind all that is left of an earlier one; only a demuxer that takes the  *)
(* stream for another format drops any.                                     *)
NothingLost ==
  detected \in {"none", format.codec} =>
    /\ Due \in 0 .. Len(Waiting)
    /\ \A i \in 1 .. Len(Waiting) :
         LET k == i - (Len(Waiting) - Due)
         IN IF k > 0
              THEN Waiting[i] = [track |-> gen, n |-> heard + k, codec |-> format.codec]
              ELSE Waiting[i].track # gen

(* Decoder and callback never copy to and from the same part of the ring    *)
(* buffer, and what passes through it passes through a queue.               *)
NoSharedSlot == Ring!NoSharedSlot
RingIsQueue == Ring!IsPcmQueue

(* An HLS stream of which the engine holds the high watermark, and what the *)
(* decoder may hold besides, is paused, however the chunks came and         *)
(* although the size the watermarks go by leaves out what the decoder       *)
(* holds.  What is still being decrypted then comes on top.                 *)
FullIsPaused ==
  format.hls /\ main = "idle" /\ ~broken
  /\ OfCurrent(aac) + OfCurrent(mp3) + OfCurrent(local) >= High + Take => paused

(* A track that is replaced while the decoder sleeps leaves no sound, nor    *)
(* does a seek, if nothing of the old download comes before its SeekTo.     *)
CleanSwitch == quiet => ~haunted

(* The end of a track that followed such a replacement is reported only     *)
(* when all but its last EndSlack has been heard or passed over, also when  *)
(* its download breaks off.                                                 *)
EndNotEarly == quiet /\ ended => heard + EndSlack >= Ring!Least(duration, Total)

(* No end of a track is reported whose approach has not been, so that the   *)
(* next one can be fetched ahead, or will not be at the next poll: the      *)
(* callback may raise both signals between the two that a poll looks at.    *)
NearBeforeEnd == toldEnd => toldNear \/ nearSignal

\* The metadata give the track a length that is not too long for what comes, of which
\* less than MinDecode may stay undecoded.
LengthFits == duration > 0 /\ duration + MinDecode <= Total + EndSlack + 1

(* A track whose download does not break off and whose length is known      *)
(* ends, unless it is replaced or another position sought: no sleep is      *)
(* slept for ever and no watermark holds the download up for good.  One of  *)
(* length 0, or announced as longer by more than EndSlack, never ends.      *)
TrackEnds ==
  quiet /\ LengthFits /\ main = "idle"
    ~> toldEnd \/ main \in {"clearAudio", "seekAudio"} \/ broken
===============================================================================
