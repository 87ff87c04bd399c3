------------------------ MODULE NetworkStreamer_proofs ------------------------
(***************************************************************************)
(* Proofs about NetworkStreamer, for every set of playlists, keys, targets  *)
(* and every bound.                                                         *)
(***************************************************************************)
EXTENDS NetworkStreamer, FiniteSetTheorems, SequenceTheorems, TLAPS

(* What ParseM3u8 builds is a sequence of chunks.                           *)
LEMMA ChunksTyped ==
  ASSUME NEW man \in Manifests
  PROVE  /\ Chunks(man) \in Seq(Chunk)
         /\ Len(Chunks(man)) = Len(man.keys)
         /\ \A i \in 1 .. Len(man.keys) : Chunks(man)[i].seq = man.base + i - 1
         /\ man.base \in Nat
<1>1. man.base \in Nat /\ man.keys \in Seq(Keys \cup {NoKey})
  BY NetworkStreamerAssumption
<1>2. Len(man.keys) \in Nat
  BY <1>1
<1>3. \A i \in 1 .. Len(man.keys) :
        [seq |-> man.base + i - 1, key |-> man.keys[i]] \in Chunk
  BY <1>1, <1>2 DEF Chunk
<1> QED BY <1>1, <1>2, <1>3 DEF Chunks

(* Dequeuing keeps the types.                                               *)
LEMMA AdvanceTyped ==
  ASSUME NEW q \in Seq(Chunk), q # <<>>, Advance(q), keyUrl \in Keys \cup {NoKey}
  PROVE  /\ cur' \in Chunk /\ queue' \in Seq(Chunk)
         /\ keyUrl' \in Keys \cup {NoKey} /\ reply' \in {"key", "chunk"}
<1>1. Head(q) \in Chunk /\ Tail(q) \in Seq(Chunk)
  OBVIOUS
<1> QED BY <1>1 DEF Advance, Chunk

(* Delivering keeps the types.                                              *)
LEMMA DeliverTyped ==
  ASSUME TypeOK, NEW seq \in Nat, NEW full \in BOOLEAN, NEW flights \in Int,
         Deliver(seq, full, flights)
  PROVE  /\ nextEmit' \in Nat /\ inFlight' \in Nat /\ paused' \in BOOLEAN
         /\ DOMAIN ready' \subseteq Nat /\ ready' \in [DOMAIN ready' -> BOOLEAN]
         /\ emitted' \in SUBSET Nat /\ ends' \in Nat
<1> DEFINE r == [s \in DOMAIN ready \cup {seq} |-> IF s = seq THEN full ELSE ready[s]]
<1>1. DOMAIN r \subseteq Nat /\ r \in [DOMAIN r -> BOOLEAN]
  BY DEF TypeOK
<1>2. PICK m \in nextEmit .. (nextEmit + Cardinality(DOMAIN r)) :
        /\ nextEmit' = m
        /\ ready' = [s \in DOMAIN r \ (nextEmit .. (m - 1)) |-> r[s]]
        /\ emitted' = emitted \cup {s \in nextEmit .. (m - 1) : r[s]}
        /\ paused' \in {paused, paused \/ {s \in nextEmit .. (m - 1) : r[s]} # {}}
        /\ inFlight' = IF flights < 0 THEN 0 ELSE flights
        /\ ends' \in {ends, ends + 1}
  BY DEF Deliver, AnnounceEnd
<1>3. nextEmit' \in Nat
  BY <1>2 DEF TypeOK
<1>4. DOMAIN ready' \subseteq Nat /\ ready' \in [DOMAIN ready' -> BOOLEAN]
  BY <1>1, <1>2
<1>5. emitted' \in SUBSET Nat
  BY <1>2 DEF TypeOK
<1>6. paused' \in BOOLEAN
  BY <1>2 DEF TypeOK
<1>7. inFlight' \in Nat /\ ends' \in Nat
  BY <1>2 DEF TypeOK
<1> QED BY <1>3, <1>4, <1>5, <1>6, <1>7

-----------------------------------------------------------------------------
(* Every handler keeps the members well typed; in particular the counter of *)
(* decryptions never goes negative and no request starts beyond the file.   *)

LEMMA EmptyTyped == DOMAIN Empty = {} /\ Empty \in [DOMAIN Empty -> BOOLEAN]
  BY DEF Empty

LEMMA NoChunkTyped == NoChunk \in Chunk
  BY DEF NoChunk, Chunk

LEMMA StopTyped ==
  ASSUME TypeOK, Stop
  PROVE  /\ gen' \in Nat /\ cur' \in Chunk /\ key' = NoKey /\ keyUrl' = NoKey
         /\ DOMAIN ready' \subseteq Nat /\ ready' \in [DOMAIN ready' -> BOOLEAN]
         /\ inFlight' \in Nat /\ paused' \in BOOLEAN
         /\ emitted' \in SUBSET Nat /\ lost' \in SUBSET Nat /\ errored' \in BOOLEAN
<1>1. gen \in Nat
  BY DEF TypeOK
<1>2. DOMAIN ready' \subseteq Nat /\ ready' \in [DOMAIN ready' -> BOOLEAN]
  BY EmptyTyped DEF Stop
<1>3. gen' \in Nat /\ inFlight' \in Nat
  BY <1>1 DEF Stop
<1>4. cur' \in Chunk /\ key' = NoKey /\ keyUrl' = NoKey
  BY NoChunkTyped DEF Stop
<1>5. paused' \in BOOLEAN /\ errored' \in BOOLEAN
  BY DEF Stop
<1>6. emitted' \in SUBSET Nat /\ lost' \in SUBSET Nat
  BY DEF Stop
<1> QED BY <1>2, <1>3, <1>4, <1>5, <1>6

LEMMA PipelineTyped ==
  ASSUME TypeOK, Pipeline
  PROVE  /\ cur' \in Chunk /\ queue' \in Seq(Chunk)
         /\ keyUrl' \in Keys \cup {NoKey} /\ reply' \in Replies
<1>1. CASE ~paused /\ queue # <<>>
  BY <1>1, AdvanceTyped DEF Pipeline, TypeOK, Replies
<1>2. CASE ~(~paused /\ queue # <<>>)
  BY <1>2 DEF Pipeline, TypeOK, Replies
<1> QED BY <1>1, <1>2

\* What a step that stops the download and starts another leaves typed.
Restarted == /\ chunks' = <<>> /\ queue' = <<>>
             /\ reply' \in Replies /\ nextEmit' \in Nat /\ ends' \in Nat
             /\ at' \in 0 .. FileSize
             /\ type' \in Types /\ pending' \in {-1} \cup SeekTargets
             /\ total' \in {0, FileSize}
             /\ UNCHANGED <<jobs, posted>>

LEMMA RestartTyped == ASSUME TypeOK, Stop, Restarted PROVE TypeOK'
<1>1. /\ gen' \in Nat /\ cur' \in Chunk /\ key' = NoKey /\ keyUrl' = NoKey
      /\ DOMAIN ready' \subseteq Nat /\ ready' \in [DOMAIN ready' -> BOOLEAN]
      /\ inFlight' \in Nat /\ paused' \in BOOLEAN
      /\ emitted' \in SUBSET Nat /\ lost' \in SUBSET Nat /\ errored' \in BOOLEAN
  BY StopTyped
<1>2. /\ jobs' \in SUBSET [seq : Nat, gen : Nat, key : Keys \cup {NoKey}]
      /\ posted' \in SUBSET [seq : Nat, gen : Nat, full : BOOLEAN]
  BY DEF TypeOK, Restarted
<1>3. chunks' \in Seq(Chunk) /\ queue' \in Seq(Chunk)
  BY DEF Restarted
<1> QED BY <1>1, <1>2, <1>3 DEF TypeOK, Restarted

LEMMA HlsSeekTyped ==
  ASSUME TypeOK, NEW cs \in Seq(Chunk), cs # <<>>, SeekHls(cs)
  PROVE  /\ chunks' = <<>> /\ queue' = <<>> /\ reply' = "none"
         /\ nextEmit' \in Nat /\ ends' = 1
<1>1. cs[1] \in Chunk
  BY Len(cs) \in 1 .. Len(cs)
<1> QED BY <1>1 DEF SeekHls, StaleSequence, Chunk

LEMMA HaltTyped ==
  ASSUME TypeOK, Halt, at' = at, UNCHANGED <<type, pending, total, jobs, posted>>
  PROVE  TypeOK'
<1>1. Stop
  BY DEF Halt
<1>2. Restarted
  BY DEF TypeOK, Halt, Restarted, Replies
<1> QED BY <1>1, <1>2, RestartTyped

LEMMA TypeOKStep == ASSUME TypeOK, [Next]_vars PROVE TypeOK'
<1> USE DEF TypeOK
<1>1. ASSUME NEW what \in {"manifest", "direct"}, StartDownload(what) PROVE TypeOK'
  BY <1>1, StopTyped, NetworkStreamerAssumption DEF StartDownload, Types, Replies
<1>0. ASSUME StopDownload PROVE TypeOK'
  BY <1>0, HaltTyped DEF StopDownload
<1>2. ASSUME NEW t \in SeekTargets, SeekTo(t) PROVE TypeOK'
  <2>1. CASE chunks = <<>> /\ total = 0
    BY <1>2, <2>1 DEF SeekTo, fetchVars, orderVars, history
  <2>2. CASE SeekDirect(t) /\ UNCHANGED <<type, pending, total, jobs, posted>>
    <3>1. Stop /\ t \in 0 .. FileSize
      BY <2>2, NetworkStreamerAssumption DEF SeekDirect
    <3>2. at' \in 0 .. FileSize /\ reply' \in Replies
      BY <2>2, <3>1 DEF SeekDirect, Replies
    <3>3. Restarted
      BY <2>2, <3>2 DEF SeekDirect, Restarted
    <3> QED BY <3>1, <3>3, RestartTyped
  <2>3. CASE /\ chunks # <<>> /\ SeekHls(chunks) /\ at' = at
             /\ UNCHANGED <<type, pending, total, jobs, posted>>
    <3>1. Stop
      BY <2>3 DEF SeekHls
    <3>2. Restarted
      BY <2>3, HlsSeekTyped DEF Restarted, Replies
    <3> QED BY <3>1, <3>2, RestartTyped
  <2>4. CASE Halt /\ at' = at /\ UNCHANGED <<type, pending, total, jobs, posted>>
    BY <2>4, HaltTyped
  <2> QED BY <1>2, <2>1, <2>2, <2>3, <2>4 DEF SeekTo
<1>3. ASSUME NEW man \in Manifests, ManifestReceived(man) PROVE TypeOK'
  <2> DEFINE cs == Chunks(man)
  <2>1. /\ cs \in Seq(Chunk) /\ man.base \in Nat /\ type' \in Types
        /\ UNCHANGED <<total, at, jobs, posted>>
    BY <1>3, ChunksTyped DEF ManifestReceived, HlsType, Types
  <2>2. CASE /\ pending' = -1 /\ cs # <<>> /\ SeekHls(cs)
    <3>1. Stop
      BY <2>2 DEF SeekHls
    <3>2. Restarted
      BY <2>1, <2>2, HlsSeekTyped DEF Restarted, Replies
    <3> QED BY <3>1, <3>2, RestartTyped
  <2>3. CASE /\ pending' = -1 /\ Stop
             /\ chunks' = <<>> /\ queue' = <<>> /\ reply' = "none" /\ ends' = 0
             /\ nextEmit' = man.base
    <3>1. Restarted
      BY <2>1, <2>3 DEF Restarted, Replies
    <3> QED BY <2>3, <3>1, RestartTyped
  <2>4. CASE /\ pending' = pending /\ chunks' = cs
             /\ nextEmit' = man.base /\ ready' = Empty /\ inFlight' = 0
             /\ IF paused \/ pending >= 0 \/ cs = <<>>
                  THEN /\ queue' = cs /\ reply' = "none" /\ UNCHANGED <<cur, keyUrl>>
                  ELSE Advance(cs)
             /\ ends' \in {ends, ends + 1}
             /\ UNCHANGED <<gen, key, paused, emitted, lost, errored>>
    <3>1. /\ queue' \in Seq(Chunk) /\ reply' \in Replies /\ cur' \in Chunk
          /\ keyUrl' \in Keys \cup {NoKey}
      BY <2>1, <2>4, AdvanceTyped DEF Replies
    <3>2. DOMAIN ready' \subseteq Nat /\ ready' \in [DOMAIN ready' -> BOOLEAN]
      BY <2>4 DEF Empty
    <3> QED BY <2>1, <2>4, <3>1, <3>2
  <2> HIDE DEF TypeOK
  <2> QED BY <1>3, <2>2, <2>3, <2>4 DEF ManifestReceived, AnnounceEnd
<1>4. ASSUME ManifestFailed PROVE TypeOK'
  BY <1>4 DEF ManifestFailed, streamVars, orderVars, Replies
<1>5. ASSUME KeyReceived PROVE TypeOK'
  BY <1>5 DEF KeyReceived, streamVars, orderVars, history, Replies
<1>6. ASSUME KeyFailed PROVE TypeOK'
  BY <1>6 DEF KeyFailed, streamVars, orderVars, Replies, Chunk
<1>7. ASSUME NEW size \in {0, FileSize}, DirectData(size) PROVE TypeOK'
  <2>1. CASE total = 0 /\ pending > 0 /\ total' > 0 /\ DurationKnown
    <3>1. /\ pending' = -1 /\ SeekDirect(pending) /\ Stop
          /\ pending \in 0 .. FileSize
          /\ UNCHANGED <<type, jobs, posted>> /\ total' \in {0, FileSize}
      BY <1>7, <2>1, NetworkStreamerAssumption DEF DirectData, SeekDirect
    <3>2. at' \in 0 .. FileSize /\ reply' \in Replies
      BY <3>1 DEF SeekDirect, Replies
    <3>3. Restarted
      BY <3>1, <3>2 DEF SeekDirect, Restarted
    <3> QED BY <3>1, <3>3, RestartTyped
  <2>2. CASE ~(total = 0 /\ pending > 0 /\ total' > 0 /\ DurationKnown)
    BY <1>7, <2>2, NetworkStreamerAssumption DEF DirectData, orderVars
  <2> QED BY <2>1, <2>2
<1>8. ASSUME DirectFinished PROVE TypeOK'
  <2>1. emitted' \in SUBSET Nat /\ ends' \in Nat
    <3>1. at \in Nat /\ FileSize \in Nat /\ emitted \in SUBSET Nat /\ ends \in Nat
      BY NetworkStreamerAssumption
    <3>2. at .. (FileSize - 1) \subseteq Nat
      BY <3>1
    <3> QED BY <1>8, <3>1, <3>2 DEF DirectFinished
  <2> QED BY <1>8, <2>1 DEF DirectFinished, streamVars, orderVars, Replies
<1>9. ASSUME DirectFailed PROVE TypeOK'
  BY <1>9 DEF DirectFailed, streamVars, orderVars, Replies
<1>10. ASSUME NEW full \in BOOLEAN, ChunkFinishedPlain(full) PROVE TypeOK'
  <2>1. cur.seq \in Nat /\ inFlight \in Int
    BY DEF Chunk
  <2>2. Pipeline /\ Deliver(cur.seq, full, inFlight)
    BY <1>10 DEF ChunkFinishedPlain
  <2>3. /\ cur' \in Chunk /\ queue' \in Seq(Chunk)
        /\ keyUrl' \in Keys \cup {NoKey} /\ reply' \in Replies
    BY <2>2, PipelineTyped
  <2> HIDE DEF TypeOK
  <2>4. /\ nextEmit' \in Nat /\ inFlight' \in Nat /\ paused' \in BOOLEAN
        /\ DOMAIN ready' \subseteq Nat /\ ready' \in [DOMAIN ready' -> BOOLEAN]
        /\ emitted' \in SUBSET Nat /\ ends' \in Nat
    BY <2>1, <2>2, DeliverTyped
  <2> QED BY <1>10, <2>3, <2>4 DEF ChunkFinishedPlain, streamVars, TypeOK
<1>11. ASSUME ChunkFinishedEncrypted PROVE TypeOK'
  <2>1. [seq |-> cur.seq, gen |-> gen, key |-> key]
          \in [seq : Nat, gen : Nat, key : Keys \cup {NoKey}]
    BY DEF Chunk
  <2>2. jobs' \in SUBSET [seq : Nat, gen : Nat, key : Keys \cup {NoKey}]
    BY <1>11, <2>1 DEF ChunkFinishedEncrypted
  <2>3. Pipeline
    BY <1>11 DEF ChunkFinishedEncrypted
  <2>4. /\ cur' \in Chunk /\ queue' \in Seq(Chunk)
        /\ keyUrl' \in Keys \cup {NoKey} /\ reply' \in Replies
    BY <2>3, PipelineTyped
  <2> QED BY <1>11, <2>2, <2>4 DEF ChunkFinishedEncrypted, streamVars, history
<1>12. ASSUME ChunkFailed PROVE TypeOK'
  <2>1. lost' \in SUBSET Nat
    BY <1>12 DEF ChunkFailed, Chunk
  <2>2. Pipeline
    BY <1>12 DEF ChunkFailed
  <2>3. /\ cur' \in Chunk /\ queue' \in Seq(Chunk)
        /\ keyUrl' \in Keys \cup {NoKey} /\ reply' \in Replies
    BY <2>2, PipelineTyped
  <2> QED BY <1>12, <2>1, <2>3 DEF ChunkFailed, streamVars, orderVars
<1>13. ASSUME NEW j \in jobs, NEW full \in BOOLEAN, FinishJob(j, full) PROVE TypeOK'
  BY <1>13 DEF FinishJob, streamVars, fetchVars, orderVars, history
<1>14. ASSUME NEW d \in posted, DeliverPosted(d) PROVE TypeOK'
  <2>1. d.seq \in Nat /\ d.full \in BOOLEAN /\ inFlight - 1 \in Int
    OBVIOUS
  <2>2. /\ UNCHANGED <<streamVars, queue, reply, cur, key, keyUrl, at, jobs, lost, errored>>
        /\ posted' = posted \ {d}
        /\ UNCHANGED <<orderVars, emitted, ends>> \/ Deliver(d.seq, d.full, inFlight - 1)
    BY <1>14 DEF DeliverPosted
  <2> HIDE DEF TypeOK
  <2>3. /\ nextEmit' \in Nat /\ inFlight' \in Nat /\ paused' \in BOOLEAN
        /\ DOMAIN ready' \subseteq Nat /\ ready' \in [DOMAIN ready' -> BOOLEAN]
        /\ emitted' \in SUBSET Nat /\ ends' \in Nat
    BY <2>1, <2>2, DeliverTyped DEF orderVars, TypeOK
  <2> QED BY <2>2, <2>3 DEF streamVars, TypeOK
<1>15. ASSUME PauseDownload PROVE TypeOK'
  BY <1>15 DEF PauseDownload, streamVars, fetchVars, history
<1>16. ASSUME ResumeDownload PROVE TypeOK'
  BY <1>16, AdvanceTyped DEF ResumeDownload, streamVars, history, Replies
<1>17. ASSUME UNCHANGED vars PROVE TypeOK'
  BY <1>17 DEF vars, streamVars, fetchVars, orderVars, history
<1> HIDE DEF TypeOK
<1> QED
  BY <1>0, <1>1, <1>2, <1>3, <1>4, <1>5, <1>6, <1>7, <1>8, <1>9, <1>10, <1>11, <1>12,
     <1>13, <1>14, <1>15, <1>16, <1>17
  DEF Next, Requests, Answers, Pool, Posts

LEMMA TypeOKInit == ASSUME Init PROVE TypeOK
<1>2. DOMAIN ready \subseteq Nat /\ ready \in [DOMAIN ready -> BOOLEAN]
  BY EmptyTyped DEF Init
<1>3. at \in 0 .. FileSize
  BY NetworkStreamerAssumption DEF Init
<1>4. /\ gen \in Nat /\ type \in Types /\ reply \in Replies /\ nextEmit \in Nat
      /\ inFlight \in Nat /\ ends \in Nat /\ paused \in BOOLEAN /\ errored \in BOOLEAN
      /\ pending \in {-1} \cup SeekTargets /\ total \in {0, FileSize}
  BY DEF Init, Types, Replies
<1>5. cur \in Chunk /\ chunks \in Seq(Chunk) /\ queue \in Seq(Chunk)
  BY NoChunkTyped DEF Init
<1>6. /\ key \in Keys \cup {NoKey} /\ keyUrl \in Keys \cup {NoKey}
      /\ jobs = {} /\ posted = {} /\ emitted = {} /\ lost = {}
  BY DEF Init
<1> QED BY <1>2, <1>3, <1>4, <1>5, <1>6 DEF TypeOK

(* The streamer's members always have their types, whatever the network,    *)
(* the thread pool and the user do.                                         *)
THEOREM TypeCorrect == Spec => []TypeOK
<1>1. Init => TypeOK
  BY TypeOKInit
<1>2. TypeOK /\ [Next]_vars => TypeOK'
  BY TypeOKStep
<1> QED BY <1>1, <1>2, PTL DEF Spec

-----------------------------------------------------------------------------
(* The inductive invariant.                                                 *)

LEMMA OwnKept ==
  ASSUME UNCHANGED <<gen, jobs, posted>>
  PROVE  /\ OwnJobs' = OwnJobs /\ OwnPosted' = OwnPosted
         /\ Decrypting' = Decrypting /\ Decrypted' = Decrypted
         /\ WorkInv => WorkInv'
  BY DEF OwnJobs, OwnPosted, Decrypting, Decrypted, WorkInv

(* StopDownload leaves nothing of its own generation behind.                *)
LEMMA StopStep ==
  ASSUME IInv, TypeOK', Stop, chunks' = <<>>, queue' = <<>>,
         UNCHANGED <<jobs, posted>>,
         reply' \in {"none", "manifest", "direct"},
         ends' \in {0, 1}, ends' = 1 => reply' = "none"
  PROVE  IInv'
<1>1. OwnJobs' = {} /\ OwnPosted' = {}
  <2>1. \A w \in jobs \cup posted : w.gen <= gen /\ w.gen \in Nat
    BY DEF IInv, TypeOK, WorkInv
  <2>2. gen' = gen + 1 /\ gen \in Nat
    BY DEF IInv, TypeOK, Stop
  <2>3. \A w \in jobs' \cup posted' : w.gen # gen'
    BY <2>1, <2>2
  <2> QED BY <2>3 DEF OwnJobs, OwnPosted
<1>2. WorkInv'
  <2>1. gen' = gen + 1 /\ gen \in Nat /\ \A w \in jobs \cup posted : w.gen \in Nat
    BY DEF IInv, TypeOK, Stop
  <2> QED BY <1>1, <2>1 DEF WorkInv, IInv
<1>3. PlaylistInv' /\ WindowInv' /\ NoPlaylistInv'
  BY <1>1 DEF PlaylistInv, WindowInv, NoPlaylistInv, Stop
<1>4. InFlightIsExact'
  BY <1>1, FS_EmptySet DEF InFlightIsExact, Stop
<1>5. EmittedInv' /\ QuietInv'
  BY <1>1 DEF EmittedInv, QuietInv, Stop
<1> QED BY <1>2, <1>3, <1>4, <1>5 DEF IInv

(* Dequeuing takes the chunk whose number is next.                          *)
LEMMA AdvanceShape ==
  ASSUME TypeOK, PlaylistInv, queue # <<>>, Advance(queue), UNCHANGED chunks
  PROVE  /\ PlaylistInv' /\ chunks # <<>>
         /\ Dequeued \in Nat /\ First' = First
         /\ cur'.seq = Dequeued /\ Dequeued' = Dequeued + 1
         /\ Downloading' = {Dequeued}
<1>1. /\ Len(queue) \in Nat \ {0} /\ Len(chunks) \in Nat
      /\ queue' = Tail(queue) /\ Len(Tail(queue)) = Len(queue) - 1
      /\ Tail(queue) \in Seq(Chunk)
  BY DEF TypeOK, Advance
<1>2. \A i \in 1 .. Len(Tail(queue)) : Tail(queue)[i] = queue[i + 1]
  BY DEF TypeOK
<1>3. chunks # <<>> /\ Len(queue) <= Len(chunks)
  BY <1>1 DEF PlaylistInv
<1>4. cur' = queue[1] /\ queue[1] = chunks[Len(chunks) - Len(queue) + 1]
  BY <1>1 DEF PlaylistInv, Advance, TypeOK
<1>5. \A i \in 1 .. Len(chunks) : chunks[i] \in Chunk
  BY DEF TypeOK
<1>6. First \in Nat
  BY <1>1, <1>3, <1>5 DEF First, Chunk
<1>7. cur'.seq = Dequeued
  <2>1. Len(chunks) - Len(queue) + 1 \in 1 .. Len(chunks)
    BY <1>1, <1>3
  <2> QED BY <1>1, <1>4, <1>6, <2>1 DEF PlaylistInv, Dequeued
<1>8. PlaylistInv'
  <2>1. \A i \in 1 .. Len(chunks) : chunks[i].seq = First + i - 1
    BY DEF PlaylistInv
  <2>2. First' = First
    BY DEF First
  <2>3. \A i \in 1 .. Len(Tail(queue)) :
          Tail(queue)[i] = chunks[Len(chunks) - Len(Tail(queue)) + i]
    <3> SUFFICES ASSUME NEW i \in 1 .. Len(Tail(queue))
                 PROVE  Tail(queue)[i] = chunks[Len(chunks) - Len(Tail(queue)) + i]
      OBVIOUS
    <3>1. i + 1 \in 1 .. Len(queue) /\ i \in Nat
      BY <1>1
    <3>2. queue[i + 1] = chunks[Len(chunks) - Len(queue) + (i + 1)]
      BY <3>1 DEF PlaylistInv
    <3>3. Len(chunks) - Len(queue) + (i + 1) = Len(chunks) - Len(Tail(queue)) + i
      BY <1>1, <3>1
    <3> QED BY <1>2, <3>2, <3>3
  <2> QED BY <1>1, <1>3, <2>1, <2>2, <2>3 DEF PlaylistInv
<1>9. Dequeued \in Nat /\ First' = First /\ Dequeued' = Dequeued + 1
  BY <1>1, <1>3, <1>6 DEF Dequeued, First
<1>10. Downloading' = {Dequeued}
  BY <1>7 DEF Downloading, Advance
<1> QED BY <1>3, <1>7, <1>8, <1>9, <1>10

(* Pipelining, at the end of a request: the next chunk, if any, is now      *)
(* being downloaded, and nothing else changed place.                        *)
LEMMA PipelineShape ==
  ASSUME TypeOK, PlaylistInv, chunks # <<>>, Pipeline, UNCHANGED chunks
  PROVE  /\ PlaylistInv' /\ First' = First /\ First \in Nat /\ Dequeued \in Nat
         /\ Dequeued' \in {Dequeued, Dequeued + 1}
         /\ Downloading' = Dequeued .. (Dequeued' - 1)
         /\ reply' \in {"none", "key", "chunk"}
         /\ queue = <<>> => reply' = "none" /\ queue' = <<>>
<1>0. First \in Nat /\ Dequeued \in Nat
  <2>1. Len(chunks) \in Nat \ {0} /\ Len(queue) \in Nat /\ chunks[1] \in Chunk
    BY DEF TypeOK
  <2>2. Len(queue) <= Len(chunks)
    BY DEF PlaylistInv
  <2> QED BY <2>1, <2>2 DEF First, Dequeued, Chunk
<1>1. CASE ~paused /\ queue # <<>>
  <2>1. Advance(queue)
    BY <1>1 DEF Pipeline
  <2>2. Dequeued .. (Dequeued' - 1) = {Dequeued}
    BY <1>0, <1>1, <2>1, AdvanceShape
  <2> QED BY <1>0, <1>1, <2>1, <2>2, AdvanceShape DEF Advance
<1>2. CASE ~(~paused /\ queue # <<>>)
  <2>1. reply' = "none" /\ UNCHANGED <<queue, cur, keyUrl>>
    BY <1>2 DEF Pipeline
  <2>2. PlaylistInv' /\ First' = First /\ Dequeued' = Dequeued
    BY <2>1 DEF PlaylistInv, First, Dequeued
  <2>3. Downloading' = {}
    BY <2>1 DEF Downloading
  <2> QED BY <1>0, <2>1, <2>2, <2>3
<1> QED BY <1>1, <1>2

(* With chunk seq added, the reorder buffer and the other places make up the *)
(* window from nextEmit to e.                                               *)
Fits(seq, other, e) ==
  /\ e \in Int /\ nextEmit <= e + 1
  /\ DOMAIN ready \cup {seq} \cup other = nextEmit .. e
  /\ (DOMAIN ready \cup {seq}) \cap other = {}

\* What a delivery leaves of that window.
Slid(other, e) ==
  /\ nextEmit' \in nextEmit .. (e + 1)
  /\ DOMAIN ready' \cup other = nextEmit' .. e
  /\ DOMAIN ready' \cap other = {}

(* Delivering moves an unbroken run of chunks from the window to the        *)
(* engine; "other" is what the window holds besides the reorder buffer.     *)
LEMMA DeliverShape ==
  ASSUME TypeOK, NEW seq \in Nat, NEW full \in BOOLEAN, NEW flights \in Int,
         Deliver(seq, full, flights), NEW other, NEW e, Fits(seq, other, e)
  PROVE  /\ Slid(other, e)
         /\ emitted' \ emitted \subseteq nextEmit .. (nextEmit' - 1)
         /\ emitted \subseteq emitted'
         /\ inFlight' = IF flights < 0 THEN 0 ELSE flights
         /\ ends' = IF Drained THEN ends + 1 ELSE ends
<1> USE DEF Fits
<1> DEFINE r == [s \in DOMAIN ready \cup {seq} |-> IF s = seq THEN full ELSE ready[s]]
           R == DOMAIN ready \cup {seq}
<1>1. PICK m \in nextEmit .. (nextEmit + Cardinality(DOMAIN r)) :
        /\ DrainsTo(r, nextEmit, m)
        /\ nextEmit' = m
        /\ ready' = [s \in DOMAIN r \ (nextEmit .. (m - 1)) |-> r[s]]
        /\ emitted' = emitted \cup {s \in nextEmit .. (m - 1) : r[s]}
        /\ inFlight' = IF flights < 0 THEN 0 ELSE flights
        /\ ends' = IF Drained THEN ends + 1 ELSE ends
  BY DEF Deliver, AnnounceEnd
<1>2. nextEmit \in Nat
  BY DEF TypeOK
<1>3. R \subseteq nextEmit .. e
  OBVIOUS
<1>4. DOMAIN r = R
  OBVIOUS
<1>5. m \in Int /\ m >= nextEmit /\ nextEmit .. (m - 1) \subseteq R
  <2>1. ~ \E s \in DOMAIN r : s < nextEmit
    BY <1>2, <1>3, <1>4
  <2>2. m >= nextEmit /\ nextEmit .. (m - 1) \subseteq DOMAIN r
    BY <1>1, <2>1 DEF DrainsTo
  <2>3. m \in Int
    BY <1>1
  <2> QED BY <1>4, <2>2, <2>3
<1>6. m <= e + 1
  <2> SUFFICES ASSUME m > e + 1 PROVE FALSE
    BY <1>5
  <2>1. m - 1 \in nextEmit .. (m - 1) /\ m - 1 > e
    BY <1>2, <1>5
  <2> QED BY <1>3, <1>5, <2>1
<1>7. DOMAIN ready' = R \ (nextEmit .. (m - 1))
  BY <1>1, <1>4
<1>8. DOMAIN ready' \cup other = m .. e
  BY <1>2, <1>5, <1>6, <1>7
<1>9. emitted \subseteq emitted' /\ emitted' \ emitted \subseteq nextEmit .. (m - 1)
  BY <1>1
<1>10. Slid(other, e)
  BY <1>1, <1>2, <1>5, <1>6, <1>7, <1>8 DEF Slid
<1> QED BY <1>1, <1>9, <1>10

(* A request for a chunk is outstanding only in a playlist, before its end. *)
LEMMA Fetching ==
  ASSUME IInv, reply \in {"key", "chunk"}
  PROVE  /\ chunks # <<>> /\ ends = 0 /\ Downloading = {cur.seq}
         /\ cur.seq \in Nat /\ nextEmit \in Nat /\ inFlight \in Nat
         /\ First \in Nat /\ Dequeued \in Nat
         /\ nextEmit \in First .. Dequeued
         /\ cur.seq \in nextEmit .. (Dequeued - 1)
<1>1. chunks # <<>>
  BY DEF IInv, NoPlaylistInv
<1>2. ends = 0 /\ cur.seq \in Nat /\ nextEmit \in Nat /\ inFlight \in Nat
  BY DEF IInv, QuietInv, TypeOK, Chunk
<1>3. Downloading = {cur.seq}
  BY DEF Downloading
<1>4. First \in Nat /\ Dequeued \in Nat
  <2>1. Len(chunks) \in Nat \ {0} /\ Len(queue) \in Nat /\ chunks[1] \in Chunk
    BY <1>1 DEF IInv, TypeOK
  <2>2. Len(queue) <= Len(chunks)
    BY DEF IInv, PlaylistInv
  <2> QED BY <2>1, <2>2 DEF First, Dequeued, Chunk
<1>5. nextEmit \in First .. Dequeued /\ cur.seq \in nextEmit .. (Dequeued - 1)
  BY <1>1, <1>3 DEF IInv, WindowInv
<1> QED BY <1>1, <1>2, <1>3, <1>4, <1>5

(* When the end is announced no decryption of this stream is under way.     *)
LEMMA DrainedIsQuiet ==
  ASSUME ends = 0, ends' = (IF Drained THEN ends + 1 ELSE ends),
         WorkInv', InFlightIsExact'
  PROVE  QuietInv'
<1>1. CASE Drained
  <2>1. IsFiniteSet(OwnJobs') /\ IsFiniteSet(OwnPosted')
    BY FS_Subset DEF WorkInv, OwnJobs, OwnPosted
  <2>2. Cardinality(OwnJobs') \in Nat /\ Cardinality(OwnPosted') \in Nat
    BY <2>1, FS_CardinalityType
  <2>3. Cardinality(OwnJobs') = 0 /\ Cardinality(OwnPosted') = 0
    BY <1>1, <2>2 DEF Drained, InFlightIsExact
  <2>4. OwnJobs' = {} /\ OwnPosted' = {}
    BY <2>1, <2>3, FS_EmptySet
  <2> QED BY <1>1, <2>4 DEF Drained, QuietInv
<1>2. CASE ~Drained
  BY <1>2 DEF QuietInv
<1> QED BY <1>1, <1>2

LEMMA PlainStep ==
  ASSUME IInv, TypeOK', NEW full \in BOOLEAN, ChunkFinishedPlain(full)
  PROVE  IInv'
<1>1. /\ reply = "chunk" /\ Pipeline /\ Deliver(cur.seq, full, inFlight)
      /\ UNCHANGED <<gen, chunks, jobs, posted, lost>>
  BY DEF ChunkFinishedPlain, streamVars
<1>2. /\ chunks # <<>> /\ ends = 0 /\ Downloading = {cur.seq}
      /\ cur.seq \in Nat /\ nextEmit \in Nat /\ inFlight \in Nat
      /\ nextEmit \in First .. Dequeued /\ cur.seq \in nextEmit .. (Dequeued - 1)
  BY <1>1, Fetching
<1>3. /\ PlaylistInv' /\ First' = First /\ First \in Nat /\ Dequeued \in Nat
      /\ Dequeued' \in {Dequeued, Dequeued + 1}
      /\ Downloading' = Dequeued .. (Dequeued' - 1)
      /\ reply' \in {"none", "key", "chunk"}
  BY <1>1, <1>2, PipelineShape DEF IInv
<1>4. /\ OwnJobs' = OwnJobs /\ OwnPosted' = OwnPosted
      /\ Decrypting' = Decrypting /\ Decrypted' = Decrypted /\ WorkInv'
  BY <1>1, OwnKept DEF IInv
<1> DEFINE other == Decrypting \cup Decrypted \cup Downloading' \cup lost
<1>5. /\ DOMAIN ready \cup Decrypting \cup Decrypted \cup {cur.seq} \cup lost
           = nextEmit .. (Dequeued - 1)
      /\ DOMAIN ready \cap (Decrypting \cup Decrypted \cup {cur.seq} \cup lost) = {}
      /\ Decrypting \cap (Decrypted \cup {cur.seq} \cup lost) = {}
      /\ Decrypted \cap ({cur.seq} \cup lost) = {}
      /\ {cur.seq} \cap lost = {}
  BY <1>2 DEF IInv, WindowInv
<1>6. Downloading' \cap (nextEmit .. (Dequeued - 1)) = {}
  <2>1. \A x \in Dequeued .. (Dequeued' - 1) : x \notin nextEmit .. (Dequeued - 1)
    BY <1>2, <1>3
  <2> QED BY <1>3, <2>1
<1>7. DOMAIN ready \cup {cur.seq} \cup other = nextEmit .. (Dequeued' - 1)
  <2>1. (nextEmit .. (Dequeued - 1)) \cup Downloading' = nextEmit .. (Dequeued' - 1)
    BY <1>2, <1>3
  <2> QED BY <1>5, <2>1
<1>8. (DOMAIN ready \cup {cur.seq}) \cap other = {}
  BY <1>5, <1>6
<1>9. /\ nextEmit' \in nextEmit .. Dequeued'
      /\ DOMAIN ready' \cup other = nextEmit' .. (Dequeued' - 1)
      /\ DOMAIN ready' \cap other = {}
      /\ emitted' \ emitted \subseteq nextEmit .. (nextEmit' - 1)
      /\ inFlight' = IF inFlight < 0 THEN 0 ELSE inFlight
      /\ ends' = IF Drained THEN ends + 1 ELSE ends
  <2>1. Dequeued' \in Nat /\ nextEmit <= Dequeued' /\ inFlight \in Int
    BY <1>2, <1>3
  <2>2. TypeOK
    BY DEF IInv
  <2>3. Deliver(cur.seq, full, inFlight) /\ cur.seq \in Nat
    BY <1>1, <1>2
  <2>4. PICK o : other = o
    OBVIOUS
  <2>5. PICK d : Dequeued' = d
    OBVIOUS
  <2>6. Fits(cur.seq, o, d - 1) /\ inFlight \in Int
    BY <1>7, <1>8, <2>1, <2>4, <2>5 DEF Fits
  <2>7. /\ Slid(o, d - 1)
        /\ emitted' \ emitted \subseteq nextEmit .. (nextEmit' - 1)
        /\ inFlight' = IF inFlight < 0 THEN 0 ELSE inFlight
        /\ ends' = IF Drained THEN ends + 1 ELSE ends
    BY <2>2, <2>3, <2>6, DeliverShape
  <2>8. nextEmit' \in nextEmit .. Dequeued'
    BY <1>2, <2>1, <2>5, <2>7 DEF Slid
  <2> QED BY <2>4, <2>5, <2>7, <2>8 DEF Slid
<1>10. WindowInv'
  <2>1. nextEmit' \in First' .. Dequeued'
    BY <1>2, <1>3, <1>9
  <2> QED BY <1>1, <1>4, <1>5, <1>6, <1>9, <2>1 DEF WindowInv
<1>11. NoPlaylistInv'
  BY <1>1, <1>2, <1>3 DEF NoPlaylistInv
<1>12. InFlightIsExact'
  BY <1>2, <1>4, <1>9 DEF InFlightIsExact, IInv
<1>13. EmittedInv'
  <2>1. \A s \in emitted : s < nextEmit /\ s \in Nat
    BY <1>2 DEF EmittedInv, IInv, TypeOK
  <2>2. nextEmit' \in Nat /\ nextEmit <= nextEmit'
    BY <1>2, <1>3, <1>9
  <2>3. \A s \in emitted' : s \in emitted \/ s \in nextEmit .. (nextEmit' - 1)
    BY <1>9
  <2>4. \A s \in emitted' : s < nextEmit'
    BY <1>2, <2>1, <2>2, <2>3
  <2> QED BY <1>3, <2>4 DEF EmittedInv
<1>14. QuietInv'
  BY <1>2, <1>4, <1>9, <1>12, DrainedIsQuiet DEF IInv
<1> QED BY <1>3, <1>4, <1>10, <1>11, <1>12, <1>13, <1>14 DEF IInv

(* The window when a finished download has left it for another place.       *)
LEMMA Leaving ==
  ASSUME IInv, reply \in {"key", "chunk"}, Pipeline, UNCHANGED chunks
  PROVE  /\ DOMAIN ready \cup Decrypting \cup Decrypted \cup Downloading' \cup lost \cup {cur.seq}
              = nextEmit .. (Dequeued' - 1)
         /\ DOMAIN ready \cap (Decrypting \cup Decrypted \cup Downloading' \cup lost \cup {cur.seq}) = {}
         /\ Decrypting \cap (Decrypted \cup Downloading' \cup lost \cup {cur.seq}) = {}
         /\ Decrypted \cap (Downloading' \cup lost \cup {cur.seq}) = {}
         /\ Downloading' \cap (lost \cup {cur.seq}) = {}
         /\ cur.seq \notin lost
         /\ nextEmit \in First' .. Dequeued'
<1>1. /\ chunks # <<>> /\ Downloading = {cur.seq}
      /\ cur.seq \in Nat /\ nextEmit \in Nat
      /\ nextEmit \in First .. Dequeued /\ cur.seq \in nextEmit .. (Dequeued - 1)
  BY Fetching
<1>2. /\ First' = First /\ First \in Nat /\ Dequeued \in Nat
      /\ Dequeued' \in {Dequeued, Dequeued + 1}
      /\ Downloading' = Dequeued .. (Dequeued' - 1)
  BY <1>1, PipelineShape DEF IInv
<1>3. /\ DOMAIN ready \cup Decrypting \cup Decrypted \cup {cur.seq} \cup lost
           = nextEmit .. (Dequeued - 1)
      /\ DOMAIN ready \cap (Decrypting \cup Decrypted \cup {cur.seq} \cup lost) = {}
      /\ Decrypting \cap (Decrypted \cup {cur.seq} \cup lost) = {}
      /\ Decrypted \cap ({cur.seq} \cup lost) = {}
      /\ {cur.seq} \cap lost = {}
  BY <1>1 DEF IInv, WindowInv
<1>4. Downloading' \cap (nextEmit .. (Dequeued - 1)) = {}
  <2>1. \A x \in Dequeued .. (Dequeued' - 1) : x \notin nextEmit .. (Dequeued - 1)
    BY <1>1, <1>2
  <2> QED BY <1>2, <2>1
<1>5. (nextEmit .. (Dequeued - 1)) \cup Downloading' = nextEmit .. (Dequeued' - 1)
  BY <1>1, <1>2
<1>6. nextEmit \in First' .. Dequeued'
  BY <1>1, <1>2
<1> QED BY <1>3, <1>4, <1>5, <1>6

LEMMA EncryptedStep ==
  ASSUME IInv, TypeOK', ChunkFinishedEncrypted
  PROVE  IInv'
<1> DEFINE j == [seq |-> cur.seq, gen |-> gen, key |-> key]
<1>1. /\ reply = "chunk" /\ Pipeline /\ inFlight' = inFlight + 1
      /\ jobs' = jobs \cup {j}
      /\ UNCHANGED <<gen, chunks, nextEmit, ready, posted, emitted, lost, ends>>
  BY DEF ChunkFinishedEncrypted, streamVars, history
<1>2. chunks # <<>> /\ ends = 0 /\ inFlight \in Nat
  BY <1>1, Fetching
<1>3. PlaylistInv' /\ reply' \in {"none", "key", "chunk"}
  BY <1>1, <1>2, PipelineShape DEF IInv
<1>4. /\ OwnJobs' = OwnJobs \cup {j} /\ OwnPosted' = OwnPosted
      /\ Decrypting' = Decrypting \cup {cur.seq} /\ Decrypted' = Decrypted
  <2>1. j.gen = gen /\ j.seq = cur.seq
    OBVIOUS
  <2> HIDE DEF j
  <2>2. OwnJobs' = OwnJobs \cup {j} /\ OwnPosted' = OwnPosted
    BY <1>1, <2>1 DEF OwnJobs, OwnPosted
  <2> QED BY <2>1, <2>2 DEF Decrypting, Decrypted
<1>5. cur.seq \notin Decrypting
  BY <1>1, Leaving
<1>6. WorkInv'
  <2>1. IsFiniteSet(jobs')
    BY <1>1, FS_AddElement DEF IInv, WorkInv
  <2>2. \A w \in jobs' \cup posted' : w.gen <= gen'
    BY <1>1 DEF IInv, WorkInv, TypeOK
  <2>3. \A v \in OwnJobs : v.seq # j.seq
    BY <1>5 DEF Decrypting
  <2> QED BY <1>1, <1>4, <2>1, <2>2, <2>3 DEF IInv, WorkInv
<1>7. WindowInv'
  BY <1>1, <1>4, Leaving DEF WindowInv
<1>8. NoPlaylistInv' /\ EmittedInv' /\ QuietInv'
  BY <1>1, <1>2, <1>3 DEF NoPlaylistInv, EmittedInv, QuietInv, IInv
<1>9. InFlightIsExact'
  <2>1. j \notin OwnJobs
    BY <1>5 DEF Decrypting
  <2>2. IsFiniteSet(OwnJobs) /\ IsFiniteSet(OwnPosted)
    BY FS_Subset DEF IInv, WorkInv, OwnJobs, OwnPosted
  <2>3. Cardinality(OwnJobs \cup {j}) = Cardinality(OwnJobs) + 1
    BY <2>1, <2>2, FS_AddElement
  <2>4. Cardinality(OwnJobs) \in Nat /\ Cardinality(OwnPosted) \in Nat
    BY <2>2, FS_CardinalityType
  <2> QED BY <1>1, <1>4, <2>3, <2>4 DEF InFlightIsExact, IInv
<1> QED BY <1>3, <1>6, <1>7, <1>8, <1>9 DEF IInv

LEMMA FailedStep ==
  ASSUME IInv, TypeOK', ChunkFailed
  PROVE  IInv'
<1>1. /\ reply = "chunk" /\ Pipeline /\ lost' = lost \cup {cur.seq}
      /\ ends' = IF queue = <<>> /\ ready = Empty /\ inFlight = 0 THEN ends + 1 ELSE ends
      /\ UNCHANGED <<gen, chunks, nextEmit, ready, inFlight, jobs, posted, emitted>>
  BY DEF ChunkFailed, streamVars, orderVars
<1>2. chunks # <<>> /\ ends = 0
  BY <1>1, Fetching
<1>3. /\ PlaylistInv' /\ reply' \in {"none", "key", "chunk"}
      /\ queue = <<>> => reply' = "none" /\ queue' = <<>>
  BY <1>1, <1>2, PipelineShape DEF IInv
<1>4. /\ OwnJobs' = OwnJobs /\ OwnPosted' = OwnPosted
      /\ Decrypting' = Decrypting /\ Decrypted' = Decrypted /\ WorkInv'
  BY <1>1, OwnKept DEF IInv
<1>5. WindowInv'
  BY <1>1, <1>4, Leaving DEF WindowInv
<1>6. NoPlaylistInv' /\ EmittedInv'
  BY <1>1, <1>2, <1>3 DEF NoPlaylistInv, EmittedInv, IInv
<1>7. InFlightIsExact'
  BY <1>1, <1>4 DEF InFlightIsExact, IInv
<1>8. QuietInv'
  <2>1. CASE queue = <<>> /\ ready = Empty /\ inFlight = 0
    <3>1. IF Drained THEN ends' = ends + 1 ELSE ends' = ends
      BY <1>1, <1>3, <2>1 DEF Drained
    <3> QED BY <1>2, <1>4, <1>7, <3>1, DrainedIsQuiet
  <2>2. CASE ~(queue = <<>> /\ ready = Empty /\ inFlight = 0)
    BY <1>1, <1>2, <2>2 DEF QuietInv
  <2> QED BY <2>1, <2>2
<1> QED BY <1>3, <1>4, <1>5, <1>6, <1>7, <1>8 DEF IInv

LEMMA FinishJobStep ==
  ASSUME IInv, TypeOK', NEW j \in jobs, NEW full \in BOOLEAN, FinishJob(j, full)
  PROVE  IInv'
<1> DEFINE d == [seq |-> j.seq, gen |-> j.gen, full |-> full]
<1>1. /\ jobs' = jobs \ {j} /\ posted' = posted \cup {d}
      /\ UNCHANGED <<gen, chunks, queue, cur, reply, at, nextEmit, ready, inFlight,
                     emitted, lost, ends>>
  BY DEF FinishJob, streamVars, fetchVars, orderVars, history
<1>2. IsFiniteSet(jobs') /\ IsFiniteSet(posted')
  BY <1>1, FS_AddElement, FS_RemoveElement DEF IInv, WorkInv
<1>3. \A w \in jobs' \cup posted' : w.gen <= gen'
  BY <1>1 DEF IInv, WorkInv
<1>4. PlaylistInv' /\ First' = First /\ Dequeued' = Dequeued /\ Downloading' = Downloading
  BY <1>1 DEF PlaylistInv, IInv, First, Dequeued, Downloading
<1>5. IsFiniteSet(OwnJobs) /\ IsFiniteSet(OwnPosted)
  BY FS_Subset DEF IInv, WorkInv, OwnJobs, OwnPosted
<1>6. Cardinality(OwnJobs) \in Nat /\ Cardinality(OwnPosted) \in Nat
  BY <1>5, FS_CardinalityType
<1>7. CASE j.gen # gen
  <2>1. OwnJobs' = OwnJobs /\ OwnPosted' = OwnPosted
    BY <1>1, <1>7 DEF OwnJobs, OwnPosted
  <2>2. Decrypting' = Decrypting /\ Decrypted' = Decrypted
    BY <2>1 DEF Decrypting, Decrypted
  <2>3. WorkInv' /\ InFlightIsExact'
    BY <1>1, <1>2, <1>3, <2>1 DEF WorkInv, InFlightIsExact, IInv
  <2>4. NoPlaylistInv' /\ WindowInv' /\ EmittedInv' /\ QuietInv'
    BY <1>1, <1>4, <2>1, <2>2
    DEF NoPlaylistInv, WindowInv, EmittedInv, QuietInv, IInv
  <2> QED BY <1>4, <2>3, <2>4 DEF IInv
<1>8. CASE j.gen = gen
  <2>1. /\ j \in OwnJobs /\ OwnJobs' = OwnJobs \ {j} /\ OwnPosted' = OwnPosted \cup {d}
    BY <1>1, <1>8 DEF OwnJobs, OwnPosted
  <2>2. Decrypted' = Decrypted \cup {j.seq}
    <3>1. d.seq = j.seq
      OBVIOUS
    <3> HIDE DEF d
    <3> QED BY <2>1, <3>1 DEF Decrypted
  <2>3. Decrypting' = Decrypting \ {j.seq} /\ j.seq \in Decrypting
    BY <2>1 DEF Decrypting, IInv, WorkInv
  <2>4. chunks # <<>> /\ ends = 0
    <3>1. ends \in Nat
      BY DEF IInv, TypeOK
    <3> QED BY <2>1, <3>1 DEF IInv, NoPlaylistInv, QuietInv
  <2>5. j.seq \notin Decrypted
    BY <2>3, <2>4 DEF IInv, WindowInv
  <2>6. d \notin OwnPosted /\ \A v \in OwnPosted : v.seq # d.seq
    BY <2>5 DEF Decrypted
  <2>7. WorkInv'
    BY <1>2, <1>3, <2>1, <2>6 DEF IInv, WorkInv
  <2>8. InFlightIsExact'
    <3>1. Cardinality(OwnJobs \ {j}) = Cardinality(OwnJobs) - 1
      BY <1>5, <2>1, FS_RemoveElement
    <3>2. Cardinality(OwnPosted \cup {d}) = Cardinality(OwnPosted) + 1
      BY <1>5, <2>6, FS_AddElement
    <3> QED BY <1>1, <1>6, <2>1, <3>1, <3>2 DEF IInv, InFlightIsExact
  <2>9. WindowInv'
    BY <1>1, <1>4, <2>2, <2>3 DEF IInv, WindowInv
  <2>10. NoPlaylistInv' /\ EmittedInv' /\ QuietInv'
    BY <1>1, <2>4 DEF IInv, NoPlaylistInv, EmittedInv, QuietInv
  <2> QED BY <1>4, <2>7, <2>8, <2>9, <2>10 DEF IInv
<1> QED BY <1>7, <1>8

(* First, the last chunk and what lies between are numbers.                 *)
LEMMA Bounds ==
  ASSUME TypeOK, PlaylistInv, chunks # <<>>
  PROVE  First \in Nat /\ Dequeued \in Nat
<1>1. Len(chunks) \in Nat \ {0} /\ Len(queue) \in Nat /\ chunks[1] \in Chunk
  BY DEF TypeOK
<1>2. Len(queue) <= Len(chunks)
  BY DEF PlaylistInv
<1> QED BY <1>1, <1>2 DEF First, Dequeued, Chunk

LEMMA PostedStep ==
  ASSUME IInv, TypeOK', NEW d \in posted, DeliverPosted(d)
  PROVE  IInv'
<1>1. /\ posted' = posted \ {d}
      /\ UNCHANGED <<gen, chunks, queue, cur, reply, at, jobs, lost>>
  BY DEF DeliverPosted, streamVars
<1>2. d.seq \in Nat /\ d.full \in BOOLEAN /\ TypeOK /\ nextEmit \in Nat /\ inFlight \in Nat
  BY DEF IInv, TypeOK
<1>3. PlaylistInv' /\ First' = First /\ Dequeued' = Dequeued /\ Downloading' = Downloading
  BY <1>1 DEF PlaylistInv, IInv, First, Dequeued, Downloading
<1>4. IsFiniteSet(OwnJobs) /\ IsFiniteSet(OwnPosted) /\ IsFiniteSet(posted')
  BY <1>1, FS_Subset, FS_RemoveElement DEF IInv, WorkInv, OwnJobs, OwnPosted
<1>5. OwnJobs' = OwnJobs /\ Decrypting' = Decrypting
  BY <1>1 DEF OwnJobs, Decrypting
<1>6. CASE d.gen # gen
  <2>1. UNCHANGED <<nextEmit, ready, inFlight, emitted, ends>>
    BY <1>6 DEF DeliverPosted, orderVars
  <2>2. OwnPosted' = OwnPosted
    BY <1>1, <1>6 DEF OwnPosted
  <2>3. Decrypted' = Decrypted
    BY <2>2 DEF Decrypted
  <2>4. WorkInv' /\ InFlightIsExact'
    BY <1>1, <1>4, <1>5, <2>1, <2>2 DEF WorkInv, InFlightIsExact, IInv
  <2>5. NoPlaylistInv' /\ WindowInv' /\ EmittedInv' /\ QuietInv'
    BY <1>1, <1>3, <1>5, <2>1, <2>2, <2>3
    DEF NoPlaylistInv, WindowInv, EmittedInv, QuietInv, IInv
  <2> QED BY <1>3, <2>4, <2>5 DEF IInv
<1>7. CASE d.gen = gen
  <2>1. d \in OwnPosted /\ OwnPosted' = OwnPosted \ {d}
    BY <1>1, <1>7 DEF OwnPosted
  <2>2. Decrypted' = Decrypted \ {d.seq} /\ d.seq \in Decrypted
    BY <2>1 DEF Decrypted, IInv, WorkInv
  <2>3. chunks # <<>> /\ ends = 0
    <3>1. ends \in Nat
      BY DEF IInv, TypeOK
    <3> QED BY <2>1, <3>1 DEF IInv, NoPlaylistInv, QuietInv
  <2>4. First \in Nat /\ Dequeued \in Nat /\ nextEmit \in First .. Dequeued
    BY <2>3, Bounds DEF IInv, WindowInv
  <2>5. PICK other : other = Decrypting \cup Decrypted' \cup Downloading \cup lost
    OBVIOUS
  <2>6. Fits(d.seq, other, Dequeued - 1)
    BY <2>2, <2>3, <2>4, <2>5 DEF IInv, WindowInv, Fits
  <2>7. Deliver(d.seq, d.full, inFlight - 1)
    BY <1>7 DEF DeliverPosted
  <2>8. PICK e : e = Dequeued - 1
    OBVIOUS
  <2>9. PICK f \in Int : f = inFlight - 1
    BY <1>2
  <2>10. /\ Slid(other, e)
         /\ emitted' \ emitted \subseteq nextEmit .. (nextEmit' - 1)
         /\ inFlight' = IF f < 0 THEN 0 ELSE f
         /\ ends' = IF Drained THEN ends + 1 ELSE ends
    <3>1. Deliver(d.seq, d.full, f) /\ Fits(d.seq, other, e)
      BY <2>6, <2>7, <2>8, <2>9
    <3> QED BY <1>2, <3>1, DeliverShape
  <2>11. /\ nextEmit' \in nextEmit .. Dequeued
         /\ DOMAIN ready' \cup other = nextEmit' .. (Dequeued - 1)
         /\ DOMAIN ready' \cap other = {}
    BY <2>4, <2>8, <2>10 DEF Slid
  <2>12. WindowInv'
    <3>1. nextEmit' \in First' .. Dequeued'
      BY <1>3, <2>4, <2>11
    <3> QED BY <1>1, <1>3, <1>5, <2>2, <2>3, <2>5, <2>11, <3>1 DEF IInv, WindowInv
  <2>13. WorkInv'
    BY <1>1, <1>4, <1>5, <2>1 DEF IInv, WorkInv
  <2>14. InFlightIsExact'
    <3>1. Cardinality(OwnPosted \ {d}) = Cardinality(OwnPosted) - 1
      BY <1>4, <2>1, FS_RemoveElement
    <3>2. Cardinality(OwnJobs) \in Nat /\ Cardinality(OwnPosted \ {d}) \in Nat
      BY <1>4, FS_CardinalityType, FS_RemoveElement
    <3>3. Cardinality(OwnPosted) \in Nat
      BY <1>4, FS_CardinalityType
    <3>4. inFlight - 1 = Cardinality(OwnJobs) + Cardinality(OwnPosted \ {d})
      BY <1>2, <3>1, <3>2, <3>3 DEF IInv, InFlightIsExact
    <3>5. inFlight' = inFlight - 1
      BY <2>9, <2>10, <3>2, <3>4
    <3> QED BY <1>5, <2>1, <3>4, <3>5 DEF InFlightIsExact
  <2>15. NoPlaylistInv'
    BY <1>1, <2>3 DEF IInv, NoPlaylistInv
  <2>16. EmittedInv'
    <3>1. \A s \in emitted : s < nextEmit /\ s \in Nat
      BY <2>3 DEF EmittedInv, IInv, TypeOK
    <3>2. nextEmit' \in Nat /\ nextEmit <= nextEmit'
      BY <1>2, <2>4, <2>11
    <3>3. \A s \in emitted' : s \in emitted \/ s \in nextEmit .. (nextEmit' - 1)
      BY <2>10
    <3>4. \A s \in emitted' : s < nextEmit'
      BY <1>2, <3>1, <3>2, <3>3
    <3>5. reply' \notin {"manifest", "direct"}
      BY <1>1, <2>3 DEF IInv, NoPlaylistInv
    <3> QED BY <3>4, <3>5 DEF EmittedInv
  <2>17. QuietInv'
    BY <2>3, <2>10, <2>13, <2>14, DrainedIsQuiet
  <2> QED BY <1>3, <2>12, <2>13, <2>14, <2>15, <2>16, <2>17 DEF IInv
<1> QED BY <1>6, <1>7

(* The chunks of a playlist are numbered from its base.                     *)
LEMMA ManifestChunks ==
  ASSUME NEW man \in Manifests
  PROVE  /\ man.base \in Nat /\ Len(man.keys) \in Nat
         /\ Chunks(man) \in Seq(Chunk) /\ Len(Chunks(man)) = Len(man.keys)
         /\ \A i \in 1 .. Len(man.keys) : Chunks(man)[i].seq = man.base + i - 1
<1>1. man.base \in Nat /\ man.keys \in Seq(Keys \cup {NoKey})
  BY NetworkStreamerAssumption
<1>2. Len(man.keys) \in Nat
  BY <1>1
<1>3. Len(Chunks(man)) = Len(man.keys)
  BY <1>2 DEF Chunks
<1> QED BY <1>1, <1>2, <1>3, ChunksTyped DEF Chunks

(* A playlist that has just arrived, before or after its first chunk is     *)
(* dequeued.                                                                *)
LEMMA FreshPlaylist ==
  ASSUME IInv, TypeOK', reply = "manifest",
         NEW man \in Manifests, chunks' = Chunks(man),
         nextEmit' = man.base, ready' = Empty, inFlight' = 0,
         \/ queue' = Chunks(man) /\ reply' = "none"
         \/ Chunks(man) # <<>> /\ Advance(Chunks(man)),
         ends' = (IF Drained THEN ends + 1 ELSE ends) \/ ends' = ends,
         UNCHANGED <<gen, jobs, posted, emitted, lost>>
  PROVE  IInv'
<1>1. /\ chunks = <<>> /\ OwnJobs = {} /\ OwnPosted = {} /\ lost = {} /\ emitted = {}
      /\ ends = 0
  <2>1. chunks = <<>>
    BY DEF IInv, NoPlaylistInv
  <2>2. ends = 0
    BY DEF IInv, QuietInv, TypeOK
  <2> QED BY <2>1, <2>2 DEF IInv, NoPlaylistInv, EmittedInv
<1>2. PICK cs : cs = Chunks(man)
  OBVIOUS
<1>3. PICK b \in Nat : b = man.base
  BY ManifestChunks
<1>4. /\ cs \in Seq(Chunk) /\ Len(cs) \in Nat /\ chunks' = cs /\ nextEmit' = b
      /\ \A i \in 1 .. Len(cs) : cs[i].seq = b + i - 1
  BY <1>2, <1>3, ManifestChunks
<1>5. reply' \in {"none", "key", "chunk"}
  BY DEF Advance
<1>6. OwnJobs' = {} /\ OwnPosted' = {} /\ Decrypting' = {} /\ Decrypted' = {} /\ WorkInv'
  BY <1>1, OwnKept DEF IInv, Decrypting, Decrypted
<1>7. InFlightIsExact'
  BY <1>6, FS_EmptySet DEF InFlightIsExact
<1>8. QuietInv'
  <2>1. CASE ends' = (IF Drained THEN ends + 1 ELSE ends)
    BY <1>1, <1>6, <1>7, <2>1, DrainedIsQuiet
  <2>2. CASE ends' = ends
    BY <1>1, <2>2 DEF QuietInv
  <2> QED BY <2>1, <2>2
<1>9. EmittedInv'
  BY <1>1, <1>5 DEF EmittedInv
<1>10. CASE cs = <<>>
  <2>1. queue' = <<>> /\ reply' = "none"
    BY <1>2, <1>10
  <2>2. PlaylistInv' /\ WindowInv'
    BY <1>4, <1>10, <2>1 DEF PlaylistInv, WindowInv
  <2>3. NoPlaylistInv'
    BY <1>1, <1>4, <1>6, <1>10, <2>1 DEF NoPlaylistInv
  <2> QED BY <1>6, <1>7, <1>8, <1>9, <2>2, <2>3 DEF IInv
<1>11. CASE cs # <<>>
  <2>1. Len(cs) \in Nat \ {0} /\ cs[1].seq = b
    BY <1>4, <1>11
  <2>2. First' = b
    BY <1>4, <2>1 DEF First
  <2>3. NoPlaylistInv'
    BY <1>4, <1>5, <1>11 DEF NoPlaylistInv
  <2>4. CASE queue' = cs /\ reply' = "none"
    <3>1. PlaylistInv'
      BY <1>4, <2>2, <2>4 DEF PlaylistInv
    <3>2. Dequeued' = b
      BY <1>4, <2>1, <2>2, <2>4 DEF Dequeued
    <3>3. Downloading' = {}
      BY <2>4 DEF Downloading
    <3>4. WindowInv'
      BY <1>1, <1>4, <1>6, <2>2, <3>2, <3>3, EmptyTyped DEF WindowInv
    <3> QED BY <1>6, <1>7, <1>8, <1>9, <2>3, <3>1, <3>4 DEF IInv
  <2>5. CASE Advance(cs)
    <3>1. cur' = cs[1] /\ queue' = Tail(cs) /\ reply' \in {"key", "chunk"}
      BY <2>1, <2>5 DEF Advance
    <3>2. /\ Len(Tail(cs)) = Len(cs) - 1
          /\ \A i \in 1 .. Len(Tail(cs)) : Tail(cs)[i] = cs[i + 1]
      BY <1>4, <1>11
    <3>3. PlaylistInv'
      <4>1. \A i \in 1 .. Len(Tail(cs)) :
              Tail(cs)[i] = cs[Len(cs) - Len(Tail(cs)) + i]
        BY <2>1, <3>2
      <4>2. Len(Tail(cs)) <= Len(cs)
        BY <2>1, <3>2
      <4> QED BY <1>4, <2>2, <3>1, <4>1, <4>2 DEF PlaylistInv
    <3>4. Dequeued' = b + 1
      <4>1. b + Len(cs) - Len(Tail(cs)) = b + 1
        BY <2>1, <3>2
      <4> QED BY <1>4, <2>2, <3>1, <4>1 DEF Dequeued
    <3>5. Downloading' = {b}
      BY <2>1, <3>1 DEF Downloading
    <3>6. b .. ((b + 1) - 1) = {b} /\ b \in b .. b + 1
      OBVIOUS
    <3>7. WindowInv'
      BY <1>1, <1>4, <1>6, <2>2, <3>4, <3>5, <3>6, EmptyTyped DEF WindowInv
    <3> QED BY <1>6, <1>7, <1>8, <1>9, <2>3, <3>3, <3>7 DEF IInv
  <2> QED BY <1>2, <2>4, <2>5
<1> QED BY <1>10, <1>11

LEMMA ManifestStep ==
  ASSUME IInv, TypeOK', NEW man \in Manifests, ManifestReceived(man)
  PROVE  IInv'
<1>1. reply = "manifest" /\ UNCHANGED <<jobs, posted>>
  BY DEF ManifestReceived
<1>2. CASE HlsType(Chunks(man)) = "hls" /\ SeekHls(Chunks(man))
  BY <1>1, <1>2, StopStep DEF SeekHls
<1>3. CASE Stop /\ chunks' = <<>> /\ queue' = <<>> /\ reply' = "none" /\ ends' = 0
  BY <1>1, <1>3, StopStep
<1>4. CASE /\ chunks' = Chunks(man)
           /\ nextEmit' = man.base /\ ready' = Empty /\ inFlight' = 0
           /\ IF paused \/ pending >= 0 \/ Chunks(man) = <<>>
                THEN /\ queue' = Chunks(man) /\ reply' = "none"
                     /\ UNCHANGED <<cur, keyUrl>>
                ELSE Advance(Chunks(man))
           /\ IF paused \/ pending >= 0 THEN ends' = ends ELSE AnnounceEnd
           /\ UNCHANGED <<gen, key, paused, emitted, lost, errored>>
  <2>1. \/ queue' = Chunks(man) /\ reply' = "none"
        \/ Chunks(man) # <<>> /\ Advance(Chunks(man))
    BY <1>4
  <2>2. ends' = (IF Drained THEN ends + 1 ELSE ends) \/ ends' = ends
    BY <1>4 DEF AnnounceEnd
  <2> QED BY <1>1, <1>4, <2>1, <2>2, FreshPlaylist
<1> QED BY <1>2, <1>3, <1>4 DEF ManifestReceived

(* Steps that neither stop the stream nor deliver a chunk.                  *)
LEMMA AnswerStep ==
  ASSUME IInv, TypeOK',
         \/ ManifestFailed \/ KeyReceived \/ KeyFailed
         \/ DirectFinished \/ DirectFailed
  PROVE  IInv'
<1>1. /\ UNCHANGED <<gen, chunks, queue, cur, at, nextEmit, ready, inFlight, jobs, posted>>
  BY DEF ManifestFailed, KeyReceived, KeyFailed, DirectFinished, DirectFailed,
         streamVars, orderVars
<1>2. PlaylistInv' /\ First' = First /\ Dequeued' = Dequeued
  BY <1>1 DEF PlaylistInv, IInv, First, Dequeued
<1>3. /\ OwnJobs' = OwnJobs /\ OwnPosted' = OwnPosted
      /\ Decrypting' = Decrypting /\ Decrypted' = Decrypted /\ WorkInv'
  BY <1>1, OwnKept DEF IInv
<1>4. InFlightIsExact'
  BY <1>1, <1>3 DEF InFlightIsExact, IInv
<1>5. ends \in Nat /\ at \in 0 .. FileSize /\ FileSize \in Nat
  BY NetworkStreamerAssumption DEF IInv, TypeOK
<1>6. CASE ManifestFailed
  BY <1>1, <1>2, <1>3, <1>4, <1>6
  DEF ManifestFailed, IInv, NoPlaylistInv, WindowInv, EmittedInv, QuietInv
<1>7. CASE KeyReceived
  <2>1. Downloading' = Downloading /\ UNCHANGED <<emitted, lost, ends>>
    BY <1>1, <1>7 DEF KeyReceived, Downloading, history
  <2> QED BY <1>1, <1>2, <1>3, <1>4, <1>7, <2>1
      DEF KeyReceived, IInv, NoPlaylistInv, WindowInv, EmittedInv, QuietInv
<1>8. CASE KeyFailed
  <2>1. /\ Downloading = {cur.seq} /\ Downloading' = {} /\ chunks # <<>> /\ ends = 0
        /\ lost' = lost \cup {cur.seq} /\ reply' = "none"
        /\ UNCHANGED <<emitted, ends>>
    BY <1>8, Fetching DEF KeyFailed, Downloading
  <2>2. WindowInv'
    BY <1>1, <1>2, <1>3, <2>1 DEF IInv, WindowInv
  <2>3. NoPlaylistInv' /\ EmittedInv' /\ QuietInv'
    BY <1>1, <2>1 DEF IInv, NoPlaylistInv, EmittedInv, QuietInv
  <2> QED BY <1>2, <1>3, <1>4, <2>2, <2>3 DEF IInv
<1>9. CASE DirectFinished \/ DirectFailed
  <2>1. /\ reply = "direct" /\ reply' = "none" /\ ends' = ends + 1 /\ lost' = lost
    BY <1>9 DEF DirectFinished, DirectFailed
  <2>2. chunks = <<>> /\ ends = 0
    BY <1>5, <2>1 DEF IInv, NoPlaylistInv, QuietInv
  <2>3. queue = <<>>
    <3>1. Len(queue) <= 0 /\ queue \in Seq(Chunk)
      BY <2>2 DEF IInv, PlaylistInv, TypeOK
    <3> QED BY <3>1
  <2>4. WindowInv' /\ NoPlaylistInv' /\ EmittedInv' /\ QuietInv'
    BY <1>1, <1>3, <2>1, <2>2, <2>3
    DEF IInv, WindowInv, NoPlaylistInv, EmittedInv, QuietInv
  <2> QED BY <1>2, <1>3, <1>4, <2>4 DEF IInv
<1> QED BY <1>6, <1>7, <1>8, <1>9

LEMMA DirectDataStep ==
  ASSUME IInv, TypeOK', NEW size \in {0, FileSize}, DirectData(size)
  PROVE  IInv'
<1>1. reply = "direct" /\ UNCHANGED <<jobs, posted>>
  BY DEF DirectData
<1>2. CASE SeekDirect(pending)
  BY <1>1, <1>2, StopStep DEF SeekDirect
<1>3. CASE /\ at' = at + 1
           /\ emitted' = emitted \cup {at}
           /\ UNCHANGED <<gen, pending, chunks, queue, cur, key, keyUrl, reply,
                          orderVars, lost, ends, errored>>
  <2>1. UNCHANGED <<nextEmit, ready, inFlight>>
    BY <1>3 DEF orderVars
  <2>2. PlaylistInv' /\ First' = First /\ Dequeued' = Dequeued /\ Downloading' = Downloading
    BY <1>3 DEF PlaylistInv, IInv, First, Dequeued, Downloading
  <2>3. /\ OwnJobs' = OwnJobs /\ OwnPosted' = OwnPosted
        /\ Decrypting' = Decrypting /\ Decrypted' = Decrypted /\ WorkInv'
    BY <1>1, <1>3, OwnKept DEF IInv
  <2>4. chunks = <<>>
    BY <1>1 DEF IInv, NoPlaylistInv
  <2>5. EmittedInv'
    <3>1. \A s \in emitted : s < at /\ s \in Nat
      BY <1>1 DEF IInv, EmittedInv, TypeOK
    <3>2. at \in Nat
      BY NetworkStreamerAssumption DEF IInv, TypeOK
    <3>3. \A s \in emitted \cup {at} : s < at + 1
      BY <3>1, <3>2
    <3> QED BY <1>1, <1>3, <2>4, <3>3 DEF EmittedInv
  <2>6. NoPlaylistInv' /\ WindowInv' /\ InFlightIsExact' /\ QuietInv'
    BY <1>3, <2>1, <2>2, <2>3, <2>4
    DEF IInv, NoPlaylistInv, WindowInv, InFlightIsExact, QuietInv
  <2> QED BY <2>2, <2>3, <2>5, <2>6 DEF IInv
<1> QED BY <1>2, <1>3 DEF DirectData

LEMMA ResumeStep ==
  ASSUME IInv, TypeOK', ResumeDownload
  PROVE  IInv'
<1>1. UNCHANGED <<gen, chunks, at, nextEmit, ready, inFlight, jobs, posted,
                  emitted, lost, ends>>
  BY DEF ResumeDownload, streamVars, history
<1>2. /\ OwnJobs' = OwnJobs /\ OwnPosted' = OwnPosted
      /\ Decrypting' = Decrypting /\ Decrypted' = Decrypted /\ WorkInv'
  BY <1>1, OwnKept DEF IInv
<1>3. InFlightIsExact'
  BY <1>1, <1>2 DEF InFlightIsExact, IInv
<1>4. CASE reply = "none" /\ queue # <<>> /\ Advance(queue)
  <2>1. /\ PlaylistInv' /\ chunks # <<>> /\ Dequeued \in Nat /\ First' = First
        /\ Dequeued' = Dequeued + 1 /\ Downloading' = {Dequeued}
    BY <1>1, <1>4, AdvanceShape DEF IInv
  <2>2. Downloading = {} /\ reply' \in {"key", "chunk"}
    BY <1>4 DEF Downloading, Advance
  <2>3. ends = 0
    BY <1>4 DEF IInv, QuietInv, TypeOK
  <2>4. /\ First \in Nat /\ nextEmit \in First .. Dequeued
        /\ DOMAIN ready \cup Decrypting \cup Decrypted \cup lost = nextEmit .. (Dequeued - 1)
    BY <1>1, <2>1, <2>2, Bounds DEF IInv, WindowInv
  <2>5. PICK d : Dequeued' = d
    OBVIOUS
  <2>6. /\ nextEmit \in First .. d /\ Dequeued \notin nextEmit .. (Dequeued - 1)
        /\ (nextEmit .. (Dequeued - 1)) \cup {Dequeued} = nextEmit .. (d - 1)
    BY <2>1, <2>4, <2>5
  <2>7. WindowInv'
    <3>1. nextEmit' \in First' .. Dequeued'
      BY <1>1, <2>1, <2>5, <2>6
    <3>2. DOMAIN ready' \cup Decrypting' \cup Decrypted' \cup Downloading' \cup lost'
            = nextEmit' .. (Dequeued' - 1)
      BY <1>1, <1>2, <2>1, <2>4, <2>5, <2>6
    <3>3. Dequeued \notin DOMAIN ready \cup Decrypting \cup Decrypted \cup lost
      BY <2>4, <2>6
    <3> QED BY <1>1, <1>2, <2>1, <2>2, <3>1, <3>2, <3>3 DEF IInv, WindowInv
  <2>8. NoPlaylistInv' /\ EmittedInv' /\ QuietInv'
    BY <1>1, <2>1, <2>2, <2>3 DEF IInv, NoPlaylistInv, EmittedInv, QuietInv
  <2> QED BY <1>2, <1>3, <2>1, <2>7, <2>8 DEF IInv
<1>5. CASE UNCHANGED <<queue, cur, keyUrl, reply>>
  <2>1. PlaylistInv' /\ First' = First /\ Dequeued' = Dequeued /\ Downloading' = Downloading
    BY <1>1, <1>5 DEF PlaylistInv, IInv, First, Dequeued, Downloading
  <2>2. NoPlaylistInv' /\ WindowInv' /\ EmittedInv' /\ QuietInv'
    BY <1>1, <1>2, <1>5, <2>1 DEF IInv, NoPlaylistInv, WindowInv, EmittedInv, QuietInv
  <2> QED BY <1>2, <1>3, <2>1, <2>2 DEF IInv
<1> QED BY <1>4, <1>5 DEF ResumeDownload

LEMMA NothingMovesStep ==
  ASSUME IInv, TypeOK',
         UNCHANGED <<gen, chunks, queue, cur, reply, at, nextEmit, ready, inFlight,
                     jobs, posted, emitted, lost, ends>>
  PROVE  IInv'
<1>1. PlaylistInv' /\ First' = First /\ Dequeued' = Dequeued /\ Downloading' = Downloading
  BY DEF PlaylistInv, IInv, First, Dequeued, Downloading
<1>2. /\ OwnJobs' = OwnJobs /\ OwnPosted' = OwnPosted
      /\ Decrypting' = Decrypting /\ Decrypted' = Decrypted /\ WorkInv'
  BY OwnKept DEF IInv
<1>3. NoPlaylistInv' /\ WindowInv' /\ EmittedInv' /\ QuietInv' /\ InFlightIsExact'
  BY <1>1, <1>2 DEF IInv, NoPlaylistInv, WindowInv, EmittedInv, QuietInv, InFlightIsExact
<1> QED BY <1>1, <1>2, <1>3 DEF IInv

LEMMA SeekStep ==
  ASSUME IInv, TypeOK', NEW t \in SeekTargets, SeekTo(t)
  PROVE  IInv'
<1>1. CASE UNCHANGED <<gen, type, total, chunks, fetchVars, orderVars, jobs, posted, history>>
  BY <1>1, NothingMovesStep DEF fetchVars, orderVars, history
<1>2. CASE SeekDirect(t) /\ UNCHANGED <<jobs, posted>>
  BY <1>2, StopStep DEF SeekDirect
<1>3. CASE SeekHls(chunks) /\ UNCHANGED <<jobs, posted>>
  BY <1>3, StopStep DEF SeekHls
<1>4. CASE Halt /\ UNCHANGED <<jobs, posted>>
  BY <1>4, StopStep DEF Halt
<1> QED BY <1>1, <1>2, <1>3, <1>4 DEF SeekTo

LEMMA IInvStep == ASSUME IInv, [Next]_vars PROVE IInv'
<1> TypeOK'
  BY TypeOKStep DEF IInv
<1>1. ASSUME NEW what \in {"manifest", "direct"}, StartDownload(what) PROVE IInv'
  BY <1>1, StopStep DEF StartDownload
<1>14. CASE StopDownload
  BY <1>14, StopStep DEF StopDownload, Halt
<1>2. ASSUME NEW t \in SeekTargets, SeekTo(t) PROVE IInv'
  BY <1>2, SeekStep
<1>3. ASSUME NEW man \in Manifests, ManifestReceived(man) PROVE IInv'
  BY <1>3, ManifestStep
<1>4. CASE ManifestFailed \/ KeyReceived \/ KeyFailed \/ DirectFinished \/ DirectFailed
  BY <1>4, AnswerStep
<1>5. ASSUME NEW size \in {0, FileSize}, DirectData(size) PROVE IInv'
  BY <1>5, DirectDataStep
<1>6. ASSUME NEW full \in BOOLEAN, ChunkFinishedPlain(full) PROVE IInv'
  BY <1>6, PlainStep
<1>7. CASE ChunkFinishedEncrypted
  BY <1>7, EncryptedStep
<1>8. CASE ChunkFailed
  BY <1>8, FailedStep
<1>9. ASSUME NEW j \in jobs, NEW full \in BOOLEAN, FinishJob(j, full) PROVE IInv'
  BY <1>9, FinishJobStep
<1>10. ASSUME NEW d \in posted, DeliverPosted(d) PROVE IInv'
  BY <1>10, PostedStep
<1>11. CASE PauseDownload
  BY <1>11, NothingMovesStep DEF PauseDownload, streamVars, fetchVars, history
<1>12. CASE ResumeDownload
  BY <1>12, ResumeStep
<1>13. CASE UNCHANGED vars
  BY <1>13, NothingMovesStep DEF vars, streamVars, fetchVars, orderVars, history
<1> QED
  BY <1>1, <1>2, <1>3, <1>4, <1>5, <1>6, <1>7, <1>8, <1>9, <1>10, <1>11, <1>12, <1>13,
     <1>14
  DEF Next, Requests, Answers, Pool, Posts

LEMMA IInvInit == ASSUME Init PROVE IInv
<1>1. /\ chunks = <<>> /\ queue = <<>> /\ reply = "none" /\ emitted = {} /\ lost = {}
      /\ jobs = {} /\ posted = {} /\ ends = 0 /\ ready = Empty /\ inFlight = 0
  BY DEF Init
<1>2. OwnJobs = {} /\ OwnPosted = {}
  BY <1>1 DEF OwnJobs, OwnPosted
<1>3. WorkInv
  BY <1>1, <1>2, FS_EmptySet DEF WorkInv
<1>4. InFlightIsExact
  BY <1>1, <1>2, FS_EmptySet DEF InFlightIsExact
<1>5. PlaylistInv /\ NoPlaylistInv /\ WindowInv /\ EmittedInv /\ QuietInv
  BY <1>1, <1>2 DEF PlaylistInv, NoPlaylistInv, WindowInv, EmittedInv, QuietInv
<1> QED BY <1>3, <1>4, <1>5, TypeOKInit DEF IInv

(* The inductive invariant holds in every reachable state, whatever the     *)
(* playlists, the order of decryptions and the seeks.                       *)
THEOREM Invariance == Spec => []IInv
<1>1. Init => IInv
  BY IInvInit
<1>2. IInv /\ [Next]_vars => IInv'
  BY IInvStep
<1> QED BY <1>1, <1>2, PTL DEF Spec

(* m_chunksInFlight counts the decryptions of this stream that are not yet  *)
(* delivered, exactly, although those of stopped streams come in as well.   *)
THEOREM InFlightExact == Spec => []InFlightIsExact
<1>1. IInv => InFlightIsExact
  BY DEF IInv
<1> QED BY <1>1, Invariance, PTL

-----------------------------------------------------------------------------
(* What the invariant says of the chunks of a playlist.                     *)

LEMMA Consecutive ==
  ASSUME NEW s \in Seq(Chunk), NEW b \in Nat,
         \A i \in 1 .. Len(s) : s[i].seq = b + i - 1
  PROVE  OfSequence(s) = b .. (b + Len(s) - 1)
<1>1. Len(s) \in Nat
  OBVIOUS
<1>2. ASSUME NEW x \in OfSequence(s) PROVE x \in b .. (b + Len(s) - 1)
  <2>1. PICK i \in 1 .. Len(s) : x = s[i].seq
    BY <1>2 DEF OfSequence
  <2> QED BY <1>1, <2>1
<1>3. ASSUME NEW x \in b .. (b + Len(s) - 1) PROVE x \in OfSequence(s)
  <2>1. PICK i \in 1 .. Len(s) : b + i - 1 = x
    <3>1. x - b + 1 \in 1 .. Len(s) /\ b + (x - b + 1) - 1 = x
      BY <1>1
    <3> QED BY <3>1
  <2>2. s[i].seq = x
    BY <2>1
  <2> QED BY <2>2 DEF OfSequence
<1> QED BY <1>2, <1>3

LEMMA Numbered ==
  ASSUME TypeOK, PlaylistInv, chunks # <<>>
  PROVE  /\ First \in Nat /\ Dequeued \in Nat /\ Len(chunks) \in Nat \ {0}
         /\ Dequeued <= First + Len(chunks)
         /\ OfSequence(chunks) = First .. (First + Len(chunks) - 1)
         /\ OfSequence(queue) = Dequeued .. (First + Len(chunks) - 1)
<1>1. Len(chunks) \in Nat \ {0} /\ Len(queue) \in Nat
  BY DEF TypeOK
<1>2. First \in Nat /\ Dequeued \in Nat
  BY Bounds
<1>3. Dequeued = First + Len(chunks) - Len(queue) /\ Len(queue) <= Len(chunks)
  BY DEF Dequeued, PlaylistInv
<1>4. OfSequence(chunks) = First .. (First + Len(chunks) - 1)
  BY <1>2, Consecutive DEF TypeOK, PlaylistInv
<1>5. OfSequence(queue) = Dequeued .. (First + Len(chunks) - 1)
  <2>1. \A i \in 1 .. Len(queue) : queue[i].seq = Dequeued + i - 1
    <3> SUFFICES ASSUME NEW i \in 1 .. Len(queue) PROVE queue[i].seq = Dequeued + i - 1
      OBVIOUS
    <3>1. PICK k \in 1 .. Len(chunks) : k = Len(chunks) - Len(queue) + i
      <4>1. Len(chunks) - Len(queue) + i \in 1 .. Len(chunks)
        BY <1>1, <1>3
      <4> QED BY <4>1
    <3>2. queue[i] = chunks[k] /\ chunks[k].seq = First + k - 1
      BY <3>1 DEF PlaylistInv
    <3> QED BY <1>1, <1>2, <1>3, <3>1, <3>2
  <2>2. OfSequence(queue) = Dequeued .. (Dequeued + Len(queue) - 1)
    BY <1>2, <2>1, Consecutive DEF TypeOK
  <2> QED BY <1>1, <1>2, <1>3, <2>2
<1> QED BY <1>1, <1>2, <1>3, <1>4, <1>5

LEMMA WholeWindow ==
  ASSUME IInv, chunks # <<>>
  PROVE  /\ nextEmit \in First .. Dequeued
         /\ Passed = First .. (nextEmit - 1)
<1>1. nextEmit \in First .. Dequeued
  BY DEF IInv, WindowInv
<1>2. /\ First \in Nat /\ Dequeued \in Nat /\ Len(chunks) \in Nat
      /\ Dequeued <= First + Len(chunks)
      /\ OfSequence(chunks) = First .. (First + Len(chunks) - 1)
  BY Numbered DEF IInv
<1>3. \A s : /\ s \in First .. (First + Len(chunks) - 1) /\ s < nextEmit
             <=> s \in First .. (nextEmit - 1)
  BY <1>1, <1>2
<1> QED BY <1>1, <1>2, <1>3 DEF Passed

(* No chunk is ever lost on the way from the playlist to the engine, or     *)
(* held in two places at once.                                              *)
THEOREM NothingLost == Spec => []NoChunkLostOrDoubled
<1>1. ASSUME IInv PROVE NoChunkLostOrDoubled
  <2> SUFFICES ASSUME chunks # <<>> PROVE NoChunkLostOrDoubled
    BY DEF NoChunkLostOrDoubled
  <2> DEFINE ps == Passed
             qs == OfSequence(queue)
             wi == DOMAIN ready \cup Decrypting \cup Decrypted \cup Downloading \cup lost
  <2>1. /\ First \in Nat /\ Dequeued \in Nat /\ Len(chunks) \in Nat
        /\ Dequeued <= First + Len(chunks)
        /\ OfSequence(chunks) = First .. (First + Len(chunks) - 1)
        /\ OfSequence(queue) = Dequeued .. (First + Len(chunks) - 1)
    BY <1>1, Numbered DEF IInv
  <2>2. nextEmit \in First .. Dequeued /\ Passed = First .. (nextEmit - 1)
    BY <1>1, WholeWindow
  <2>3. wi = nextEmit .. (Dequeued - 1)
    BY <1>1 DEF IInv, WindowInv
  <2>4. OfSequence(chunks) = ps \cup wi \cup qs
    BY <2>1, <2>2, <2>3
  <2>5. ps \cap wi = {} /\ ps \cap qs = {} /\ wi \cap qs = {}
    BY <2>1, <2>2, <2>3
  <2>6. DOMAIN Places = 1 .. 7
    BY DEF Places
  <2>7. /\ Places[1] = ps /\ Places[2] = DOMAIN ready /\ Places[3] = Decrypting
        /\ Places[4] = Decrypted /\ Places[5] = Downloading
        /\ Places[6] = qs /\ Places[7] = lost
    BY DEF Places
  <2>8. OfSequence(chunks) = UNION {Places[p] : p \in DOMAIN Places}
    <3>1. \A x \in OfSequence(chunks) : \E p \in 1 .. 7 : x \in Places[p]
      BY <2>4, <2>7
    <3>2. \A p \in 1 .. 7 : Places[p] \subseteq OfSequence(chunks)
      <4> SUFFICES ASSUME NEW p \in 1 .. 7 PROVE Places[p] \subseteq OfSequence(chunks)
        OBVIOUS
      <4>1. p \in {1, 2, 3, 4, 5, 6, 7}
        OBVIOUS
      <4> QED BY <2>4, <2>7, <4>1
    <3> QED BY <2>6, <3>1, <3>2
  <2>9. ASSUME NEW p \in 1 .. 7, NEW q \in 1 .. 7, p < q PROVE Places[p] \cap Places[q] = {}
    <3>1. /\ DOMAIN ready \cap (Decrypting \cup Decrypted \cup Downloading \cup lost) = {}
          /\ Decrypting \cap (Decrypted \cup Downloading \cup lost) = {}
          /\ Decrypted \cap (Downloading \cup lost) = {}
          /\ Downloading \cap lost = {}
      BY <1>1 DEF IInv, WindowInv
    <3> HIDE DEF ps, qs
    <3>2. p \in {1, 2, 3, 4, 5, 6} /\ q \in {2, 3, 4, 5, 6, 7}
      BY <2>9
    <3>3. CASE p = 1
      BY <2>5, <2>7, <3>2, <3>3
    <3>4. CASE p = 6
      BY <2>5, <2>7, <2>9, <3>2, <3>4
    <3>5. CASE q = 6
      BY <2>5, <2>7, <2>9, <3>2, <3>5
    <3>6. CASE p \notin {1, 6} /\ q # 6
      BY <2>7, <2>9, <3>1, <3>2, <3>6
    <3> QED BY <3>2, <3>3, <3>4, <3>5, <3>6
  <2>10. \A p, q \in DOMAIN Places : p # q => Places[p] \cap Places[q] = {}
    <3> SUFFICES ASSUME NEW p \in 1 .. 7, NEW q \in 1 .. 7, p # q
                 PROVE  Places[p] \cap Places[q] = {}
      BY <2>6
    <3>1. p < q \/ q < p
      OBVIOUS
    <3> QED BY <2>9, <3>1
  <2> QED BY <2>8, <2>10 DEF NoChunkLostOrDoubled
<1> QED BY <1>1, Invariance, PTL

(* The end of a stream is announced only when all of it was delivered or    *)
(* given up, and nothing of it is under way.                                *)
THEOREM EndAtTheEnd == Spec => []EndIsTheEnd
<1>1. ASSUME IInv PROVE EndIsTheEnd
  <2> SUFFICES ASSUME ends > 0 PROVE EndIsTheEnd
    BY DEF EndIsTheEnd
  <2>1. /\ reply = "none" /\ queue = <<>> /\ ready = Empty
        /\ OwnJobs = {} /\ OwnPosted = {}
    BY <1>1 DEF IInv, QuietInv
  <2>2. OfSequence(chunks) \subseteq Passed \cup lost
    <3>1. CASE chunks = <<>>
      BY <3>1 DEF OfSequence
    <3>2. CASE chunks # <<>>
      <4>1. lost = nextEmit .. (Dequeued - 1)
        BY <1>1, <2>1, <3>2, EmptyTyped
        DEF IInv, WindowInv, Decrypting, Decrypted, Downloading
      <4>2. /\ First \in Nat /\ Dequeued = First + Len(chunks) /\ Len(chunks) \in Nat
            /\ OfSequence(chunks) = First .. (First + Len(chunks) - 1)
        BY <1>1, <2>1, <3>2, Numbered DEF IInv, Dequeued
      <4>3. nextEmit \in First .. Dequeued /\ Passed = First .. (nextEmit - 1)
        BY <1>1, <3>2, WholeWindow
      <4> QED BY <4>1, <4>2, <4>3
    <3> QED BY <3>1, <3>2
  <2> QED BY <2>1, <2>2 DEF EndIsTheEnd
<1> QED BY <1>1, Invariance, PTL

-----------------------------------------------------------------------------
(* Keys.                                                                    *)

\* The chunk that is fetched is one of the playlist's; as long as no request has
\* failed, the key that is loaded is the one of m_loadedKeyUrl, and that of the
\* chunk whose bytes are under way.
KeyInv ==
  /\ reply \in {"key", "chunk"} => \E i \in 1 .. Len(chunks) : chunks[i] = cur
  /\ reply = "key" => keyUrl = cur.key
  /\ lost = {} /\ reply # "key" => key = keyUrl
  /\ lost = {} /\ reply = "chunk" => cur.key \in {NoKey, key}
  /\ DecryptedWithOwnKey

(* Dequeuing asks for the key unless it is the one that is loaded.          *)
LEMMA AdvanceKey ==
  ASSUME NEW q \in Seq(Chunk), q # <<>>, Advance(q), key' = key, lost' = lost,
         lost = {} => key = keyUrl,
         \E i \in 1 .. Len(chunks') : chunks'[i] = Head(q),
         DecryptedWithOwnKey'
  PROVE  KeyInv'
<1>1. cur' = Head(q) /\ reply' \in {"key", "chunk"}
  BY DEF Advance
<1>2. CASE NeedsKey(Head(q))
  BY <1>1, <1>2 DEF Advance, KeyInv
<1>3. CASE ~NeedsKey(Head(q))
  BY <1>1, <1>3 DEF Advance, NeedsKey, KeyInv
<1> QED BY <1>2, <1>3

LEMMA HeadIsChunk ==
  ASSUME IInv, queue # <<>>
  PROVE  queue \in Seq(Chunk) /\ \E i \in 1 .. Len(chunks) : chunks[i] = Head(queue)
<1>1. /\ queue \in Seq(Chunk) /\ Len(queue) \in Nat \ {0} /\ Len(chunks) \in Nat
      /\ Len(queue) <= Len(chunks)
      /\ \A i \in 1 .. Len(queue) : queue[i] = chunks[Len(chunks) - Len(queue) + i]
  BY DEF IInv, TypeOK, PlaylistInv
<1>2. /\ Len(chunks) - Len(queue) + 1 \in 1 .. Len(chunks) /\ 1 \in 1 .. Len(queue)
      /\ Head(queue) = queue[1]
  BY <1>1
<1> QED BY <1>1, <1>2

(* Decryptions that were started go on with the keys they have.             *)
LEMMA KeysKept ==
  ASSUME DecryptedWithOwnKey, UNCHANGED <<gen, chunks>>, jobs' \subseteq jobs, lost \subseteq lost'
  PROVE  DecryptedWithOwnKey'
BY DEF DecryptedWithOwnKey, OwnJobs

(* At the end of a request the next chunk is dequeued, if there is one.     *)
LEMMA PipelineKey ==
  ASSUME IInv, KeyInv, reply = "chunk", Pipeline, key' = key, lost' = lost, UNCHANGED chunks,
         DecryptedWithOwnKey'
  PROVE  KeyInv'
<1>1. CASE ~paused /\ queue # <<>>
  <2>1. Advance(queue) /\ (lost = {} => key = keyUrl)
    BY <1>1 DEF Pipeline, KeyInv
  <2>2. \E i \in 1 .. Len(chunks') : chunks'[i] = Head(queue)
    BY <1>1, HeadIsChunk
  <2> QED BY <1>1, <2>1, <2>2, AdvanceKey, HeadIsChunk
<1>2. CASE ~(~paused /\ queue # <<>>)
  BY <1>2 DEF Pipeline, KeyInv
<1> QED BY <1>1, <1>2

LEMMA StopKeys ==
  ASSUME Stop, chunks' = <<>>, reply' \notin {"key", "chunk"}
  PROVE  KeyInv'
BY DEF Stop, KeyInv, DecryptedWithOwnKey

LEMMA KeyStep == ASSUME IInv, KeyInv, [Next]_vars PROVE KeyInv'
<1>1. ASSUME NEW what \in {"manifest", "direct"}, StartDownload(what) PROVE KeyInv'
  BY <1>1, StopKeys DEF StartDownload
<1>14. CASE StopDownload
  BY <1>14, StopKeys DEF StopDownload, Halt
<1>2. ASSUME NEW t \in SeekTargets, SeekTo(t) PROVE KeyInv'
  <2>1. CASE UNCHANGED <<gen, type, total, chunks, fetchVars, orderVars, jobs, posted, history>>
    BY <2>1, KeysKept DEF fetchVars, orderVars, history, KeyInv
  <2>2. CASE SeekDirect(t) \/ SeekHls(chunks) \/ Halt
    BY <2>2, StopKeys DEF SeekDirect, SeekHls, Halt
  <2> QED BY <1>2, <2>1, <2>2 DEF SeekTo
<1>3. ASSUME NEW man \in Manifests, ManifestReceived(man) PROVE KeyInv'
  <2> DEFINE cs == Chunks(man)
  <2>1. CASE SeekHls(cs) \/ (Stop /\ chunks' = <<>> /\ reply' = "none")
    BY <2>1, StopKeys DEF SeekHls
  <2>2. CASE /\ chunks' = cs
             /\ IF paused \/ pending >= 0 \/ cs = <<>>
                  THEN /\ queue' = cs /\ reply' = "none"
                       /\ UNCHANGED <<cur, keyUrl>>
                  ELSE Advance(cs)
             /\ UNCHANGED <<gen, key, paused, emitted, lost, errored>>
    <3>1. OwnJobs = {} /\ jobs' = jobs /\ reply = "manifest" /\ (lost = {} => key = keyUrl)
      BY <1>3 DEF ManifestReceived, IInv, NoPlaylistInv, KeyInv
    <3>2. DecryptedWithOwnKey'
      BY <2>2, <3>1 DEF DecryptedWithOwnKey, OwnJobs
    <3>3. CASE paused \/ pending >= 0 \/ cs = <<>>
      BY <2>2, <3>1, <3>2, <3>3 DEF KeyInv
    <3>4. CASE ~(paused \/ pending >= 0 \/ cs = <<>>)
      <4>1. cs \in Seq(Chunk) /\ cs # <<>> /\ Advance(cs)
        BY <2>2, <3>4, ManifestChunks
      <4> HIDE DEF cs
      <4>2. 1 \in 1 .. Len(cs) /\ cs[1] = Head(cs)
        BY <4>1
      <4>3. \E i \in 1 .. Len(chunks') : chunks'[i] = Head(cs)
        BY <2>2, <4>2
      <4> QED BY <2>2, <3>1, <3>2, <4>1, <4>3, AdvanceKey
    <3> QED BY <3>3, <3>4
  <2> QED BY <1>3, <2>1, <2>2 DEF ManifestReceived
<1>4. CASE ManifestFailed \/ KeyReceived \/ DirectFinished \/ DirectFailed
  <2>1. DecryptedWithOwnKey'
    BY <1>4, KeysKept DEF ManifestFailed, KeyReceived, DirectFinished, DirectFailed, KeyInv,
       streamVars, history
  <2> QED BY <1>4, <2>1 DEF ManifestFailed, KeyReceived, DirectFinished, DirectFailed, KeyInv,
             streamVars, history
<1>5. CASE KeyFailed
  BY <1>5 DEF KeyFailed, KeyInv, DecryptedWithOwnKey
<1>6. ASSUME NEW size \in {0, FileSize}, DirectData(size) PROVE KeyInv'
  <2>1. CASE SeekDirect(pending)
    BY <2>1, StopKeys DEF SeekDirect
  <2>2. CASE UNCHANGED <<gen, pending, chunks, queue, cur, key, keyUrl, reply,
                         orderVars, lost, ends, errored>>
    <3>1. DecryptedWithOwnKey'
      BY <1>6, <2>2, KeysKept DEF DirectData, KeyInv
    <3> QED BY <2>2, <3>1 DEF KeyInv
  <2> QED BY <1>6, <2>1, <2>2 DEF DirectData
<1>7. ASSUME NEW full \in BOOLEAN, ChunkFinishedPlain(full) PROVE KeyInv'
  <2>1. DecryptedWithOwnKey'
    BY <1>7, KeysKept DEF ChunkFinishedPlain, KeyInv, streamVars
  <2> QED BY <1>7, <2>1, PipelineKey DEF ChunkFinishedPlain, streamVars
<1>8. CASE ChunkFinishedEncrypted
  <2>1. PICK i \in 1 .. Len(chunks) : chunks[i] = cur
    BY <1>8 DEF ChunkFinishedEncrypted, KeyInv
  <2>2. DecryptedWithOwnKey'
    <3> SUFFICES ASSUME lost' = {}, NEW j \in OwnJobs', NEW k \in 1 .. Len(chunks'),
                        chunks'[k].seq = j.seq
                 PROVE  chunks'[k].key = j.key
      BY DEF DecryptedWithOwnKey
    <3>1. chunks' = chunks /\ lost = {} /\ gen' = gen /\ cur.key # NoKey
      BY <1>8 DEF ChunkFinishedEncrypted, streamVars, history
    <3>2. CASE j \in jobs
      BY <3>1, <3>2 DEF KeyInv, DecryptedWithOwnKey, OwnJobs
    <3>3. CASE j \notin jobs
      <4>1. j.seq = cur.seq /\ j.key = key
        BY <1>8, <3>3 DEF ChunkFinishedEncrypted, OwnJobs
      <4>2. cur.key = key
        BY <1>8, <3>1 DEF ChunkFinishedEncrypted, KeyInv
      <4>3. chunks # <<>> /\ First \in Nat /\ Len(chunks) \in Nat
        <5>1. chunks # <<>>
          BY <2>1
        <5> QED BY <5>1, Numbered DEF IInv
      <4>4. chunks[i].seq = First + i - 1 /\ chunks[k].seq = First + k - 1
        BY <3>1 DEF IInv, PlaylistInv
      <4>5. i = k
        BY <2>1, <3>1, <4>1, <4>3, <4>4
      <4> QED BY <2>1, <3>1, <4>1, <4>2, <4>5
    <3> QED BY <3>2, <3>3
  <2> QED BY <1>8, <2>2, PipelineKey DEF ChunkFinishedEncrypted, streamVars, history
<1>9. CASE ChunkFailed
  <2>1. lost' # {} /\ chunks' = chunks /\ Pipeline
    BY <1>9 DEF ChunkFailed, streamVars
  <2>2. CASE ~paused /\ queue # <<>>
    <3>1. Advance(queue)
      BY <2>1, <2>2 DEF Pipeline
    <3> QED BY <2>1, <2>2, <3>1, HeadIsChunk DEF Advance, KeyInv, DecryptedWithOwnKey
  <2>3. CASE ~(~paused /\ queue # <<>>)
    BY <2>1, <2>3 DEF Pipeline, KeyInv, DecryptedWithOwnKey
  <2> QED BY <2>2, <2>3
<1>10. ASSUME NEW j \in jobs, NEW full \in BOOLEAN, FinishJob(j, full) PROVE KeyInv'
  <2>1. DecryptedWithOwnKey'
    BY <1>10, KeysKept DEF FinishJob, KeyInv, streamVars, history
  <2> QED BY <1>10, <2>1 DEF FinishJob, KeyInv, streamVars, fetchVars, history
<1>11. ASSUME NEW d \in posted, DeliverPosted(d) PROVE KeyInv'
  <2>1. UNCHANGED <<gen, chunks, cur, key, keyUrl, reply, jobs, lost>>
    BY <1>11 DEF DeliverPosted, streamVars
  <2>2. DecryptedWithOwnKey'
    BY <2>1, KeysKept DEF KeyInv
  <2> QED BY <2>1, <2>2 DEF KeyInv
<1>12. CASE PauseDownload \/ UNCHANGED vars
  <2>1. UNCHANGED <<gen, chunks, cur, key, keyUrl, reply, jobs, lost>>
    BY <1>12 DEF PauseDownload, vars, streamVars, fetchVars, history
  <2>2. DecryptedWithOwnKey'
    BY <2>1, KeysKept DEF KeyInv
  <2> QED BY <2>1, <2>2 DEF KeyInv
<1>13. CASE ResumeDownload
  <2>1. UNCHANGED <<gen, chunks, key, jobs, lost>>
    BY <1>13 DEF ResumeDownload, streamVars, history
  <2>2. DecryptedWithOwnKey'
    BY <2>1, KeysKept DEF KeyInv
  <2>3. CASE reply = "none" /\ queue # <<>> /\ Advance(queue)
    <3>1. (lost = {} => key = keyUrl) /\ \E i \in 1 .. Len(chunks') : chunks'[i] = Head(queue)
      BY <2>1, <2>3, HeadIsChunk DEF KeyInv
    <3> QED BY <2>1, <2>2, <2>3, <3>1, AdvanceKey, HeadIsChunk
  <2>4. CASE UNCHANGED <<queue, cur, keyUrl, reply>>
    BY <2>1, <2>2, <2>4 DEF KeyInv
  <2> QED BY <1>13, <2>3, <2>4 DEF ResumeDownload
<1> QED
  BY <1>1, <1>2, <1>3, <1>4, <1>5, <1>6, <1>7, <1>8, <1>9, <1>10, <1>11, <1>12, <1>13,
     <1>14
  DEF Next, Requests, Answers, Pool, Posts

(* As long as no request of a stream fails, no chunk is decrypted with       *)
(* another key than its own, although keys and chunks are requested while    *)
(* earlier chunks are still being decrypted.                                *)
THEOREM OwnKeys == Spec => []DecryptedWithOwnKey
<1>1. Init => KeyInv
  BY DEF Init, KeyInv, DecryptedWithOwnKey, OwnJobs
<1>2. IInv /\ KeyInv /\ [Next]_vars => KeyInv'
  BY KeyStep
<1>3. KeyInv => DecryptedWithOwnKey
  BY DEF KeyInv
<1> QED BY <1>1, <1>2, <1>3, Invariance, PTL DEF Spec

-----------------------------------------------------------------------------
(* Every step of the streamer is a step of an ordered stream, or none.      *)

OrderedStep == [Ordered!Next]_(Ordered!vars)

\* Without a new generation: more of the stream, or its end, or nothing.
LEMMA GoingOn ==
  ASSUME gen' = gen, ends = 0, ends' \in {0, 1}, emitted' \in SUBSET Nat,
         emitted \subseteq emitted',
         \A s \in emitted' \ emitted, t \in emitted : t < s
  PROVE  OrderedStep
<1>1. CASE emitted' # emitted
  BY <1>1 DEF OrderedStep, Ordered!Next, Ordered!Emit
<1>2. CASE emitted' = emitted
  BY <1>2 DEF OrderedStep, Ordered!Next, Ordered!Finish, Ordered!vars
<1> QED BY <1>1, <1>2

LEMMA Unheard == ASSUME UNCHANGED <<gen, emitted, ends>> PROVE OrderedStep
  BY DEF OrderedStep, Ordered!vars

LEMMA StopRestarts == ASSUME Stop, ends' \in {0, 1} PROVE OrderedStep
  BY DEF Stop, OrderedStep, Ordered!Next, Ordered!Restart

\* A delivery adds what is not before the next chunk to emit.
LEMMA DeliveryGoesOn ==
  ASSUME IInv, TypeOK', chunks # <<>>, ends = 0, gen' = gen,
         NEW seq, NEW full, NEW flights, Deliver(seq, full, flights)
  PROVE  OrderedStep
<1>1. \E m \in nextEmit .. (nextEmit
                 + Cardinality(DOMAIN [s \in DOMAIN ready \cup {seq} |->
                                          IF s = seq THEN full ELSE ready[s]])) :
        /\ emitted \subseteq emitted'
        /\ emitted' \ emitted \subseteq nextEmit .. (m - 1)
        /\ AnnounceEnd
  BY DEF Deliver
<1>2. ends' \in {0, 1}
  BY <1>1 DEF AnnounceEnd
<1>3. nextEmit \in Nat /\ emitted \subseteq Nat /\ emitted' \subseteq Nat
      /\ \A t \in emitted : t < nextEmit
  BY DEF IInv, TypeOK, EmittedInv
<1>4. \A s \in emitted' \ emitted : s >= nextEmit
  BY <1>1, <1>3
<1>5. \A s \in emitted' \ emitted, t \in emitted : t < s
  <2> SUFFICES ASSUME NEW s \in emitted' \ emitted, NEW t \in emitted PROVE t < s
    OBVIOUS
  <2>1. s \in Nat /\ t \in Nat /\ t < nextEmit /\ s >= nextEmit
    BY <1>3, <1>4
  <2> QED BY <1>3, <2>1
<1> QED BY <1>1, <1>2, <1>3, <1>5, GoingOn

LEMMA ManifestRefines ==
  ASSUME IInv, NEW man \in Manifests, ManifestReceived(man)
  PROVE  OrderedStep
<1>1. CASE Stop /\ ends' \in {0, 1}
  BY <1>1, StopRestarts
<1>2. CASE gen' = gen /\ emitted' = emitted /\ (ends' = ends \/ AnnounceEnd)
  <2>1. ends = 0
    BY DEF IInv, QuietInv, TypeOK, ManifestReceived
  <2>2. ends' \in {0, 1}
    BY <1>2, <2>1 DEF AnnounceEnd
  <2> QED BY <1>2, <2>1, <2>2, GoingOn DEF IInv, TypeOK
<1> QED BY <1>1, <1>2 DEF ManifestReceived, SeekHls

LEMMA DirectRefines ==
  ASSUME IInv, TypeOK',
         \/ \E size \in {0, FileSize} : DirectData(size)
         \/ DirectFinished \/ DirectFailed
  PROVE  OrderedStep
<1>1. /\ reply = "direct" /\ ends = 0 /\ at \in Nat
      /\ emitted \subseteq Nat /\ emitted' \subseteq Nat
      /\ \A s \in emitted : s < at
  <2>1. reply = "direct"
    BY DEF DirectData, DirectFinished, DirectFailed
  <2>2. /\ ends = 0 /\ emitted \subseteq Nat /\ emitted' \subseteq Nat
    BY <2>1 DEF IInv, TypeOK, QuietInv
  <2>3. at \in Nat
    BY NetworkStreamerAssumption DEF IInv, TypeOK
  <2>4. \A s \in emitted : s < at
    BY <2>1 DEF IInv, EmittedInv
  <2> QED BY <2>1, <2>2, <2>3, <2>4
<1>2. CASE \E size \in {0, FileSize} : DirectData(size)
  <2>1. CASE SeekDirect(pending)
    BY <2>1, StopRestarts DEF SeekDirect
  <2>2. CASE gen' = gen /\ ends' = ends /\ emitted' = emitted \cup {at}
    BY <1>1, <2>2, GoingOn
  <2> QED BY <1>2, <2>1, <2>2 DEF DirectData
<1>3. CASE DirectFinished
  <2>1. gen' = gen /\ ends' = 1 /\ emitted' = emitted \cup at .. (FileSize - 1)
    BY <1>1, <1>3 DEF DirectFinished, streamVars
  <2>2. FileSize - 1 \in Int
    BY NetworkStreamerAssumption
  <2>3. \A s \in emitted' \ emitted, t \in emitted : t < s
    BY <1>1, <2>1, <2>2
  <2> QED BY <1>1, <2>1, <2>3, GoingOn
<1>4. CASE DirectFailed
  BY <1>1, <1>4, GoingOn DEF DirectFailed, streamVars
<1> QED BY <1>2, <1>3, <1>4

LEMMA ChunkRefines ==
  ASSUME IInv, TypeOK',
         \/ \E full \in BOOLEAN : ChunkFinishedPlain(full)
         \/ ChunkFinishedEncrypted \/ ChunkFailed
  PROVE  OrderedStep
<1>1. chunks # <<>> /\ ends = 0
  BY Fetching DEF ChunkFinishedPlain, ChunkFinishedEncrypted, ChunkFailed
<1>2. CASE \E full \in BOOLEAN : ChunkFinishedPlain(full)
  BY <1>1, <1>2, DeliveryGoesOn DEF ChunkFinishedPlain, streamVars
<1>3. CASE ChunkFinishedEncrypted
  BY <1>3, Unheard DEF ChunkFinishedEncrypted, streamVars, history
<1>4. CASE ChunkFailed
  <2>1. gen' = gen /\ emitted' = emitted /\ ends' \in {0, 1}
    BY <1>1, <1>4 DEF ChunkFailed, streamVars
  <2> QED BY <1>1, <2>1, GoingOn DEF IInv, TypeOK
<1> QED BY <1>2, <1>3, <1>4

LEMMA PostedRefines ==
  ASSUME IInv, TypeOK', NEW d \in posted, DeliverPosted(d)
  PROVE  OrderedStep
<1>1. gen' = gen
  BY DEF DeliverPosted, streamVars
<1>2. CASE d.gen # gen
  BY <1>1, <1>2, Unheard DEF DeliverPosted
<1>3. CASE d.gen = gen
  <2>1. d \in OwnPosted
    BY <1>3 DEF OwnPosted
  <2>2. chunks # <<>> /\ ends = 0
    BY <2>1 DEF IInv, NoPlaylistInv, QuietInv, TypeOK
  <2> QED BY <1>1, <1>3, <2>2, DeliveryGoesOn DEF DeliverPosted
<1> QED BY <1>2, <1>3

LEMMA StepRefines == ASSUME IInv, [Next]_vars PROVE OrderedStep
<1> TypeOK'
  BY TypeOKStep DEF IInv
<1>1. CASE \/ \E what \in {"manifest", "direct"} : StartDownload(what)
           \/ StopDownload
  BY <1>1, StopRestarts DEF StartDownload, StopDownload, Halt
<1>2. ASSUME NEW t \in SeekTargets, SeekTo(t) PROVE OrderedStep
  <2>1. CASE UNCHANGED <<gen, history>>
    BY <2>1, Unheard DEF history
  <2>2. CASE Stop /\ ends' \in {0, 1}
    BY <2>2, StopRestarts
  <2> QED BY <1>2, <2>1, <2>2 DEF SeekTo, SeekDirect, SeekHls, Halt
<1>3. CASE \E man \in Manifests : ManifestReceived(man)
  BY <1>3, ManifestRefines
<1>4. CASE ManifestFailed \/ KeyReceived \/ KeyFailed
  BY <1>4, Unheard DEF ManifestFailed, KeyReceived, KeyFailed, streamVars, history
<1>5. CASE \/ \E size \in {0, FileSize} : DirectData(size)
           \/ DirectFinished \/ DirectFailed
  BY <1>5, DirectRefines
<1>6. CASE \/ \E full \in BOOLEAN : ChunkFinishedPlain(full)
           \/ ChunkFinishedEncrypted \/ ChunkFailed
  BY <1>6, ChunkRefines
<1>7. CASE Pool
  BY <1>7, Unheard DEF Pool, FinishJob, streamVars, history
<1>8. CASE Posts
  BY <1>8, PostedRefines DEF Posts
<1>9. CASE PauseDownload \/ ResumeDownload
  BY <1>9, Unheard DEF PauseDownload, ResumeDownload, streamVars, history
<1>10. CASE UNCHANGED vars
  BY <1>10, Unheard DEF vars, streamVars, history
<1> QED
  BY <1>1, <1>2, <1>3, <1>4, <1>5, <1>6, <1>7, <1>8, <1>9, <1>10
  DEF Next, Requests, Answers

(* The streamer implements the ordered stream: within a generation, data    *)
(* reach the engine in order and once, and the end comes once and last.     *)
THEOREM Refinement == Spec => ImplementsOrderedStream
<1>1. Init => Ordered!Init
  BY DEF Init, Ordered!Init
<1>2. IInv /\ [Next]_vars => [Ordered!Next]_(Ordered!vars)
  BY StepRefines DEF OrderedStep
<1> QED BY <1>1, <1>2, Invariance, PTL DEF Spec, ImplementsOrderedStream, Ordered!Spec
===============================================================================
