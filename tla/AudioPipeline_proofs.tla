------------------------- MODULE AudioPipeline_proofs -------------------------
(***************************************************************************)
(* Proofs about AudioPipeline, for every length of track, chunk and buffer, *)
(* every watermark, any number of tracks and seeks, and every interleaving  *)
(* of the main thread, the decoder and the callback.                        *)
(***************************************************************************)
EXTENDS AudioPipeline, SequenceTheorems, FiniteSetTheorems, TLAPS

-----------------------------------------------------------------------------
(* The ring buffer's own theorems, for units of audio. *)

RB == INSTANCE RingBuffer_proofs WITH Items <- Units

LEMMA SameRing ==
  /\ Ring!RingAssumption = RB!RingAssumption /\ Ring!Slots = RB!Slots
  /\ Ring!Capacity = RB!Capacity
  /\ Ring!Init = RB!Init
  /\ Ring!TypeOK = RB!TypeOK /\ Ring!IInv = RB!IInv
  /\ Ring!TypeOK' = RB!TypeOK' /\ Ring!IInv' = RB!IInv'
  /\ Ring!WriteEnd = RB!WriteEnd /\ Ring!ReadEnd = RB!ReadEnd /\ Ring!Clear = RB!Clear
  /\ [Ring!Next]_(Ring!vars) = [RB!Next]_(RB!vars)
  /\ Ring!AvailableRead = RB!AvailableRead /\ Ring!AvailableWrite = RB!AvailableWrite
  /\ Ring!Contents = RB!Contents /\ Ring!Contents' = RB!Contents'
  /\ Ring!NoSharedSlot = RB!NoSharedSlot
  <1> USE DEF Ring!Slots, RB!Slots, Ring!Capacity, RB!Capacity, Ring!Distance, RB!Distance,
              Ring!AvailableRead, RB!AvailableRead, Ring!AvailableWrite, RB!AvailableWrite
  <1>1. /\ Ring!TypeOK = RB!TypeOK /\ Ring!TypeOK' = RB!TypeOK'
        /\ Ring!RingAssumption = RB!RingAssumption /\ Ring!NoSharedSlot = RB!NoSharedSlot
        /\ Ring!Slots = RB!Slots /\ Ring!Capacity = RB!Capacity
        /\ Ring!AvailableRead = RB!AvailableRead /\ Ring!AvailableWrite = RB!AvailableWrite
    BY DEF Ring!TypeOK, RB!TypeOK, Ring!RingAssumption, RB!RingAssumption,
           Ring!NoSharedSlot, RB!NoSharedSlot
  <1>2. Ring!IInv = RB!IInv /\ Ring!IInv' = RB!IInv'
    BY <1>1 DEF Ring!IInv, RB!IInv, Ring!WriterInv, RB!WriterInv, Ring!ReaderInv, RB!ReaderInv
  <1>3. Ring!Contents = RB!Contents /\ Ring!Contents' = RB!Contents'
    BY DEF Ring!Contents, RB!Contents, Ring!ItemsFrom, RB!ItemsFrom
  <1>4. /\ Ring!WriteEnd = RB!WriteEnd /\ Ring!ReadEnd = RB!ReadEnd /\ Ring!Clear = RB!Clear
        /\ [Ring!Next]_(Ring!vars) = [RB!Next]_(RB!vars) /\ Ring!Init = RB!Init
    BY DEF Ring!Next, RB!Next, Ring!vars, RB!vars, Ring!Init, RB!Init, Ring!WriteBegin,
           RB!WriteBegin, Ring!WriteEnd, RB!WriteEnd, Ring!ReadBegin, RB!ReadBegin,
           Ring!ReadEnd, RB!ReadEnd, Ring!Clear, RB!Clear, Ring!NoWrite, RB!NoWrite,
           Ring!NoRead, RB!NoRead, Ring!Least, RB!Least
  <1> QED BY <1>1, <1>2, <1>3, <1>4

LEMMA RingStarts == ASSUME Ring!RingAssumption, Ring!Init PROVE Ring!IInv
  <1>1. RB!RingAssumption /\ RB!Init
    BY SameRing
  <1>2. RB!IInv
    BY <1>1, RB!Sizes DEF RB!RingAssumption, RB!Init, RB!IInv, RB!TypeOK, RB!WriterInv,
                         RB!ReaderInv, RB!NoWrite, RB!NoRead
  <1> QED BY <1>2, SameRing

LEMMA RingGoesOn ==
  ASSUME Ring!RingAssumption, Ring!IInv, [Ring!Next]_(Ring!vars)
  PROVE  Ring!IInv'
  <1>1. RB!RingAssumption /\ RB!IInv /\ [RB!Next]_(RB!vars)
    BY SameRing
  <1>2. RB!IInv'
    BY <1>1, RB!TypeStep, RB!WriterStep, RB!ReaderStep DEF RB!IInv
  <1> QED BY <1>2, SameRing

LEMMA RingApart == ASSUME Ring!RingAssumption, Ring!IInv PROVE Ring!NoSharedSlot
  BY SameRing, RB!Apart

LEMMA RingContents ==
  ASSUME Ring!RingAssumption, Ring!IInv
  PROVE  /\ Ring!Contents \in Seq(Units) /\ Len(Ring!Contents) = Ring!AvailableRead
         /\ \A i \in 1 .. Len(Ring!Contents) :
              /\ (readPos + (i - 1)) % Ring!Capacity \in Ring!Slots
              /\ Ring!Contents[i] = slots[(readPos + (i - 1)) % Ring!Capacity]
         /\ \A U : slots \in [Ring!Slots -> U] => Ring!Contents \in Seq(U)
         /\ writing.data # <<>> /\ writing.at # writePos => Ring!Contents = <<>>
         /\ Ring!AvailableRead = 0 => Ring!Contents = <<>>
  <1>1. RB!RingAssumption /\ RB!IInv /\ RB!TypeOK
    BY SameRing DEF RB!IInv
  <1>2. /\ RB!Contents \in Seq(Units) /\ Len(RB!Contents) = RB!AvailableRead
        /\ \A i \in 1 .. RB!AvailableRead :
             RB!Contents[i] = slots[(readPos + (i - 1)) % RB!Capacity]
    BY <1>1, RB!ContentsAre
  <1>3. /\ readPos \in RB!Slots /\ writePos \in RB!Slots
        /\ RB!AvailableRead \in Nat /\ RB!AvailableRead <= Size /\ Size \in Nat
    BY <1>1, RB!Room, RB!Sizes
  <1>4. ASSUME NEW i \in 1 .. RB!AvailableRead
        PROVE  (readPos + (i - 1)) % RB!Capacity \in RB!Slots
    <2>1. i - 1 \in Nat /\ i - 1 <= Size
      BY <1>3
    <2> QED BY <1>1, <1>3, <2>1, RB!Ahead
  <1>5. ASSUME NEW U, slots \in [RB!Slots -> U] PROVE RB!Contents \in Seq(U)
    <2>1. \A i \in 1 .. Len(RB!Contents) : RB!Contents[i] \in U
      BY <1>2, <1>4, <1>5
    <2> QED BY <1>2, <2>1
  <1>6. RB!AvailableRead = 0 => RB!Contents = <<>>
    BY <1>2, EmptySeq
  <1>7. writing.data # <<>> /\ writing.at # writePos => RB!AvailableRead = 0
    BY <1>1 DEF RB!IInv, RB!WriterInv, RB!AvailableRead, RB!Distance
  <1> QED BY <1>2, <1>4, <1>5, <1>6, <1>7, SameRing

LEMMA RingAppends ==
  ASSUME Ring!RingAssumption, Ring!IInv, Ring!IInv', Ring!WriteEnd, writing.at = writePos
  PROVE  Ring!Contents' = Ring!Contents \o writing.data
  BY SameRing, RB!WriteAppends DEF RB!IInv

LEMMA RingTakes ==
  ASSUME Ring!RingAssumption, Ring!IInv, Ring!IInv', Ring!ReadEnd
  PROVE  /\ reading.n \in 1 .. Len(Ring!Contents)
         /\ Ring!Contents' = SubSeq(Ring!Contents, reading.n + 1, Len(Ring!Contents))
         /\ Ring!Copied = SubSeq(Ring!Contents, 1, reading.n)
  <1>1. RB!RingAssumption /\ RB!IInv /\ RB!TypeOK /\ RB!TypeOK' /\ RB!ReadEnd
    BY SameRing DEF RB!IInv
  <1>2. /\ reading.n \in 1 .. Len(Ring!Contents)
        /\ Ring!Contents' = SubSeq(Ring!Contents, reading.n + 1, Len(Ring!Contents))
    BY <1>1, RB!ReadTakes, SameRing
  <1>3. Ring!Contents \in Seq(Units) /\ Len(Ring!Contents) = Ring!AvailableRead
    BY RingContents
  <1>4. reading.at = readPos
    BY <1>1 DEF RB!IInv, RB!ReaderInv, RB!ReadEnd
  <1>5. Ring!Copied = [i \in 1 .. reading.n |-> slots[(readPos + i - 1) % Ring!Capacity]]
    BY <1>4 DEF Ring!Copied, Ring!ItemsFrom
  <1>6. Ring!Contents = [i \in 1 .. Ring!AvailableRead |->
                           slots[(readPos + i - 1) % Ring!Capacity]]
    BY DEF Ring!Contents, Ring!ItemsFrom
  <1>7. /\ SubSeq(Ring!Contents, 1, reading.n)
             = [i \in 1 .. reading.n |-> Ring!Contents[i]]
        /\ Len(Ring!Contents) \in Nat
    BY <1>2, <1>3
  <1>8. \A i \in 1 .. reading.n :
          Ring!Contents[i] = slots[(readPos + i - 1) % Ring!Capacity]
    <2>1. \A i \in 1 .. Ring!AvailableRead :
            Ring!Contents[i] = slots[(readPos + i - 1) % Ring!Capacity]
      BY <1>6, Zenon
    <2>2. \A i \in 1 .. reading.n : i \in 1 .. Ring!AvailableRead
      BY <1>2, <1>3, <1>7
    <2> QED BY <2>1, <2>2, Zenon
  <1> QED BY <1>2, <1>5, <1>7, <1>8

LEMMA RingCleared ==
  ASSUME Ring!RingAssumption, Ring!IInv', Ring!Clear
  PROVE  Ring!Contents' = <<>>
  <1>1. RB!RingAssumption /\ RB!TypeOK' /\ RB!Clear
    BY SameRing DEF RB!IInv
  <1>2. RB!AvailableRead' = 0
    BY <1>1 DEF RB!Clear, RB!AvailableRead, RB!Distance
  <1> QED BY <1>1, <1>2, RB!ContentsThen, EmptySeq, SameRing

\* Starting to write or to read changes nothing of what is in the buffer.
LEMMA RingKeeps ==
  ASSUME UNCHANGED <<slots, readPos, writePos>>
  PROVE  Ring!Contents' = Ring!Contents
  BY DEF Ring!Contents, Ring!ItemsFrom, Ring!AvailableRead, Ring!Distance

LEMMA OneUnit ==
  ASSUME NEW U, NEW u \in U
  PROVE  /\ <<u>> \in Seq(U) /\ Len(<<u>>) = 1 /\ <<u>>[1] = u /\ <<u>> # <<>>
         /\ SubSeq(<<u>>, 1, 1) = <<u>>
  <1>1. <<u>> \in Seq(U) /\ Len(<<u>>) = 1 /\ <<u>>[1] = u
    OBVIOUS
  <1> QED BY <1>1, SubSeqFull

LEMMA OfSequence ==
  ASSUME NEW U, NEW s \in Seq(U)
  PROVE  /\ Len(s) \in Nat /\ (s = <<>> <=> Len(s) = 0) /\ DOMAIN s = 1 .. Len(s)
         /\ \A i \in 1 .. Len(s) : s[i] \in U
         /\ s # <<>> => /\ Len(s) > 0 /\ Head(s) = s[1] /\ Head(s) \in U
                        /\ <<Head(s)>> \in Seq(U)
                        /\ Tail(s) \in Seq(U) /\ Len(Tail(s)) = Len(s) - 1
                        /\ \A i \in 1 .. Len(s) - 1 : Tail(s)[i] = s[i + 1]
  <1>1. Len(s) \in Nat /\ (s = <<>> <=> Len(s) = 0) /\ DOMAIN s = 1 .. Len(s)
    BY EmptySeq
  <1>2. s # <<>> => Len(s) > 0 /\ Head(s) = s[1]
    BY <1>1
  <1> QED BY <1>1, <1>2, HeadTailProperties, OneUnit

LEMMA InSequences ==
  ASSUME NEW U, NEW V, NEW s \in Seq(V), \A i \in 1 .. Len(s) : s[i] \in U
  PROVE  s \in Seq(U)
  OBVIOUS

\* A sequence is cut in two.
LEMMA CutSequence ==
  ASSUME NEW U, NEW s \in Seq(U), NEW n \in 0 .. Len(s)
  PROVE  /\ SubSeq(s, 1, n) \in Seq(U) /\ Len(SubSeq(s, 1, n)) = n
         /\ \A i \in 1 .. n : SubSeq(s, 1, n)[i] = s[i]
         /\ SubSeq(s, n + 1, Len(s)) \in Seq(U) /\ Len(SubSeq(s, n + 1, Len(s))) = Len(s) - n
         /\ \A i \in 1 .. Len(s) - n : SubSeq(s, n + 1, Len(s))[i] = s[n + i]
  <1>1. Len(s) \in Nat /\ n \in Nat /\ n <= Len(s) /\ \A i \in 1 .. Len(s) : s[i] \in U
    OBVIOUS
  <1>2. \A i \in 1 .. n : s[i] \in U
    BY <1>1
  <1>3. \A i \in n + 1 .. Len(s) : s[i] \in U
    BY <1>1
  <1> QED BY <1>1, <1>2, <1>3, SubSeqProperties

LEMMA LeastIs ==
  ASSUME NEW a \in Nat, NEW b \in Nat
  PROVE  /\ Ring!Least(a, b) \in Nat /\ Ring!Least(a, b) <= a /\ Ring!Least(a, b) <= b
         /\ Ring!Least(a, b) \in {a, b}
  BY DEF Ring!Least

(* Where a position is looked for lies within the file, and no further      *)
(* before it than the announced length exceeds the real one.                *)
LEMMA OffsetIs ==
  ASSUME PipelineAssumption, duration \in Durations, duration > 0, NEW p \in Nat, p <= duration
  PROVE  /\ Offset(p) \in 0 .. Total
         /\ p <= Offset(p) + (IF duration > Total THEN duration - Total ELSE 0)
  <1> DEFINE D == duration  T == Total  q == Offset(p)
  <1>1. D \in Nat /\ D > 0 /\ T \in Nat /\ p <= D
    BY DEF PipelineAssumption
  <1>2. p * T \in Nat
    BY <1>1
  <1>3. q \in Nat /\ D * q <= p * T /\ p * T < D * q + D
    BY <1>1, <1>2 DEF Offset
  <1> HIDE DEF q, D, T
  <1>4. q <= T
    <2> SUFFICES ASSUME q >= T + 1 PROVE FALSE
      BY <1>1, <1>3
    <2>1. D * q >= D * (T + 1)
      BY <1>1, <1>3
    <2>2. D * (T + 1) = D * T + D
      BY <1>1
    <2>3. p * T <= D * T
      BY <1>1
    <2> QED BY <1>1, <1>2, <1>3, <2>1, <2>2, <2>3
  <1>5. CASE D > T
    <2> SUFFICES ASSUME q <= p - D + T - 1 PROVE FALSE
      BY <1>1, <1>3, <1>4, <1>5 DEF q, D, T
    <2>1. D * (q + 1) <= D * (p - D + T)
      BY <1>1, <1>3
    <2>2. D * (q + 1) = D * q + D
      BY <1>1, <1>3
    <2>3. D * (p - D + T) - p * T = (D - p) * (T - D)
      BY <1>1
    <2>4. (D - p) * (T - D) <= 0
      BY <1>1, <1>5
    <2> QED BY <1>1, <1>2, <1>3, <2>1, <2>2, <2>3, <2>4
  <1>6. CASE D <= T
    <2> SUFFICES ASSUME q + 1 <= p PROVE FALSE
      BY <1>1, <1>3, <1>4, <1>6 DEF q, D, T
    <2>1. D * (q + 1) <= D * p
      BY <1>1, <1>3
    <2>2. D * (q + 1) = D * q + D
      BY <1>1, <1>3
    <2>3. D * p <= p * T
      BY <1>1, <1>6
    <2> QED BY <1>1, <1>2, <1>3, <2>1, <2>2, <2>3
  <1> QED BY <1>1, <1>5, <1>6

-----------------------------------------------------------------------------
(* What each thread is in the middle of. *)

\* The decoder: what it holds where, and what it is writing.
ThreadInv ==
  /\ DecodingMp3 => calls \in 1 .. 2
  /\ torn => DecodingMp3
  /\ pc \notin {"room", "demux", "writeAac"} => local = <<>>
  /\ Len(local) <= Take
  /\ pc = "writeAac" => local # <<>> /\ writing.data = <<Head(local)>> /\ mp3 = <<>>
  /\ pc = "writeMp3" => /\ Len(writing.data) = 1
                        /\ mp3 # <<>> => writing.data = <<Head(mp3)>>
                        /\ ~torn => mp3 # <<>>
  /\ pc \notin {"writeAac", "writeMp3"} => writing.data = <<>>
  /\ pc \in {"dozing", "asleep"} => aac = <<>>
  /\ mp3 # <<>> => torn \/ detected = "mp3"

\* The main thread: between the parts of a handler, and until a posted SeekTo comes.
HandlerInv ==
  /\ stream <= gen
  /\ main \in {"clearAudio", "seekAudio"} => gen < MaxTracks
  /\ Stopped => seekTo # NoSeek
  /\ main \in {"clearAudio", "clearNetwork"} => seekTo = NoSeek
  /\ seekTo # NoSeek => seekTo <= duration /\ duration > 0
  /\ seekTo # NoSeek /\ main # "seekAudio" => stream < gen /\ heard = Offset(seekTo)
  /\ main = "clearNetwork" => stream < gen /\ heard = 0

LEMMA Constants ==
  ASSUME PipelineAssumption
  PROVE  /\ Ring!RingAssumption
         /\ Total \in Nat /\ Total > 0 /\ Chunk \in Nat /\ Chunk > 0 /\ Take \in Nat /\ Take > 0
         /\ MinDecode \in Nat /\ MinDecode > 0 /\ Frames \in Nat /\ Frames > 0
         /\ Room \in Nat /\ MaxTracks \in Nat /\ MaxTracks > 0 /\ Size \in Nat
         /\ High \in Nat /\ Low \in Nat /\ Low < High
         /\ NearEnd \in Nat /\ EndSlack \in Nat /\ EndSlack <= NearEnd
         /\ \A d \in Durations : d \in Nat
         /\ \A p \in Targets : p \in Nat
         /\ \A f \in Formats : f.hls \in BOOLEAN /\ f.codec \in Codecs
         /\ Silence \in Units
  BY DEF PipelineAssumption, Ring!RingAssumption

LEMMA Types ==
  ASSUME PipelineAssumption, TypeOK
  PROVE  /\ pushed \in Nat /\ pushed <= Total /\ Total - pushed \in Nat
         /\ fetched \in Nat /\ pushed <= fetched /\ fetched <= Total
         /\ gen \in Nat /\ gen > 0 /\ gen <= MaxTracks
         /\ stream \in Nat /\ stream > 0 /\ stream <= MaxTracks
         /\ heard \in Nat /\ position \in Nat /\ netSize \in Nat
         /\ duration \in Nat
         /\ format.codec \in Codecs /\ format.hls \in BOOLEAN
         /\ Len(aac) \in Nat /\ Len(mp3) \in Nat /\ Len(local) \in Nat
         /\ writing.data \in Seq(Units) /\ Len(writing.data) \in Nat /\ reading.n \in Nat
  <1>1. /\ fetched \in 0 .. Total /\ pushed \in 0 .. fetched
        /\ gen \in 1 .. MaxTracks /\ stream \in 1 .. MaxTracks
        /\ Total \in Nat /\ MaxTracks \in Nat
    BY Constants DEF TypeOK
  <1>2. heard \in Nat /\ position \in Nat /\ netSize \in Nat
    BY DEF TypeOK
  <1>3. duration \in Durations /\ format \in Formats
    BY DEF TypeOK
  <1>4. duration \in Nat /\ format.codec \in Codecs /\ format.hls \in BOOLEAN
    BY <1>3, Constants
  <1>5. aac \in Seq(Units) /\ mp3 \in Seq(Units) /\ local \in Seq(Units)
    BY DEF TypeOK
  <1>6. writing.data \in Seq(Units) /\ reading.n \in 0 .. Size
    BY DEF TypeOK, Ring!TypeOK
  <1>7. /\ Len(aac) \in Nat /\ Len(mp3) \in Nat /\ Len(local) \in Nat
        /\ Len(writing.data) \in Nat
    BY <1>5, <1>6, OfSequence
  <1> QED BY <1>1, <1>2, <1>4, <1>6, <1>7

\* A write of one unit begins.
LEMMA WritesOne ==
  ASSUME Ring!RingAssumption, Ring!IInv, NEW u \in Units, Ring!WriteBegin(<<u>>)
  PROVE  /\ writing.data = <<>> /\ writing' = [at |-> writePos, data |-> <<u>>]
         /\ UNCHANGED <<slots, readPos, writePos, reading>>
  <1>1. RB!TypeOK /\ RB!RingAssumption
    BY SameRing DEF RB!IInv
  <1>2. Ring!AvailableWrite \in Nat
    BY <1>1, RB!Room, RB!Sizes, SameRing
  <1>3. Len(<<u>>) = 1 /\ SubSeq(<<u>>, 1, 1) = <<u>>
    BY OneUnit
  <1>4. Ring!Least(1, Ring!AvailableWrite) \in {0, 1}
    BY <1>2 DEF Ring!Least
  <1>5. Ring!Least(1, Ring!AvailableWrite) > 0
    BY <1>3 DEF Ring!WriteBegin
  <1>6. Ring!Least(1, Ring!AvailableWrite) = 1
    BY <1>4, <1>5
  <1> QED BY <1>3, <1>6 DEF Ring!WriteBegin

(* Every step of the pipeline is one of the ring buffer or leaves it alone. *)
LEMMA RingSteps ==
  ASSUME PipelineAssumption, TypeOK, Ring!IInv, [Next]_vars
  PROVE  [Ring!Next]_(Ring!vars)
  <1>0. Ring!RingAssumption /\ Frames \in Nat
    BY Constants
  <1>1. CASE DecodeAac
    <2>1. <<Head(local)>> \in Seq(Units)
      BY <1>1, OfSequence DEF DecodeAac, TypeOK
    <2> QED BY <1>1, <2>1 DEF DecodeAac, Ring!Next
  <1>2. CASE DecodeMp3
    <2>1. <<Head(mp3)>> \in Seq(Units)
      BY <1>2, OfSequence DEF DecodeMp3, Mp3GoesOn, TypeOK
    <2> QED BY <1>2, <2>1 DEF DecodeMp3, Ring!Next
  <1>3. CASE WrittenAac \/ WrittenMp3
    BY <1>3 DEF WrittenAac, WrittenMp3, Ring!Next
  <1>4. CASE ClearAudio \/ SeekAudio
    BY <1>4 DEF ClearAudio, SeekAudio, SetAudio, Ring!Next
  <1>5. CASE CallbackReads \/ CallbackPlays
    BY <1>0, <1>5 DEF CallbackReads, CallbackPlays, Ring!Next
  <1>6. CASE Download \/ BeginSwitch \/ ClearNetwork
             \/ (\E p \in Targets : BeginSeek(p)) \/ SeekUnknown
             \/ SeekNetwork \/ SeekTo \/ Poll \/ Underflow
    BY <1>6 DEF Download, OnChunkFinished, DeliverChunk, PushNetworkData, PushKeeps,
         DownloadError, SetNetworkStreamFinished, BeginSwitch, ClearNetwork, BeginSeek,
         SeekUnknown, SeekNetwork, SeekTo, Poll, PollNearEnd, PollFinished, Underflow, ring,
         Ring!vars
  <1>7. CASE Doze \/ FallAsleep \/ TakeChunk \/ WaitForRoom \/ ChunkDone \/ PutAside
             \/ FailAac \/ CallDecodeMp3 \/ StopMp3 \/ SkipMp3
    BY <1>7 DEF Doze, FallAsleep, TakeChunk, WaitForRoom, ChunkDone, PutAside, FailAac,
         CallDecodeMp3, StopMp3, SkipMp3, ring, Ring!vars
  <1>8. CASE UNCHANGED vars
    BY <1>8 DEF vars, ring, Ring!vars
  <1> QED BY <1>1, <1>2, <1>3, <1>4, <1>5, <1>6, <1>7, <1>8
          DEF Next, Switch, Seek, Decoder, Callback

-----------------------------------------------------------------------------
(* Where the units are. *)

InBuffers(U) == /\ aac \in Seq(U) /\ mp3 \in Seq(U) /\ local \in Seq(U)
                /\ writing.data \in Seq(U)
InSlots(U) == slots \in [Ring!Slots -> U]
Holds(U) == InBuffers(U) /\ InSlots(U)

\* The i-th unit that is still to be delivered; what is delivered at a time; and
\* a chunk that is not, or not yet.
NextUnit(i) == [track |-> stream, n |-> pushed + i, codec |-> format.codec]
Arrives(U) == \A i \in 1 .. Total - pushed : NextUnit(i) \in U
Pushes == \E n \in 0 .. Total - pushed : PushNetworkData(n)
Holding == UNCHANGED <<main, gen, format, stream, pushed, broken, paused, seekTo, network,
                       decoder, ring, signals, clock, told, history>>

LEMMA Receives ==
  ASSUME PipelineAssumption, TypeOK, OnChunkFinished \/ DeliverChunk
  PROVE  /\ Pushes \/ Holding
         /\ main \in {"idle", "delivering"} /\ main' \in {"idle", "delivering", "ending"}
         /\ fetched' \in 0 .. Total /\ pushed' \in 0 .. fetched' /\ inFlight' \in BOOLEAN
  <1>0. /\ pushed \in Nat /\ fetched \in Nat /\ pushed <= fetched /\ fetched <= Total
        /\ Total \in Nat /\ Chunk \in Nat
    BY Types, Constants
  <1>1. CASE OnChunkFinished
    <2>1. fetched' \in fetched .. Total
      BY <1>0, <1>1 DEF OnChunkFinished, Ring!Least
    <2>2. /\ main = "idle" /\ main' \in {"idle", "delivering", "ending"} /\ inFlight' \in BOOLEAN
      BY <1>1, Zenon DEF OnChunkFinished
    <2>3. CASE pushed = fetched /\ PushNetworkData(fetched' - fetched)
      <3>1. fetched' - fetched \in 0 .. Total - pushed
        BY <1>0, <2>1, <2>3
      <3>2. pushed' = fetched'
        BY <1>0, <2>1, <2>3 DEF PushNetworkData
      <3>3. Pushes
        BY <2>3, <3>1 DEF Pushes
      <3> QED BY <1>0, <2>1, <2>2, <3>2, <3>3
    <2>4. CASE Holding
      <3>1. pushed' = pushed
        BY <2>4 DEF Holding
      <3> QED BY <1>0, <2>1, <2>2, <2>4, <3>1
    <2> QED BY <1>1, <2>3, <2>4 DEF OnChunkFinished, Holding
  <1>2. CASE DeliverChunk
    <2> DEFINE n == Ring!Least(Chunk, fetched - pushed)
    <2>1. n \in 0 .. fetched - pushed
      BY <1>0 DEF Ring!Least
    <2>2. PushNetworkData(n) /\ fetched' = fetched /\ inFlight' = inFlight
      BY <1>2 DEF DeliverChunk
    <2>3. pushed' = pushed + n
      BY <2>2 DEF PushNetworkData
    <2>4. /\ main \in {"idle", "delivering"} /\ main' \in {"idle", "delivering", "ending"}
      BY <1>2 DEF DeliverChunk
    <2>5. inFlight' \in BOOLEAN
      BY <2>2 DEF TypeOK
    <2> HIDE DEF n
    <2>6. n \in 0 .. Total - pushed
      BY <1>0, <2>1
    <2> QED BY <1>0, <2>1, <2>2, <2>3, <2>4, <2>5, <2>6 DEF Pushes
  <1> QED BY <1>1, <1>2

LEMMA ArrivingIs ==
  ASSUME PipelineAssumption, TypeOK, NEW n \in 0 .. Total - pushed
  PROVE  /\ n \in Nat /\ pushed + n <= Total
         /\ Arriving(n) \in Seq(Units) /\ Len(Arriving(n)) = n
         /\ \A i \in 1 .. n : Arriving(n)[i] = NextUnit(i)
  <1>1. /\ pushed \in Nat /\ Total \in Nat /\ Total - pushed \in Nat
        /\ format.codec \in Codecs /\ stream \in 0 .. MaxTracks
    BY Constants, Types
  <1>2. n \in Nat /\ pushed + n <= Total
    BY <1>1
  <1>3. \A i \in 1 .. n : NextUnit(i) \in Units
    BY <1>1, <1>2 DEF Units, NextUnit
  <1>4. Arriving(n) = [i \in 1 .. n |-> NextUnit(i)]
    BY DEF Arriving, NextUnit
  <1> QED BY <1>2, <1>3, <1>4

LEMMA UnitsArrive ==
  ASSUME PipelineAssumption, TypeOK
  PROVE  /\ Arrives(Units)
         /\ \A i \in 1 .. Total - pushed : NextUnit(i) \in Units /\ NextUnit(i).track = stream
  <1>1. /\ pushed \in Nat /\ Total \in Nat /\ Total - pushed \in Nat
        /\ format.codec \in Codecs /\ stream \in 0 .. MaxTracks
    BY Constants, Types
  <1>2. ASSUME NEW i \in 1 .. Total - pushed
        PROVE  NextUnit(i) \in Units /\ NextUnit(i).track = stream
    <2>1. pushed + i \in 0 .. Total
      BY <1>1
    <2> QED BY <1>1, <2>1 DEF Units, NextUnit
  <1> QED BY <1>2 DEF Arrives

LEMMA TakenIs ==
  ASSUME PipelineAssumption, TypeOK
  PROVE  /\ Ring!Least(Take, Len(aac)) \in 0 .. Len(aac)
         /\ Ring!Least(Take, Len(aac)) <= Take
  <1> DEFINE k == Len(aac)
  <1>1. k \in Nat /\ Take \in Nat
    BY Types, Constants
  <1> HIDE DEF k
  <1>2. Ring!Least(Take, k) \in 0 .. k /\ Ring!Least(Take, k) <= Take
    BY <1>1 DEF Ring!Least
  <1> QED BY <1>2 DEF k

\* A write that ends puts into the slots what it was to write.
LEMMA WriteFills ==
  ASSUME PipelineAssumption, Ring!IInv, Ring!WriteEnd,
         NEW U, writing.data \in Seq(U), slots \in [Ring!Slots -> U]
  PROVE  slots' \in [Ring!Slots -> U] /\ writing'.data = <<>>
  <1>1. RB!RingAssumption /\ RB!TypeOK /\ RB!WriteEnd /\ Ring!Slots = RB!Slots
    BY SameRing, Constants DEF RB!IInv
  <1>2. writing.at \in RB!Slots
    BY <1>1 DEF RB!TypeOK
  <1>3. \A i \in RB!Slots : RB!Distance(writing.at, i) \in Nat
    BY <1>1, <1>2, RB!DistanceIs
  <1>4. slots' \in [RB!Slots -> U]
    BY <1>1, <1>3 DEF RB!WriteEnd
  <1> QED BY <1>1, <1>4 DEF RB!WriteEnd, RB!NoWrite

(* What the four buffers and the write under way hold, they have from each  *)
(* other or from the network.                                               *)
LEMMA BufferFlow ==
  ASSUME PipelineAssumption, TypeOK, ThreadInv, Ring!IInv, NEW U, InBuffers(U), [Next]_vars,
         Pushes => Arrives(U)
  PROVE  InBuffers(U)'
  <1> USE DEF InBuffers
  <1>0. Ring!RingAssumption /\ Ring!TypeOK /\ Take \in Nat /\ <<>> \in Seq(U)
    BY Constants DEF TypeOK
  <1>1. CASE Pushes
    <2>0. PICK n \in 0 .. Total - pushed : PushNetworkData(n)
      BY <1>1 DEF Pushes
    <2>1. Arriving(n) \in Seq(U)
      <3>1. /\ Arriving(n) \in Seq(Units) /\ Len(Arriving(n)) = n /\ n \in Nat
            /\ \A i \in 1 .. n : Arriving(n)[i] = NextUnit(i)
        BY ArrivingIs
      <3>2. \A i \in 1 .. n : i \in 1 .. Total - pushed
        <4>1. Total \in Nat /\ pushed \in Nat /\ n \in 0 .. Total - pushed
          BY <2>0, Types, Constants
        <4> QED BY <4>1
      <3>3. \A i \in 1 .. n : Arriving(n)[i] \in U
        BY <1>1, <3>1, <3>2 DEF Arrives
      <3> QED BY <3>1, <3>3, InSequences
    <2>2. aac' \in Seq(U)
      <3>1. aac \o Arriving(n) \in Seq(U)
        BY <2>1, ConcatProperties
      <3> QED BY <2>0, <3>1 DEF PushNetworkData
    <2> QED BY <2>0, <2>2 DEF PushNetworkData, PushKeeps, ring
  <1>2. CASE ClearNetwork \/ SeekNetwork
    BY <1>0, <1>2 DEF ClearNetwork, SeekNetwork, EmptyNetwork, ClearedMp3, ring
  <1>3. CASE ClearAudio \/ SeekAudio
    BY <1>3 DEF ClearAudio, SeekAudio, SetAudio, Ring!Clear, network, decoder
  <1>4. CASE TakeChunk
    <2>1. Ring!Least(Take, Len(aac)) \in 0 .. Len(aac)
      BY TakenIs
    <2> QED BY <1>4, <2>1, CutSequence DEF TakeChunk, ring
  <1>5. CASE PutAside
    BY <1>0, <1>5 DEF PutAside, ring
  <1>6. CASE DecodeAac
    <2>1. Head(local) \in Units /\ Head(local) \in U /\ <<Head(local)>> \in Seq(U)
      BY <1>6, OfSequence DEF DecodeAac, TypeOK
    <2>2. writing' = [at |-> writePos, data |-> <<Head(local)>>]
      BY <1>0, <1>6, <2>1, WritesOne DEF DecodeAac
    <2> QED BY <1>6, <2>1, <2>2 DEF DecodeAac
  <1>7. CASE FailAac
    BY <1>7, OfSequence DEF FailAac, ring
  <1>8. CASE WrittenAac
    <2>1. writing'.data = <<>>
      BY <1>8 DEF WrittenAac, Ring!WriteEnd, Ring!NoWrite
    <2> QED BY <1>0, <1>8, <2>1, OfSequence DEF WrittenAac, ThreadInv
  <1>9. CASE StopMp3
    BY <1>0, <1>9 DEF StopMp3, ring
  <1>10. CASE SkipMp3
    <2>1. Tail(mp3) \in Seq(U)
      BY <1>10, OfSequence DEF SkipMp3, Mp3GoesOn
    <2> QED BY <1>10, <2>1 DEF SkipMp3, ring
  <1>11. CASE DecodeMp3
    <2>1. Head(mp3) \in Units /\ Head(mp3) \in U /\ <<Head(mp3)>> \in Seq(U)
      BY <1>11, OfSequence DEF DecodeMp3, Mp3GoesOn, TypeOK
    <2>2. writing' = [at |-> writePos, data |-> <<Head(mp3)>>]
      BY <1>0, <1>11, <2>1, WritesOne DEF DecodeMp3
    <2> QED BY <1>11, <2>1, <2>2 DEF DecodeMp3
  <1>12. CASE WrittenMp3
    <2>1. writing'.data = <<>>
      BY <1>12 DEF WrittenMp3, Ring!WriteEnd, Ring!NoWrite
    <2> QED BY <1>0, <1>12, <2>1, OfSequence DEF WrittenMp3
  <1>13. CASE CallbackReads \/ CallbackPlays
    BY <1>13 DEF CallbackReads, CallbackPlays, CallbackKeeps, Ring!ReadBegin, Ring!ReadEnd,
                 network, decoder
  <1>14. CASE Holding \/ DownloadError \/ SetNetworkStreamFinished \/ BeginSwitch
              \/ (\E p \in Targets : BeginSeek(p)) \/ SeekUnknown \/ SeekTo \/ Poll \/ Underflow
              \/ UNCHANGED vars
    BY <1>14 DEF Holding, DownloadError, SetNetworkStreamFinished, BeginSwitch, BeginSeek,
         SeekUnknown, SeekTo, Poll, PollNearEnd, PollFinished, Underflow, CallbackKeeps, vars,
         network, decoder, ring
  <1>15. CASE Doze \/ FallAsleep \/ WaitForRoom \/ ChunkDone \/ CallDecodeMp3
    BY <1>15 DEF Doze, FallAsleep, WaitForRoom, ChunkDone, CallDecodeMp3, ring
  <1> QED BY <1>1, <1>2, <1>3, <1>4, <1>5, <1>6, <1>7, <1>8, <1>9, <1>10, <1>11, <1>12,
             <1>13, <1>14, <1>15, Receives DEF Next, Download, Switch, Seek, Decoder, Callback

LEMMA RingMoves ==
  ASSUME PipelineAssumption, TypeOK, Ring!IInv, [Next]_vars
  PROVE  Ring!WriteEnd \/ slots' = slots
  <1>1. [Ring!Next]_(Ring!vars)
    BY RingSteps
  <1> QED BY <1>1 DEF Ring!Next, Ring!vars, Ring!WriteBegin, Ring!ReadBegin, Ring!ReadEnd,
                      Ring!Clear

LEMMA Flow ==
  ASSUME PipelineAssumption, TypeOK, ThreadInv, Ring!IInv, NEW U, Holds(U), [Next]_vars,
         Pushes => Arrives(U)
  PROVE  Holds(U)'
  <1>1. InBuffers(U)'
    BY BufferFlow DEF Holds
  <1>2. InSlots(U)'
    BY RingMoves, WriteFills DEF Holds, InBuffers, InSlots
  <1> QED BY <1>1, <1>2 DEF Holds

-----------------------------------------------------------------------------
(* Types. *)

LEMMA CountIs ==
  ASSUME NEW s \in Seq(Units)
  PROVE  /\ OfCurrent(s) \in Nat /\ OfCurrent(s) <= Len(s)
         /\ (\A i \in 1 .. Len(s) : s[i].track = gen) => OfCurrent(s) = Len(s)
         /\ (\A i \in 1 .. Len(s) : s[i].track # gen) => OfCurrent(s) = 0
  <1> DEFINE N == 1 .. Len(s)
             C == {i \in N : s[i].track = gen}
  <1>1. DOMAIN s = N /\ Len(s) \in Nat
    BY OfSequence
  <1>2. IsFiniteSet(N) /\ Cardinality(N) = Len(s)
    BY <1>1, FS_Interval
  <1>3. C \subseteq N
    OBVIOUS
  <1>4. IsFiniteSet(C) /\ Cardinality(C) <= Cardinality(N) /\ Cardinality(C) \in Nat
    BY <1>2, <1>3, FS_Subset, FS_CardinalityType
  <1>5. OfCurrent(s) = Cardinality(C)
    BY <1>1 DEF OfCurrent
  <1>6. (\A i \in N : s[i].track = gen) => C = N
    OBVIOUS
  <1>7. (\A i \in N : s[i].track # gen) => C = {}
    OBVIOUS
  <1>8. Cardinality({}) = 0
    BY FS_EmptySet
  <1> HIDE DEF C, N
  <1> QED BY <1>2, <1>4, <1>5, <1>6, <1>7, <1>8 DEF N

\* What the callback plays was at the front of the buffer.
LEMMA CopiedIs ==
  ASSUME PipelineAssumption, Ring!IInv, Ring!IInv', Ring!ReadEnd
  PROVE  /\ Ring!Copied \in Seq(Units) /\ Len(Ring!Copied) = reading.n
         /\ reading.n \in 1 .. Len(Ring!Contents)
         /\ \A i \in 1 .. reading.n : Ring!Copied[i] = Ring!Contents[i]
         /\ Ring!Contents' = SubSeq(Ring!Contents, reading.n + 1, Len(Ring!Contents))
  <1>1. Ring!RingAssumption
    BY Constants
  <1>2. Ring!Contents \in Seq(Units)
    BY <1>1, RingContents
  <1>3. /\ reading.n \in 1 .. Len(Ring!Contents)
        /\ Ring!Contents' = SubSeq(Ring!Contents, reading.n + 1, Len(Ring!Contents))
        /\ Ring!Copied = SubSeq(Ring!Contents, 1, reading.n)
    BY <1>1, RingTakes
  <1>4. Len(Ring!Contents) \in Nat
    BY <1>2, OfSequence
  <1>5. reading.n \in 0 .. Len(Ring!Contents)
    BY <1>3, <1>4
  <1> DEFINE s == Ring!Contents
  <1>6. s \in Seq(Units) /\ reading.n \in 0 .. Len(s)
    BY <1>2, <1>5
  <1> HIDE DEF s
  <1>7. /\ SubSeq(s, 1, reading.n) \in Seq(Units) /\ Len(SubSeq(s, 1, reading.n)) = reading.n
        /\ \A i \in 1 .. reading.n : SubSeq(s, 1, reading.n)[i] = s[i]
    BY <1>6, CutSequence
  <1> QED BY <1>3, <1>7 DEF s

(* The decoder and the callback leave alone what is not theirs.             *)
LEMMA DecoderFrame == Decoder => UNCHANGED DecoderKeeps
  BY DEF Decoder, Doze, FallAsleep, TakeChunk, WaitForRoom, ChunkDone, PutAside, DecodeAac,
         FailAac, WrittenAac, CallDecodeMp3, StopMp3, SkipMp3, DecodeMp3, WrittenMp3, DecoderKeeps

LEMMA CallbackFrame == Callback => UNCHANGED CallbackKeeps
  BY DEF Callback, CallbackReads, CallbackPlays, Underflow

MainTypes ==
  /\ main \in {"idle", "delivering", "ending", "polling", "clearAudio", "clearNetwork",
               "seekAudio", "seekNetwork"}
  /\ gen \in 1 .. MaxTracks /\ stream \in 1 .. MaxTracks
  /\ format \in Formats /\ duration \in Durations
  /\ fetched \in 0 .. Total /\ pushed \in 0 .. fetched
  /\ inFlight \in BOOLEAN /\ broken \in BOOLEAN /\ paused \in BOOLEAN
  /\ seekTo \in Nat \cup {NoSeek}

DecoderTypes ==
  /\ netSize \in Nat /\ finished \in BOOLEAN /\ detected \in Codecs \cup {"none"}
  /\ pc \in {"test", "dozing", "asleep", "room", "demux", "writeAac", "call",
             "decodeMp3", "writeMp3"}
  /\ calls \in 0 .. 2 /\ atEof \in BOOLEAN /\ torn \in BOOLEAN

PlayerTypes ==
  /\ position \in Nat /\ heard \in Nat
  /\ {nearEnd, ended, nearSignal, endSignal, toldNear, toldEnd, haunted, quiet} \subseteq BOOLEAN

LEMMA MainTypesStep ==
  ASSUME PipelineAssumption, TypeOK, HandlerInv, [Next]_vars
  PROVE  MainTypes'
  <1>0. MainTypes
    BY DEF TypeOK, MainTypes
  <1> USE DEF MainTypes
  <1>1. CASE OnChunkFinished \/ DeliverChunk
    <2>1. /\ main' \in {"idle", "delivering", "ending"} /\ inFlight' \in BOOLEAN
          /\ fetched' \in 0 .. Total /\ pushed' \in 0 .. fetched'
      BY <1>1, Receives
    <2>2. CASE Pushes
      <3>1. /\ paused' \in BOOLEAN /\ UNCHANGED <<gen, stream, format, duration, broken, seekTo>>
        BY <1>0, <2>2, Zenon DEF Pushes, PushNetworkData, PushKeeps, clock
      <3> QED BY <1>0, <2>1, <3>1
    <2>3. CASE Holding
      BY <1>0, <2>1, <2>3 DEF Holding, clock
    <2> QED BY <1>1, <2>2, <2>3, Receives
  <1>2. CASE DownloadError \/ SetNetworkStreamFinished \/ BeginSwitch \/ SeekUnknown
    <2>1. pushed \in 0 .. Total /\ pushed \in 0 .. pushed
      <3>1. pushed \in Nat /\ Total \in Nat /\ pushed <= Total
        BY Types, Constants
      <3> QED BY <3>1
    <2> QED BY <1>0, <1>2, <2>1 DEF DownloadError, SetNetworkStreamFinished, BeginSwitch,
                                    SeekUnknown, streamer, clock
  <1>3. ASSUME NEW p \in Targets, BeginSeek(p) PROVE MainTypes'
    <2>1. seekTo' \in Nat
      BY <1>3, Types, Constants, LeastIs DEF BeginSeek
    <2> QED BY <1>0, <1>3, <2>1 DEF BeginSeek, clock
  <1>4. CASE ClearAudio \/ SeekAudio
    <2>1. gen' \in 1 .. MaxTracks
      <3>1. gen' = gen + 1 /\ gen < MaxTracks
        BY <1>4 DEF ClearAudio, SeekAudio, SetAudio, HandlerInv
      <3>2. gen \in Nat /\ MaxTracks \in Nat
        BY Types, Constants
      <3> QED BY <3>1, <3>2
    <2> QED BY <1>0, <1>4, <2>1 DEF ClearAudio, SeekAudio, SetAudio, streamer
  <1>5. CASE ClearNetwork \/ SeekNetwork
    <2>1. 0 \in 0 .. Total /\ 0 \in 0 .. 0
      BY Constants
    <2> QED BY <1>0, <1>5, <2>1 DEF ClearNetwork, SeekNetwork, streamer, clock
  <1>6. CASE SeekTo
    <2>1. seekTo \in Nat /\ seekTo <= duration /\ duration > 0
      BY <1>0, <1>6 DEF SeekTo, HandlerInv
    <2>2. Offset(seekTo) \in 0 .. Total /\ Offset(seekTo) \in 0 .. Offset(seekTo)
      BY <1>0, <2>1, OffsetIs
    <2> QED BY <1>0, <1>6, <2>2 DEF SeekTo, clock
  <1>7. CASE Poll
    <2>1. CASE PollNearEnd
      BY <1>0, <2>1 DEF PollNearEnd, streamer, clock
    <2>2. CASE PollFinished
      <3>1. paused' \in BOOLEAN /\ inFlight' \in BOOLEAN
        BY <1>0, <2>2, Zenon DEF PollFinished, ResumeDownload, PauseDownload
      <3> QED BY <1>0, <2>2, <3>1 DEF PollFinished, clock
    <2> QED BY <1>7, <2>1, <2>2 DEF Poll, PollNearEnd, PollFinished
  <1>8. CASE Decoder
    BY <1>0, <1>8, DecoderFrame DEF DecoderKeeps, streamer, clock
  <1>9. CASE Callback
    BY <1>0, <1>9, CallbackFrame DEF CallbackKeeps, streamer
  <1>10. CASE UNCHANGED vars
    BY <1>0, <1>10 DEF vars, streamer, clock
  <1> QED BY <1>1, <1>2, <1>3, <1>4, <1>5, <1>6, <1>7, <1>8, <1>9, <1>10
          DEF Next, Download, Switch, Seek

LEMMA DecoderTypesStep ==
  ASSUME PipelineAssumption, TypeOK, ThreadInv, Holds(Units)', [Next]_vars
  PROVE  DecoderTypes'
  <1>0. DecoderTypes
    BY DEF TypeOK, DecoderTypes
  <1>00. Len(aac') \in Nat /\ Len(mp3) \in Nat
    BY OfSequence, Types DEF Holds, InBuffers, InSlots
  <1> USE DEF DecoderTypes
  <1>1. CASE Pushes
    <2>1. netSize' \in Nat
      <3>1. netSize' = Len(aac') + Len(mp3)
        BY <1>1 DEF Pushes, PushNetworkData
      <3> QED BY <1>00, <3>1
    <2> QED BY <1>0, <1>1, <2>1 DEF Pushes, PushNetworkData, PushKeeps, Notify
  <1>2. CASE Holding \/ DownloadError \/ SetNetworkStreamFinished \/ BeginSwitch \/ SeekUnknown
             \/ SeekTo \/ Poll
    BY <1>0, <1>2 DEF Holding, DownloadError, SetNetworkStreamFinished, BeginSwitch, SeekUnknown,
         SeekTo, Poll, PollNearEnd, PollFinished, Notify, network, decoder
  <1>3. ASSUME NEW p \in Targets, BeginSeek(p) PROVE DecoderTypes'
    BY <1>0, <1>3 DEF BeginSeek, decoder
  <1>4. CASE ClearAudio \/ SeekAudio
    BY <1>0, <1>4 DEF ClearAudio, SeekAudio, SetAudio, network, decoder
  <1>5. CASE ClearNetwork \/ SeekNetwork
    <2>1. torn' \in BOOLEAN
      <3>1. torn' = DecodingMp3
        BY <1>5 DEF ClearNetwork, SeekNetwork, EmptyNetwork
      <3> QED BY <3>1 DEF DecodingMp3
    <2>2. detected' \in Codecs \cup {"none"}
      BY <1>0, <1>5 DEF ClearNetwork, SeekNetwork
    <2> QED BY <1>0, <1>5, <2>1, <2>2 DEF ClearNetwork, SeekNetwork, EmptyNetwork, Notify
  <1>6. CASE TakeChunk
    <2>1. netSize' \in Nat
      <3>1. netSize' = netSize \/ netSize' = Len(aac') + Len(mp3)
        BY <1>6 DEF TakeChunk
      <3> QED BY <1>0, <1>00, <3>1
    <2> QED BY <1>0, <1>6, <2>1 DEF TakeChunk, DecoderKeeps
  <1>7. CASE Doze \/ FallAsleep \/ WaitForRoom \/ ChunkDone
    BY <1>0, <1>7 DEF Doze, FallAsleep, WaitForRoom, ChunkDone, DecoderKeeps
  <1>8. CASE CallDecodeMp3
    <2>1. atEof' \in BOOLEAN
      BY <1>0, <1>8, Zenon DEF CallDecodeMp3
    <2>2. calls' \in 0 .. 2
      BY <1>0, <1>8 DEF CallDecodeMp3
    <2> QED BY <1>0, <1>8, <2>1, <2>2 DEF CallDecodeMp3, DecoderKeeps
  <1>9. CASE PutAside \/ DecodeAac
    <2>1. detected' \in Codecs
      BY <1>9 DEF PutAside, DecodeAac, Codecs
    <2>2. CASE PutAside
      BY <1>0, <2>1, <2>2 DEF PutAside, DecoderKeeps
    <2>3. CASE DecodeAac
      BY <1>0, <2>1, <2>3 DEF DecodeAac, DecoderKeeps
    <2> QED BY <1>9, <2>2, <2>3
  <1>10. CASE FailAac \/ WrittenAac \/ SkipMp3 \/ DecodeMp3 \/ WrittenMp3
    BY <1>0, <1>10 DEF FailAac, WrittenAac, SkipMp3, DecodeMp3, WrittenMp3, DecoderKeeps
  <1>11. CASE StopMp3
    <2>1. calls' \in 0 .. 2
      BY <1>11 DEF StopMp3, ThreadInv, DecodingMp3
    <2> QED BY <1>0, <1>11, <2>1 DEF StopMp3, DecoderKeeps
  <1>12. CASE Callback
    BY <1>0, <1>12, CallbackFrame DEF CallbackKeeps, network, decoder
  <1>13. CASE UNCHANGED vars
    BY <1>0, <1>13 DEF vars, network, decoder
  <1> QED BY <1>1, <1>2, <1>3, <1>4, <1>5, <1>6, <1>7, <1>8, <1>9, <1>10, <1>11, <1>12, <1>13,
             Receives DEF Next, Download, Switch, Seek, Decoder

LEMMA PlayerTypesStep ==
  ASSUME PipelineAssumption, TypeOK, HandlerInv, Ring!IInv, Ring!IInv', [Next]_vars
  PROVE  PlayerTypes'
  <1>0. PlayerTypes
    BY DEF TypeOK, PlayerTypes
  <1> USE DEF PlayerTypes
  <1>1. CASE Pushes
    <2>1. quiet' \in BOOLEAN
      BY <1>0, <1>1, Zenon DEF Pushes, PushNetworkData
    <2> QED BY <1>0, <1>1, <2>1 DEF Pushes, PushNetworkData, PushKeeps, signals, clock, told
  <1>2. CASE Holding \/ DownloadError \/ SetNetworkStreamFinished \/ BeginSwitch \/ SeekTo
             \/ ClearNetwork \/ SeekNetwork \/ (\E p \in Targets : BeginSeek(p)) \/ SeekUnknown
    BY <1>0, <1>2 DEF Holding, DownloadError, SetNetworkStreamFinished, BeginSwitch, SeekTo,
         ClearNetwork, SeekNetwork, BeginSeek, SeekUnknown, signals, clock, told, history
  <1>3. CASE ClearAudio
    BY <1>3, Constants DEF ClearAudio, SetAudio
  <1>4. CASE SeekAudio
    <2>1. seekTo \in Nat /\ seekTo <= duration /\ duration > 0 /\ duration \in Durations
      BY <1>4 DEF SeekAudio, HandlerInv, Stopped, TypeOK
    <2>2. Offset(seekTo) \in 0 .. Total
      BY <2>1, OffsetIs
    <2>3. position' \in Nat /\ heard' \in Nat
      BY <1>4, <2>1, <2>2, Constants DEF SeekAudio, SetAudio
    <2>4. quiet' \in BOOLEAN
      BY <1>4, Zenon DEF SeekAudio, SetAudio
    <2> QED BY <1>4, <2>3, <2>4 DEF SeekAudio, SetAudio
  <1>5. CASE Poll
    BY <1>0, <1>5 DEF Poll, PollNearEnd, PollFinished, clock, history
  <1>6. CASE Decoder
    BY <1>0, <1>6, DecoderFrame DEF DecoderKeeps, signals, clock, told, history
  <1>7. CASE CallbackReads
    BY <1>0, <1>7 DEF CallbackReads, CallbackKeeps, signals, told
  <1>8. CASE CallbackPlays
    <2>1. OfCurrent(Ring!Copied) \in Nat /\ reading.n \in Nat
      BY <1>8, CopiedIs, CountIs, Types DEF CallbackPlays
    <2> QED BY <1>0, <1>8, <2>1 DEF CallbackPlays, Trigger, CallbackKeeps, told
  <1>9. CASE Underflow
    BY <1>0, <1>9, Types DEF Underflow, Trigger, CallbackKeeps, told
  <1>10. CASE UNCHANGED vars
    BY <1>0, <1>10 DEF vars, signals, clock, told, history
  <1> QED BY <1>1, <1>2, <1>3, <1>4, <1>5, <1>6, <1>7, <1>8, <1>9, <1>10,
             Receives DEF Next, Download, Switch, Seek, Callback

LEMMA TypeStep ==
  ASSUME PipelineAssumption, TypeOK, ThreadInv, HandlerInv, Ring!IInv, [Next]_vars
  PROVE  TypeOK' /\ Ring!IInv' /\ Holds(Units)'
  <1>1. Ring!RingAssumption
    BY Constants
  <1>2. Ring!IInv'
    BY <1>1, RingSteps, RingGoesOn
  <1>3. Ring!TypeOK'
    BY <1>2 DEF Ring!IInv
  <1>4. Holds(Units)
    BY DEF Holds, InBuffers, InSlots, TypeOK, Ring!TypeOK
  <1>5. Arrives(Units)
    BY UnitsArrive
  <1>6. Holds(Units)'
    BY <1>4, <1>5, Flow
  <1>7. MainTypes' /\ DecoderTypes' /\ PlayerTypes'
    BY <1>2, <1>6, MainTypesStep, DecoderTypesStep, PlayerTypesStep
  <1>8. aac' \in Seq(Units) /\ mp3' \in Seq(Units) /\ local' \in Seq(Units)
    BY <1>6 DEF Holds, InBuffers, InSlots
  <1>9. TypeOK'
    BY <1>3, <1>7, <1>8 DEF TypeOK, MainTypes, DecoderTypes, PlayerTypes
  <1> QED BY <1>2, <1>6, <1>9

(* The main thread leaves alone what the decoder holds, except where it      *)
(* empties the buffers.                                                     *)
LEMMA ThreadStep ==
  ASSUME PipelineAssumption, TypeOK, ThreadInv, Ring!IInv, [Next]_vars
  PROVE  ThreadInv'
  <1>0. /\ Take \in Nat /\ Len(local) \in Nat /\ Ring!RingAssumption
        /\ aac \in Seq(Units) /\ mp3 \in Seq(Units) /\ local \in Seq(Units)
    BY Constants, Types DEF TypeOK
  <1> USE DEF ThreadInv, DecodingMp3
  <1>1. CASE Pushes
    <2>1. pc # "dozing"
      BY <1>1 DEF Pushes, PushNetworkData, NetworkFree
    <2> QED BY <1>1, <2>1 DEF Pushes, PushNetworkData, PushKeeps, Notify, ring
  <1>2. CASE SetNetworkStreamFinished
    BY <1>2 DEF SetNetworkStreamFinished, Notify, ring
  <1>3. CASE ClearAudio \/ SeekAudio
    <2>1. UNCHANGED <<network, decoder, writing>>
      BY <1>3 DEF ClearAudio, SeekAudio, SetAudio, Ring!Clear
    <2> QED BY <2>1 DEF network, decoder
  <1>4. CASE ClearNetwork \/ SeekNetwork
    <2>1. mp3' = <<>> \/ (torn' /\ mp3' = mp3)
      BY <1>4 DEF ClearNetwork, SeekNetwork, EmptyNetwork, ClearedMp3
    <2>2. /\ torn' = DecodingMp3 /\ UNCHANGED <<calls, local, writing>>
          /\ aac' = <<>> /\ pc' \in {pc, "test"} /\ (pc # "asleep" => pc' = pc)
      BY <1>4 DEF ClearNetwork, SeekNetwork, EmptyNetwork, Notify, ring
    <2> QED BY <2>1, <2>2
  <1>5. CASE TakeChunk
    <2>1. Ring!Least(Take, Len(aac)) \in 0 .. Len(aac) /\ Ring!Least(Take, Len(aac)) <= Take
      BY TakenIs
    <2>2. Len(local') <= Take
      BY <1>0, <1>5, <2>1, CutSequence DEF TakeChunk
    <2> QED BY <1>5, <2>2 DEF TakeChunk, ring
  <1>6. CASE Doze \/ FallAsleep \/ WaitForRoom \/ ChunkDone
    BY <1>6 DEF Doze, FallAsleep, WaitForRoom, ChunkDone, HasAac, ring
  <1>7. CASE PutAside
    <2>1. local' = <<>> /\ Len(<<>>) = 0 /\ detected' = "mp3" /\ pc' = "call"
      BY <1>7 DEF PutAside
    <2> QED BY <1>0, <1>7, <2>1 DEF PutAside, ring
  <1>8. CASE DecodeAac
    <2>1. writing' = [at |-> writePos, data |-> <<Head(local)>>]
      <3>1. Head(local) \in Units
        BY <1>0, <1>8, OfSequence DEF DecodeAac
      <3> QED BY <1>0, <1>8, <3>1, WritesOne DEF DecodeAac
    <2>2. mp3 = <<>>
      BY <1>8 DEF DecodeAac, Detected
    <2> QED BY <1>8, <2>1, <2>2 DEF DecodeAac
  <1>9. CASE FailAac
    <2>1. Len(Tail(local)) = Len(local) - 1
      BY <1>0, <1>9, OfSequence DEF FailAac
    <2> QED BY <1>0, <1>9, <2>1 DEF FailAac, ring
  <1>10. CASE WrittenAac
    <2>1. Len(Tail(local)) = Len(local) - 1 /\ writing'.data = <<>>
      BY <1>0, <1>10, OfSequence DEF WrittenAac, Ring!WriteEnd, Ring!NoWrite
    <2> QED BY <1>0, <1>10, <2>1 DEF WrittenAac
  <1>11. CASE CallDecodeMp3
    <2>1. calls # 0 => calls \in 1 .. 2
      BY DEF TypeOK
    <2> QED BY <1>11, <2>1 DEF CallDecodeMp3, ring
  <1>12. CASE StopMp3 \/ SkipMp3
    <2>1. mp3' # <<>> => mp3 # <<>>
      BY <1>12 DEF StopMp3, SkipMp3, Mp3GoesOn
    <2> QED BY <1>12, <2>1 DEF StopMp3, SkipMp3, ring
  <1>13. CASE DecodeMp3
    <2>1. writing' = [at |-> writePos, data |-> <<Head(mp3)>>]
      <3>1. Head(mp3) \in Units
        BY <1>0, <1>13, OfSequence DEF DecodeMp3, Mp3GoesOn
      <3> QED BY <1>0, <1>13, <3>1, WritesOne DEF DecodeMp3
    <2>2. mp3 # <<>> /\ Len(<<Head(mp3)>>) = 1
      BY <1>13 DEF DecodeMp3, Mp3GoesOn
    <2> QED BY <1>13, <2>1, <2>2 DEF DecodeMp3
  <1>14. CASE WrittenMp3
    <2>1. writing'.data = <<>> /\ (mp3' # <<>> => mp3 # <<>>)
      BY <1>14 DEF WrittenMp3, Ring!WriteEnd, Ring!NoWrite
    <2> QED BY <1>14, <2>1 DEF WrittenMp3
  <1>15. CASE Callback
    BY <1>15, CallbackFrame DEF Callback, CallbackReads, CallbackPlays, Underflow,
         Ring!ReadBegin, Ring!ReadEnd, CallbackKeeps, network, decoder, ring
  <1>16. CASE Holding \/ DownloadError \/ BeginSwitch
              \/ (\E p \in Targets : BeginSeek(p)) \/ SeekUnknown
              \/ SeekTo \/ Poll \/ UNCHANGED vars
    BY <1>16 DEF Holding, DownloadError, BeginSwitch, BeginSeek, SeekUnknown, SeekTo, Poll,
         PollNearEnd, PollFinished, vars, network, decoder, ring
  <1> QED BY <1>1, <1>2, <1>3, <1>4, <1>5, <1>6, <1>7, <1>8, <1>9, <1>10, <1>11, <1>12,
             <1>13, <1>14, <1>15, <1>16, Receives DEF Next, Download, Switch, Seek, Decoder

-----------------------------------------------------------------------------
(* How old the units are. *)

OfTracks(T) == {u \in Units : u.track \in T}
Known == OfTracks(0 .. gen)
Old == OfTracks(0 .. gen - 1)

\* A write that a clear has overtaken.
Spoilt == writing.data # <<>> /\ writing.at # writePos

\* Nothing comes from the future; until the new download begins, and where a
\* clear has come between two steps of the decoder, all there is is old.
AgeInv ==
  /\ Holds(Known)
  /\ stream < gen => Holds(Old)
  /\ torn => mp3 \in Seq(Old)
  /\ torn \/ Spoilt => slots \in [Ring!Slots -> Old] /\ writing.data \in Seq(Old)

LEMMA GenStep ==
  ASSUME [Next]_vars
  PROVE  \/ gen' = gen /\ stream' \in {stream, gen}
         \/ gen' = gen + 1 /\ stream' = stream /\ (ClearAudio \/ SeekAudio)
  <1>1. CASE Download \/ BeginSwitch \/ ClearNetwork
             \/ (\E p \in Targets : BeginSeek(p)) \/ SeekUnknown
             \/ SeekNetwork \/ SeekTo \/ Poll \/ UNCHANGED vars
    BY <1>1 DEF Download, OnChunkFinished, DeliverChunk, PushNetworkData, PushKeeps,
         DownloadError, SetNetworkStreamFinished, BeginSwitch, ClearNetwork, BeginSeek,
         SeekUnknown, SeekNetwork, SeekTo, Poll, PollNearEnd, PollFinished, vars, streamer
  <1>2. CASE ClearAudio \/ SeekAudio
    BY <1>2 DEF ClearAudio, SeekAudio, SetAudio, streamer
  <1>3. CASE Decoder
    BY <1>3, DecoderFrame DEF DecoderKeeps, streamer
  <1>4. CASE Callback
    BY <1>4, CallbackFrame DEF CallbackKeeps, streamer
  <1> QED BY <1>1, <1>2, <1>3, <1>4 DEF Next, Switch, Seek

LEMMA AgeStep ==
  ASSUME PipelineAssumption, TypeOK, ThreadInv, HandlerInv, AgeInv, Ring!IInv, Ring!IInv',
         [Next]_vars
  PROVE  AgeInv'
  <1>0. gen \in Nat /\ stream \in Nat /\ stream <= gen
    BY Types DEF HandlerInv
  <1>1. Arrives(Known)
    <2>1. \A u \in Units : u.track = stream => u \in Known
      BY <1>0 DEF Known, OfTracks
    <2> QED BY <2>1, UnitsArrive DEF Arrives
  <1>2. stream < gen => Arrives(Old)
    <2>1. stream < gen => \A u \in Units : u.track = stream => u \in Old
      BY <1>0 DEF Old, OfTracks
    <2> QED BY <2>1, UnitsArrive DEF Arrives
  <1>3. \A U : Holds(U) /\ Arrives(U) => Holds(U)'
    BY Flow
  <1>4. Known \subseteq Known' /\ Old \subseteq Old' /\ (gen' = gen + 1 => Old' = Known)
        /\ (gen' = gen => Old' = Old)
    <2>1. CASE gen' = gen
      <3>1. gen' # gen + 1
        BY <1>0, <2>1
      <3>2. Known' = Known /\ Old' = Old
        BY <2>1 DEF Known, Old
      <3> QED BY <3>1, <3>2
    <2>2. CASE gen' = gen + 1
      <3>1. gen' # gen /\ gen' - 1 = gen
        BY <1>0, <2>2
      <3>2. Old' = Known
        BY <3>1 DEF Known, Old
      <3>3. Known \subseteq Known' /\ Old \subseteq Known
        BY <1>0, <2>2 DEF Known, Old, OfTracks
      <3> QED BY <3>1, <3>2, <3>3
    <2> QED BY <2>1, <2>2, GenStep
  <1>5. Holds(Known)'
    <2>1. /\ aac' \in Seq(Known) /\ mp3' \in Seq(Known) /\ local' \in Seq(Known)
          /\ writing'.data \in Seq(Known) /\ slots' \in [Ring!Slots -> Known]
      BY <1>1, <1>3 DEF AgeInv, Holds, InBuffers, InSlots
    <2> QED BY <1>4, <2>1 DEF Holds, InBuffers, InSlots
  <1>6. stream' < gen' => Holds(Old)'
    <2>1. CASE gen' = gen + 1
      <3>1. /\ aac' \in Seq(Known) /\ mp3' \in Seq(Known) /\ local' \in Seq(Known)
            /\ writing'.data \in Seq(Known) /\ slots' \in [Ring!Slots -> Known]
        BY <1>1, <1>3 DEF AgeInv, Holds, InBuffers, InSlots
      <3> QED BY <1>4, <2>1, <3>1 DEF Holds, InBuffers, InSlots
    <2>2. CASE gen' = gen
      <3> SUFFICES ASSUME stream' < gen' PROVE Holds(Old)'
        OBVIOUS
      <3>1. stream < gen
        BY <1>0, <2>2, GenStep
      <3>2. /\ aac' \in Seq(Old) /\ mp3' \in Seq(Old) /\ local' \in Seq(Old)
            /\ writing'.data \in Seq(Old) /\ slots' \in [Ring!Slots -> Old]
        BY <1>2, <1>3, <3>1 DEF AgeInv, Holds, InBuffers, InSlots
      <3> QED BY <1>4, <2>2, <3>2 DEF Holds, InBuffers, InSlots
    <2> QED BY <2>1, <2>2, GenStep
  <1>7. CASE gen' = gen + 1 \/ stream < gen
    <2>1. /\ mp3' \in Seq(Old') /\ slots' \in [Ring!Slots -> Old']
          /\ writing'.data \in Seq(Old')
      <3>1. CASE gen' = gen + 1
        BY <1>1, <1>3, <1>4, <3>1 DEF AgeInv, Holds, InBuffers, InSlots
      <3>2. CASE stream < gen
        <4>1. mp3' \in Seq(Old) /\ slots' \in [Ring!Slots -> Old] /\ writing'.data \in Seq(Old)
          BY <1>2, <1>3, <3>2 DEF AgeInv, Holds, InBuffers, InSlots
        <4> QED BY <1>4, <4>1
      <3> QED BY <1>7, <3>1, <3>2
    <2> QED BY <1>5, <1>6, <2>1 DEF AgeInv
  <1>8. CASE gen' = gen /\ ~(stream < gen)
    <2>0. /\ Old' = Old /\ Ring!RingAssumption /\ <<>> \in Seq(Old)
          /\ mp3 \in Seq(Units) /\ local \in Seq(Units)
      BY <1>4, <1>8, Constants DEF TypeOK
    <2>1. CASE ~Decoder
      <3>1. UNCHANGED <<mp3, torn, slots, writePos, writing>>
        <4>1. ~(ClearNetwork \/ SeekNetwork \/ ClearAudio \/ SeekAudio)
          BY <1>0, <1>8 DEF ClearNetwork, SeekNetwork, ClearAudio, SeekAudio, SetAudio,
                            HandlerInv, Stopped
        <4>2. CASE Download \/ BeginSwitch \/ (\E p \in Targets : BeginSeek(p)) \/ SeekUnknown
                   \/ SeekTo \/ Poll
                   \/ UNCHANGED vars
          BY <4>2 DEF Download, OnChunkFinished, DeliverChunk, PushNetworkData, PushKeeps,
         DownloadError, SetNetworkStreamFinished, BeginSwitch, BeginSeek, SeekUnknown, SeekTo,
         Poll, PollNearEnd, PollFinished, vars, ring, decoder
        <4>3. CASE Callback
          BY <4>3, CallbackFrame DEF Callback, CallbackReads, CallbackPlays, Underflow,
               Ring!ReadBegin, Ring!ReadEnd, CallbackKeeps, decoder, ring
        <4> QED BY <2>1, <4>1, <4>2, <4>3 DEF Next, Switch, Seek
      <3> QED BY <1>5, <1>6, <2>0, <3>1 DEF AgeInv, Spoilt
    <2>2. CASE WrittenAac \/ WrittenMp3
      <3>1. Ring!WriteEnd
        BY <2>2 DEF WrittenAac, WrittenMp3
      <3>2. torn \/ Spoilt => slots' \in [Ring!Slots -> Old]
        BY <3>1, WriteFills DEF AgeInv
      <3>3. writing'.data = <<>> /\ torn' = torn
        BY <2>2, <3>1 DEF WrittenAac, WrittenMp3, Ring!WriteEnd, Ring!NoWrite
      <3>4. torn => mp3' \in Seq(Old)
        <4>1. CASE WrittenAac
          BY <4>1 DEF WrittenAac, AgeInv
        <4>2. CASE WrittenMp3 /\ mp3 = <<>>
          BY <2>0, <4>2 DEF WrittenMp3
        <4>3. CASE WrittenMp3 /\ mp3 # <<>>
          <5>1. torn => mp3 \in Seq(Old)
            BY DEF AgeInv
          <5>2. torn => Tail(mp3) \in Seq(Old)
            BY <4>3, <5>1, OfSequence
          <5> QED BY <4>3, <5>2 DEF WrittenMp3
        <4> QED BY <2>2, <4>1, <4>2, <4>3
      <3> QED BY <1>5, <1>6, <2>0, <3>2, <3>3, <3>4 DEF AgeInv, Spoilt
    <2>3. CASE DecodeAac \/ DecodeMp3
      <3>1. CASE DecodeAac
        <4>1. Head(local) \in Units
          BY <2>0, <3>1, OfSequence DEF DecodeAac
        <4>2. writing' = [at |-> writePos, data |-> <<Head(local)>>] /\ UNCHANGED writePos
          BY <2>0, <3>1, <4>1, WritesOne DEF DecodeAac
        <4>3. ~torn' /\ ~Spoilt'
          BY <3>1, <4>2 DEF DecodeAac, ThreadInv, DecodingMp3, Spoilt
        <4> QED BY <1>5, <1>6, <4>3 DEF AgeInv
      <3>2. CASE DecodeMp3
        <4>1. Head(mp3) \in Units /\ mp3 # <<>>
          BY <2>0, <3>2, OfSequence DEF DecodeMp3, Mp3GoesOn
        <4>2. /\ writing' = [at |-> writePos, data |-> <<Head(mp3)>>]
              /\ UNCHANGED <<writePos, slots, mp3, torn>>
          BY <2>0, <3>2, <4>1, WritesOne DEF DecodeMp3
        <4>3. ~Spoilt' /\ (torn => <<Head(mp3)>> \in Seq(Old))
          BY <4>1, <4>2, OfSequence DEF Spoilt, AgeInv
        <4> QED BY <1>5, <1>6, <2>0, <4>2, <4>3 DEF AgeInv
      <3> QED BY <2>3, <3>1, <3>2
    <2>4. CASE StopMp3 \/ SkipMp3
      <3>1. UNCHANGED <<slots, writePos, writing>> /\ (torn' => torn)
        BY <2>4 DEF StopMp3, SkipMp3, ring
      <3>2. torn' => mp3' \in Seq(Old)
        <4>1. CASE StopMp3
          BY <4>1 DEF StopMp3
        <4>2. CASE SkipMp3
          <5>1. torn' = torn /\ mp3 # <<>> /\ mp3' = Tail(mp3)
            BY <4>2 DEF SkipMp3, Mp3GoesOn
          <5>2. torn => mp3 \in Seq(Old)
            BY DEF AgeInv
          <5> QED BY <5>1, <5>2, OfSequence
        <4> QED BY <2>4, <4>1, <4>2
      <3> QED BY <1>5, <1>6, <2>0, <3>1, <3>2 DEF AgeInv, Spoilt
    <2>5. CASE Doze \/ FallAsleep \/ TakeChunk \/ WaitForRoom \/ ChunkDone \/ PutAside \/ FailAac
               \/ CallDecodeMp3
      <3>1. ~torn' /\ UNCHANGED <<slots, writePos, writing>>
        BY <2>5 DEF Doze, FallAsleep, TakeChunk, WaitForRoom, ChunkDone, PutAside, FailAac,
             CallDecodeMp3, ThreadInv, DecodingMp3, ring
      <3> QED BY <1>5, <1>6, <2>0, <3>1 DEF AgeInv, Spoilt
    <2> QED BY <2>1, <2>2, <2>3, <2>4, <2>5 DEF Decoder
  <1> QED BY <1>0, <1>7, <1>8, GenStep

(* As long as all there is is old, nothing of the current track is heard.   *)
LEMMA OldIsSilent ==
  ASSUME PipelineAssumption, TypeOK, AgeInv, Ring!IInv, Ring!IInv', CallbackPlays, stream < gen
  PROVE  heard' = heard
  <1>0. Ring!RingAssumption /\ gen \in Nat /\ heard \in Nat /\ Ring!ReadEnd
    BY Constants, Types DEF CallbackPlays
  <1>1. Ring!Contents \in Seq(Old)
    BY <1>0, RingContents DEF AgeInv, Holds, InBuffers, InSlots
  <1>2. \A i \in 1 .. Len(Ring!Contents) : Ring!Contents[i].track # gen
    <2>1. \A u \in Old : u.track # gen
      BY <1>0 DEF Old, OfTracks
    <2> QED BY <1>1, <2>1, OfSequence
  <1>3. /\ Ring!Copied \in Seq(Units) /\ Len(Ring!Copied) = reading.n
        /\ \A i \in 1 .. reading.n : Ring!Copied[i].track # gen
    <2>1. /\ Ring!Copied \in Seq(Units) /\ Len(Ring!Copied) = reading.n
          /\ reading.n \in 1 .. Len(Ring!Contents)
          /\ \A i \in 1 .. reading.n : Ring!Copied[i] = Ring!Contents[i]
      BY <1>0, CopiedIs
    <2>2. Len(Ring!Contents) \in Nat
      BY <1>1, OfSequence
    <2>3. ASSUME NEW i \in 1 .. reading.n PROVE Ring!Copied[i].track # gen
      <3>1. i \in 1 .. Len(Ring!Contents)
        BY <2>1, <2>2
      <3> QED BY <1>2, <2>1, <3>1, Zenon
    <2> QED BY <2>1, <2>3
  <1>4. OfCurrent(Ring!Copied) = 0
    BY <1>3, CountIs
  <1> QED BY <1>0, <1>4 DEF CallbackPlays

(* Between the parts of a handler, and until SeekTo comes, the download is   *)
(* for what was played before.                                              *)
LEMMA HandlerStep ==
  ASSUME PipelineAssumption, TypeOK, HandlerInv, AgeInv, Ring!IInv, Ring!IInv', [Next]_vars
  PROVE  HandlerInv'
  <1>0. gen \in Nat /\ stream \in Nat /\ MaxTracks \in Nat /\ duration \in Nat /\ heard \in Nat
    BY Types, Constants
  <1> USE DEF HandlerInv, Stopped
  <1>1. CASE OnChunkFinished \/ DeliverChunk \/ DownloadError \/ SetNetworkStreamFinished
             \/ BeginSwitch \/ SeekUnknown \/ Poll \/ SeekNetwork
    BY <1>0, <1>1 DEF OnChunkFinished, DeliverChunk, PushNetworkData, PushKeeps, DownloadError,
         SetNetworkStreamFinished, BeginSwitch, SeekUnknown, Poll, PollNearEnd, PollFinished,
         SeekNetwork, Offset, streamer, clock, history
  <1>2. ASSUME NEW p \in Targets, BeginSeek(p) PROVE HandlerInv'
    <2>1. seekTo' \in Nat /\ seekTo' <= duration /\ duration > 0 /\ seekTo' # NoSeek
      BY <1>0, <1>2, Constants, LeastIs DEF BeginSeek, NoSeek
    <2> QED BY <1>0, <1>2, <2>1 DEF BeginSeek, clock
  <1>3. CASE ClearAudio
    BY <1>0, <1>3 DEF ClearAudio, SetAudio, streamer
  <1>4. CASE SeekAudio
    <2>1. gen' = gen + 1 /\ heard' = Offset(seekTo) /\ UNCHANGED <<duration, streamer>>
      BY <1>4 DEF SeekAudio, SetAudio
    <2>2. Offset(seekTo)' = Offset(seekTo)
      BY <2>1 DEF Offset, streamer
    <2> QED BY <1>0, <1>4, <2>1, <2>2 DEF SeekAudio, streamer
  <1>5. CASE ClearNetwork
    BY <1>0, <1>5 DEF ClearNetwork, clock, history
  <1>6. CASE SeekTo
    BY <1>0, <1>6 DEF SeekTo, clock, history
  <1>7. CASE Decoder
    BY <1>7, DecoderFrame DEF DecoderKeeps, Offset, streamer, clock, history
  <1>8. CASE CallbackReads \/ Underflow
    BY <1>8 DEF CallbackReads, Underflow, CallbackKeeps, Offset, streamer
  <1>9. CASE CallbackPlays
    <2>1. stream < gen => heard' = heard
      BY <1>0, <1>9, OldIsSilent
    <2>2. UNCHANGED <<main, gen, streamer, duration>>
      BY <1>9 DEF CallbackPlays, CallbackKeeps
    <2>3. Offset(seekTo)' = Offset(seekTo)
      BY <2>2 DEF Offset, streamer
    <2> QED BY <2>1, <2>2, <2>3 DEF streamer
  <1>10. CASE UNCHANGED vars
    BY <1>10 DEF vars, Offset, streamer, clock, history
  <1> QED BY <1>1, <1>2, <1>3, <1>4, <1>5, <1>6, <1>7, <1>8, <1>9, <1>10
          DEF Next, Download, Switch, Seek, Callback

-----------------------------------------------------------------------------
(* Types, and the ring buffer's part. *)

(* What is true of every state: the types, where the threads are, which      *)
(* download it is, how old the data is, and the ring buffer's own part.      *)
IInv == TypeOK /\ ThreadInv /\ HandlerInv /\ AgeInv /\ Ring!IInv

LEMMA Starts == ASSUME PipelineAssumption, Init PROVE IInv
  <1>1. Ring!IInv /\ Ring!TypeOK /\ Ring!Init
    BY Constants, RingStarts DEF Init, Ring!IInv
  <1>2. <<>> \in Seq(Units) /\ 1 \in 1 .. MaxTracks /\ 0 \in 0 .. Total
    BY Constants
  <1>3. TypeOK
    <2>1. {nearEnd, ended, nearSignal, endSignal, toldNear, toldEnd, haunted, quiet}
            \subseteq BOOLEAN
      BY DEF Init
    <2>2. /\ main = "idle" /\ pc = "test" /\ detected = "none" /\ calls = 0 /\ seekTo = NoSeek
          /\ gen = 1 /\ stream = 1 /\ fetched = 0 /\ pushed = 0
          /\ netSize = 0 /\ position = 0 /\ heard = 0
          /\ format \in Formats /\ duration \in Durations
          /\ aac = <<>> /\ mp3 = <<>> /\ local = <<>>
      BY DEF Init
    <2>3. /\ inFlight \in BOOLEAN /\ broken \in BOOLEAN /\ paused \in BOOLEAN
          /\ finished \in BOOLEAN /\ atEof \in BOOLEAN /\ torn \in BOOLEAN
      BY DEF Init
    <2> QED BY <1>1, <1>2, <2>1, <2>2, <2>3 DEF TypeOK
  <1>4. ThreadInv
    BY <1>1, Constants DEF Init, ThreadInv, DecodingMp3, Ring!Init, Ring!NoWrite, Ring!NoRead,
       Stopped
  <1>5. HandlerInv
    BY DEF Init, HandlerInv, Stopped
  <1>6. AgeInv
    <2>1. Silence \in Units /\ Silence.track = 0 /\ gen = 1
      BY Constants DEF Init, Silence, Units, Codecs
    <2>2. Silence \in Old /\ Silence \in Known
      BY <2>1 DEF Old, Known, OfTracks
    <2>3. slots \in [Ring!Slots -> Known] /\ slots \in [Ring!Slots -> Old]
      BY <1>1, <2>2 DEF Ring!Init
    <2>4. writing.data = <<>>
      BY <1>1 DEF Ring!Init, Ring!NoWrite
    <2> QED BY <2>3, <2>4 DEF Init, AgeInv, Holds, InBuffers, InSlots, Spoilt
  <1> QED BY <1>1, <1>3, <1>4, <1>5, <1>6 DEF IInv

LEMMA Keeps == ASSUME PipelineAssumption, IInv, [Next]_vars PROVE IInv'
  BY TypeStep, ThreadStep, AgeStep, HandlerStep DEF IInv

(* Each thread holds what the place it is at lets it hold, nothing in the    *)
(* buffers is of a track to come, the download is of the track or of one     *)
(* before it, and the ring buffer's own invariant holds within the engine.   *)
THEOREM Invariance == Spec => []IInv
  BY Starts, Keeps, PipelineAssumption, PTL DEF Spec

(* The engine's members and what its threads hold have their types, also    *)
(* across replaced tracks, seeks and downloads that break off.              *)
THEOREM TypeCorrect == Spec => []TypeOK
  <1>1. IInv => TypeOK
    BY DEF IInv
  <1> QED BY <1>1, Invariance, PTL

(* Neither a replaced track nor a seek, which clear the ring buffer while   *)
(* the decoder may be writing, lets decoder and callback copy to and from   *)
(* the same part of it.                                                     *)
THEOREM SlotsApart == Spec => []NoSharedSlot
  <1>1. IInv => NoSharedSlot
    BY PipelineAssumption, Constants, RingApart DEF IInv, NoSharedSlot
  <1> QED BY <1>1, Invariance, PTL

LEMMA SameQueue ==
  /\ RB!Queue!Init => Ring!Queue!Init
  /\ [RB!Queue!Next]_(RB!Queue!vars) => [Ring!Queue!Next]_(Ring!Queue!vars)
  BY SameRing
     DEF RB!Queue!Init, RB!Queue!Next, RB!Queue!vars, RB!Queue!Start, RB!Queue!Put,
         RB!Queue!PutSpoilt, RB!Queue!Get, RB!Queue!Clear, Ring!Queue!Init, Ring!Queue!Next,
         Ring!Queue!vars, Ring!Queue!Start, Ring!Queue!Put, Ring!Queue!PutSpoilt,
         Ring!Queue!Get, Ring!Queue!Clear

(* To decoder and callback the ring buffer is a queue, whatever the main     *)
(* thread does to it in between.                                            *)
THEOREM RingQueues == Spec => RingIsQueue
  <1>1. Init => Ring!Queue!Init
    BY PipelineAssumption, Constants, RB!QueueInit, SameQueue, SameRing DEF Init
  <1>2. IInv /\ [Next]_vars /\ IInv' => [Ring!Queue!Next]_(Ring!Queue!vars)
    <2> SUFFICES ASSUME IInv, [Next]_vars, IInv' PROVE [Ring!Queue!Next]_(Ring!Queue!vars)
      OBVIOUS
    <2>1. Ring!RingAssumption /\ Ring!IInv /\ Ring!IInv' /\ [Ring!Next]_(Ring!vars)
      BY PipelineAssumption, Constants, RingSteps DEF IInv
    <2>2. RB!RingAssumption /\ RB!IInv /\ RB!TypeOK' /\ [RB!Next]_(RB!vars)
      BY <2>1, SameRing DEF RB!IInv
    <2> QED BY <2>2, RB!QueueStep, SameQueue
  <1> QED BY <1>1, <1>2, Invariance, PTL DEF Spec, RingIsQueue, Ring!IsPcmQueue, Ring!Queue!Spec

-----------------------------------------------------------------------------
(* The signals. *)

\* The trigger of the end never comes without that of its nearness, and what has
\* been triggered is signalled or has been told.
NearInv ==
  /\ ended => nearEnd
  /\ nearEnd => nearSignal \/ toldNear
  /\ endSignal => ended
  /\ toldEnd => toldNear \/ nearSignal

LEMMA Triggers ==
  ASSUME PipelineAssumption, TypeOK, NearInv, NEW p \in Nat, Trigger(p), UNCHANGED told
  PROVE  NearInv'
  <1>1. duration \in Nat /\ NearEnd \in Nat
    BY Types, Constants
  <1>2. p >= duration => p >= duration - NearEnd
    BY <1>1
  <1> QED BY <1>2 DEF NearInv, Trigger, told

LEMMA NearStep ==
  ASSUME PipelineAssumption, TypeOK, NearInv, [Next]_vars
  PROVE  NearInv'
  <1>1. CASE \/ Download \/ Decoder \/ BeginSwitch \/ ClearNetwork \/ SeekNetwork \/ SeekTo
             \/ (\E p \in Targets : BeginSeek(p)) \/ SeekUnknown
             \/ CallbackReads \/ UNCHANGED vars
    <2>1. UNCHANGED <<signals, told>>
      BY <1>1, DecoderFrame DEF Download, OnChunkFinished, DeliverChunk,
         PushNetworkData, PushKeeps, DownloadError, SetNetworkStreamFinished,
           BeginSwitch, ClearNetwork, SeekNetwork, SeekTo, BeginSeek, SeekUnknown, CallbackReads,
           CallbackKeeps, DecoderKeeps, vars
    <2> QED BY <2>1 DEF NearInv, signals, told
  <1>2. CASE ClearAudio \/ SeekAudio
    BY <1>2 DEF ClearAudio, SeekAudio, SetAudio, NearInv
  <1>3. CASE Poll
    <2>1. CASE PollNearEnd
      BY <2>1, Zenon DEF PollNearEnd, NearInv
    <2>2. CASE PollFinished
      <3>1. /\ endSignal' = FALSE /\ toldEnd' = (toldEnd \/ endSignal)
            /\ UNCHANGED <<nearEnd, ended, nearSignal, toldNear>>
        BY <2>2 DEF PollFinished
      <3> QED BY <3>1, Zenon DEF NearInv
    <2> QED BY <1>3, <2>1, <2>2 DEF Poll
  <1>4. CASE CallbackPlays \/ Underflow
    <2>1. position' \in Nat
      <3>1. duration \in Nat /\ position \in Nat /\ reading.n \in Nat
        BY Types
      <3>2. CallbackPlays => position' = position + reading.n
        BY DEF CallbackPlays
      <3>3. Underflow => position' = duration \/ position' = position
        BY DEF Underflow
      <3> QED BY <1>4, <3>1, <3>2, <3>3
    <2>2. Trigger(position') /\ UNCHANGED told
      BY <1>4 DEF CallbackPlays, Underflow, CallbackKeeps
    <2> QED BY <2>1, <2>2, Triggers
  <1> QED BY <1>1, <1>2, <1>3, <1>4 DEF Next, Switch, Seek, Callback

(* OnTrackFinished, which a jump of the clock to the end of the track can   *)
(* cause between the two exchanges of a poll, is never called for a track   *)
(* for which OnTrackNearEnd has not been, and is not to be at the next poll. *)
THEOREM NearFirst == Spec => []NearBeforeEnd
  <1>1. Init => NearInv
    BY DEF Init, NearInv
  <1>2. TypeOK /\ NearInv /\ [Next]_vars => NearInv'
    BY PipelineAssumption, NearStep
  <1>3. NearInv => NearBeforeEnd
    BY DEF NearInv, NearBeforeEnd
  <1> QED BY <1>1, <1>2, <1>3, TypeCorrect, PTL DEF Spec

-----------------------------------------------------------------------------
(* After a clean switch. *)

Current == OfTracks({gen})

\* The ring buffer and the network buffer are cleared one after the other.
BetweenClears == main \in {"clearNetwork", "seekNetwork"}

\* By how much the announced length exceeds the real one.
Excess == IF duration > Total THEN duration - Total ELSE 0

\* All but the last EndSlack has been heard.
NearlyHeard == heard + EndSlack >= Ring!Least(duration, Total)

\* All that can still be heard is of the current track; between the two clears the
\* decoder goes on sleeping, so that what the network buffer still holds stays there.
SoundInv ==
  /\ ~haunted /\ ~torn /\ ~Spoilt
  /\ writing.data \in Seq(Current) /\ Ring!Contents \in Seq(Current)
  /\ BetweenClears => pc = "asleep" /\ aac = <<>>
  /\ ~BetweenClears => InBuffers(Current)

\* The clock is not ahead of what has been heard by more than the metadata are wrong.
ClockInv ==
  /\ position <= heard + Excess \/ NearlyHeard
  /\ ended => NearlyHeard

QuietInv == quiet => SoundInv /\ ClockInv

\* What the ring buffer holds comes from the writes.
LEMMA ContentsFlow ==
  ASSUME PipelineAssumption, TypeOK, Ring!IInv, Ring!IInv', [Next]_vars, ~Spoilt,
         NEW U, Ring!Contents \in Seq(U), writing.data \in Seq(U)
  PROVE  Ring!Contents' \in Seq(U)
  <1>0. Ring!RingAssumption /\ [Ring!Next]_(Ring!vars)
    BY Constants, RingSteps
  <1>1. CASE Ring!WriteEnd
    <2>1. writing.at = writePos
      BY <1>1 DEF Ring!WriteEnd, Spoilt
    <2>2. Ring!Contents' = Ring!Contents \o writing.data
      BY <1>0, <1>1, <2>1, RingAppends
    <2> QED BY <2>2, ConcatProperties
  <1>2. CASE Ring!ReadEnd
    <2>1. /\ reading.n \in 1 .. Len(Ring!Contents)
          /\ Ring!Contents' = SubSeq(Ring!Contents, reading.n + 1, Len(Ring!Contents))
      BY <1>0, <1>2, RingTakes
    <2>2. reading.n \in 0 .. Len(Ring!Contents)
      BY <2>1
    <2> QED BY <2>1, <2>2, CutSequence
  <1>3. CASE Ring!Clear
    <2>1. Ring!Contents' = <<>>
      BY <1>0, <1>3, RingCleared
    <2> QED BY <2>1
  <1>4. CASE UNCHANGED <<slots, readPos, writePos>>
    BY <1>4, RingKeeps
  <1> QED BY <1>0, <1>1, <1>2, <1>3, <1>4
          DEF Ring!Next, Ring!vars, Ring!WriteBegin, Ring!ReadBegin

\* A write begins where the last one ended, and is overtaken by clears only.
LEMMA WritesInPlace ==
  ASSUME PipelineAssumption, TypeOK, Ring!IInv, [Next]_vars, ~Spoilt, ~(ClearAudio \/ SeekAudio)
  PROVE  ~Spoilt'
  <1>1. CASE WrittenAac \/ WrittenMp3
    BY <1>1 DEF WrittenAac, WrittenMp3, Ring!WriteEnd, Ring!NoWrite, Spoilt
  <1>2. CASE DecodeAac \/ DecodeMp3
    BY <1>2 DEF DecodeAac, DecodeMp3, Ring!WriteBegin, Spoilt
  <1>3. CASE \/ Doze \/ FallAsleep \/ TakeChunk \/ WaitForRoom \/ ChunkDone \/ PutAside \/ FailAac
             \/ CallDecodeMp3 \/ StopMp3 \/ SkipMp3
    BY <1>3 DEF Doze, FallAsleep, TakeChunk, WaitForRoom, ChunkDone, PutAside, FailAac,
         CallDecodeMp3, StopMp3, SkipMp3, ring, Spoilt
  <1>4. CASE CallbackReads \/ CallbackPlays \/ Underflow
    BY <1>4 DEF CallbackReads, CallbackPlays, Underflow, Ring!ReadBegin, Ring!ReadEnd, ring,
         Spoilt
  <1>5. CASE \/ Download \/ BeginSwitch \/ ClearNetwork \/ SeekNetwork \/ SeekTo \/ Poll
             \/ (\E p \in Targets : BeginSeek(p)) \/ SeekUnknown \/ UNCHANGED vars
    BY <1>5 DEF Download, OnChunkFinished, DeliverChunk, PushNetworkData, PushKeeps,
         DownloadError, SetNetworkStreamFinished, BeginSwitch, ClearNetwork, SeekNetwork,
         SeekTo, BeginSeek, SeekUnknown, Poll, PollNearEnd, PollFinished, vars, ring, Spoilt
  <1> QED BY <1>1, <1>2, <1>3, <1>4, <1>5 DEF Next, Switch, Seek, Decoder, Callback

LEMMA AsleepRests == ASSUME pc = "asleep", Decoder PROVE FALSE
  BY DEF Decoder, Doze, FallAsleep, TakeChunk, WaitForRoom, ChunkDone, PutAside, DecodeAac,
         FailAac, WrittenAac, CallDecodeMp3, StopMp3, SkipMp3, DecodeMp3, WrittenMp3

LEMMA SetAudioIsQuiet ==
  ASSUME PipelineAssumption, TypeOK, ThreadInv, HandlerInv, QuietInv, Ring!IInv, Ring!IInv',
         ClearAudio \/ SeekAudio
  PROVE  QuietInv'
  <1> SUFFICES ASSUME quiet' PROVE SoundInv' /\ ClockInv'
    BY DEF QuietInv
  <1>0. /\ Ring!RingAssumption /\ <<>> \in Seq(Current') /\ Ring!Clear
        /\ duration \in Nat /\ duration \in Durations
    <2>1. duration \in Nat /\ Ring!RingAssumption
      BY Constants, Types
    <2>2. Ring!Clear
      BY DEF ClearAudio, SeekAudio, SetAudio
    <2>3. duration \in Durations
      BY DEF TypeOK
    <2> QED BY <2>1, <2>2, <2>3
  <1>1. pc = "asleep" /\ UNCHANGED <<aac, torn, pc, writing>>
    BY <1>0 DEF ClearAudio, SeekAudio, SetAudio, network, decoder, Ring!Clear
  <1>2. aac = <<>> /\ ~torn /\ writing.data = <<>>
    BY <1>1 DEF ThreadInv, DecodingMp3
  <1>3. Ring!Contents' = <<>>
    BY <1>0, RingCleared
  <1>4. SoundInv'
    BY <1>0, <1>1, <1>2, <1>3
       DEF SoundInv, Spoilt, BetweenClears, ClearAudio, SeekAudio, SetAudio
  <1>5. position' <= heard' + Excess'
    <2>1. CASE ClearAudio
      <3>1. PICK d \in Durations : duration' = d
        BY <2>1 DEF ClearAudio
      <3>2. d \in Nat /\ Total \in Nat
        BY <3>1, Constants
      <3> DEFINE x == IF d > Total THEN d - Total ELSE 0
      <3>3. x \in Nat
        BY <3>2
      <3>4. Excess' = x
        BY <3>1 DEF Excess
      <3>5. position' = 0 /\ heard' = 0
        BY <2>1 DEF ClearAudio, SetAudio
      <3> HIDE DEF x
      <3> QED BY <3>3, <3>4, <3>5
    <2>2. CASE SeekAudio
      <3>1. seekTo \in Nat /\ seekTo <= duration /\ duration > 0
        BY <2>2 DEF SeekAudio, HandlerInv, Stopped, TypeOK, NoSeek
      <3>2. seekTo <= Offset(seekTo) + Excess
        BY <1>0, <3>1, OffsetIs DEF Excess
      <3>3. position' = seekTo /\ heard' = Offset(seekTo) /\ Excess' = Excess
        BY <2>2 DEF SeekAudio, SetAudio, Excess
      <3> QED BY <3>2, <3>3
    <2> QED BY <2>1, <2>2
  <1>6. ~ended'
    BY DEF ClearAudio, SeekAudio, SetAudio
  <1> QED BY <1>4, <1>5, <1>6 DEF ClockInv

LEMMA SoundStep ==
  ASSUME PipelineAssumption, TypeOK, ThreadInv, HandlerInv, AgeInv, Ring!IInv, Ring!IInv',
         [Next]_vars, ~(ClearAudio \/ SeekAudio), SoundInv, Pushes => stream = gen
  PROVE  SoundInv'
  <1>0. gen' = gen /\ Current' = Current
    BY GenStep DEF Current, OfTracks
  <1>1. Ring!Contents' \in Seq(Current)
    BY ContentsFlow DEF SoundInv
  <1>2. ~Spoilt'
    BY WritesInPlace DEF SoundInv
  <1>3. ~haunted'
    <2>1. CASE CallbackPlays
      <3>1. Ring!RingAssumption /\ Ring!ReadEnd
        BY <2>1, Constants DEF CallbackPlays
      <3>2. /\ reading.n \in 1 .. Len(Ring!Contents)
            /\ \A i \in 1 .. reading.n : Ring!Copied[i] = Ring!Contents[i]
        BY <3>1, CopiedIs
      <3>3. Ring!Contents \in Seq(Current)
        BY DEF SoundInv
      <3>4. ASSUME NEW i \in 1 .. reading.n PROVE Ring!Copied[i].track = gen
        <4>1. i \in 1 .. Len(Ring!Contents) /\ Len(Ring!Contents) \in Nat
          BY <3>2, <3>3, OfSequence
        <4>2. Ring!Contents[i] \in Current
          BY <3>3, <4>1, OfSequence
        <4> QED BY <3>2, <4>2 DEF Current, OfTracks
      <3> QED BY <2>1, <3>4 DEF CallbackPlays, SoundInv
    <2>2. CASE CallbackReads \/ Underflow
      BY <2>2 DEF CallbackReads, Underflow, SoundInv
    <2>3. CASE Decoder
      BY <2>3, DecoderFrame DEF DecoderKeeps, history, SoundInv
    <2>4. CASE \/ Download \/ BeginSwitch \/ ClearNetwork \/ SeekNetwork \/ SeekTo \/ Poll
               \/ (\E p \in Targets : BeginSeek(p)) \/ SeekUnknown \/ UNCHANGED vars
      BY <2>4 DEF Download, OnChunkFinished, DeliverChunk, PushNetworkData, PushKeeps,
         DownloadError, SetNetworkStreamFinished, BeginSwitch, ClearNetwork, SeekNetwork,
         SeekTo, BeginSeek, SeekUnknown, Poll, PollNearEnd, PollFinished, vars, history,
         SoundInv
    <2> QED BY <2>1, <2>2, <2>3, <2>4 DEF Next, Switch, Seek, Callback
  <1>4. CASE ClearNetwork \/ SeekNetwork
    <2>1. pc = "asleep" /\ local = <<>> /\ writing.data = <<>>
      BY <1>4 DEF ClearNetwork, SeekNetwork, SoundInv, BetweenClears, ThreadInv
    <2>2. /\ mp3' = <<>> /\ aac' = <<>> /\ ~torn' /\ UNCHANGED <<local, writing>>
          /\ ~BetweenClears'
      BY <1>4, <2>1 DEF ClearNetwork, SeekNetwork, EmptyNetwork, ClearedMp3, DecodingMp3, ring,
                        BetweenClears
    <2>3. <<>> \in Seq(Current)
      OBVIOUS
    <2> QED BY <1>0, <1>1, <1>2, <1>3, <2>1, <2>2, <2>3 DEF SoundInv, InBuffers
  <1>5. CASE BetweenClears /\ ~(ClearNetwork \/ SeekNetwork)
    <2>1. Callback \/ UNCHANGED vars
      <3>1. ~Decoder
        BY <1>5, AsleepRests DEF SoundInv
      <3>2. main \notin {"idle", "delivering", "ending", "polling"}
        BY <1>5 DEF BetweenClears
      <3>3. ~(\/ Download \/ BeginSwitch \/ (\E p \in Targets : BeginSeek(p)) \/ SeekUnknown
              \/ SeekTo \/ Poll)
        BY <3>2 DEF Download, OnChunkFinished, DeliverChunk, PushNetworkData, PushKeeps,
         DownloadError, SetNetworkStreamFinished, BeginSwitch, BeginSeek, SeekUnknown, SeekTo,
         Poll, PollNearEnd, PollFinished
      <3> QED BY <1>5, <3>1, <3>3 DEF Next, Switch, Seek
    <2>2. UNCHANGED <<main, pc, aac, torn, writing>>
      BY <2>1 DEF Callback, CallbackReads, CallbackPlays, Underflow, CallbackKeeps, network,
           decoder, ring, vars, Ring!ReadBegin, Ring!ReadEnd
    <2> QED BY <1>0, <1>1, <1>2, <1>3, <1>5, <2>2 DEF SoundInv, BetweenClears
  <1>6. CASE ~BetweenClears
    <2>1. Pushes => Arrives(Current)
      BY UnitsArrive DEF Arrives, Current, OfTracks
    <2>2. InBuffers(Current)'
      <3>1. \A U : InBuffers(U) => ((Pushes => Arrives(U)) => InBuffers(U)')
        BY BufferFlow
      <3>2. InBuffers(Current)
        BY <1>6 DEF SoundInv
      <3>3. /\ aac' \in Seq(Current) /\ mp3' \in Seq(Current) /\ local' \in Seq(Current)
            /\ writing'.data \in Seq(Current)
        BY <2>1, <3>1, <3>2 DEF InBuffers
      <3> QED BY <1>0, <3>3 DEF InBuffers
    <2>3. ~BetweenClears' /\ ~torn'
      <3>1. ~torn
        BY DEF SoundInv
      <3>2. CASE Decoder
        <4>1. torn' => torn
          BY <3>2 DEF Decoder, Doze, FallAsleep, TakeChunk, WaitForRoom, ChunkDone, PutAside,
               DecodeAac, FailAac, WrittenAac, CallDecodeMp3, StopMp3, SkipMp3, DecodeMp3,
               WrittenMp3
        <4>2. main' = main
          BY <3>2, DecoderFrame DEF DecoderKeeps
        <4> QED BY <1>6, <3>1, <4>1, <4>2 DEF BetweenClears
      <3>3. CASE Callback
        BY <1>6, <3>1, <3>3, CallbackFrame DEF CallbackKeeps, BetweenClears, decoder
      <3>4. CASE \/ Download \/ BeginSwitch \/ SeekTo \/ Poll
                 \/ (\E p \in Targets : BeginSeek(p)) \/ SeekUnknown \/ UNCHANGED vars
        BY <1>6, <3>1, <3>4 DEF Download, OnChunkFinished, DeliverChunk,
         PushNetworkData, PushKeeps, DownloadError, SetNetworkStreamFinished,
             BeginSwitch, SeekTo, BeginSeek, SeekUnknown, Poll, PollNearEnd, PollFinished, vars,
             decoder, BetweenClears
      <3>5. ~(ClearNetwork \/ SeekNetwork)
        BY <1>6 DEF ClearNetwork, SeekNetwork, BetweenClears
      <3> QED BY <3>2, <3>3, <3>4, <3>5 DEF Next, Switch, Seek
    <2>4. writing'.data \in Seq(Current)
      BY <1>0, <2>2 DEF InBuffers
    <2> QED BY <1>0, <1>1, <1>2, <1>3, <2>2, <2>3, <2>4 DEF SoundInv
  <1> QED BY <1>4, <1>5, <1>6 DEF ClearNetwork, SeekNetwork, BetweenClears

\* A clock that has come to the end, or near to it, and runs ahead of what is heard by
\* no more than the excess: what has been heard is then near the end, too.
LEMMA ClockIs ==
  ASSUME PipelineAssumption, TypeOK, ClockInv, NEW n \in Nat
  PROVE  /\ position + n <= (heard + n) + Excess
            \/ (heard + n) + EndSlack >= Ring!Least(duration, Total)
         /\ position + n >= duration => (heard + n) + EndSlack >= Ring!Least(duration, Total)
         /\ ended => (heard + n) + EndSlack >= Ring!Least(duration, Total)
         /\ position >= duration - EndSlack => NearlyHeard
  <1>1. /\ duration \in Nat /\ Total \in Nat /\ EndSlack \in Nat
        /\ position \in Nat /\ heard \in Nat
    BY Types, Constants
  <1>2. CASE duration > Total
    <2>1. Excess = duration - Total /\ Ring!Least(duration, Total) = Total
      BY <1>1, <1>2 DEF Excess, Ring!Least
    <2> QED BY <1>1, <2>1 DEF ClockInv, NearlyHeard
  <1>3. CASE ~(duration > Total)
    <2>1. Excess = 0 /\ Ring!Least(duration, Total) = duration
      BY <1>1, <1>3 DEF Excess, Ring!Least
    <2> QED BY <1>1, <2>1 DEF ClockInv, NearlyHeard
  <1> QED BY <1>2, <1>3

LEMMA ClockStep ==
  ASSUME PipelineAssumption, TypeOK, Ring!IInv, Ring!IInv',
         [Next]_vars, ~(ClearAudio \/ SeekAudio), SoundInv, ClockInv
  PROVE  ClockInv'
  <1>1. CASE CallbackPlays
    <2>0. Ring!RingAssumption /\ Ring!ReadEnd /\ reading.n \in Nat
      BY <1>1, Constants, Types DEF CallbackPlays
    <2>1. /\ Ring!Copied \in Seq(Units) /\ Len(Ring!Copied) = reading.n
          /\ reading.n \in 1 .. Len(Ring!Contents)
          /\ \A i \in 1 .. reading.n : Ring!Copied[i] = Ring!Contents[i]
      BY <2>0, CopiedIs
    <2>2. Ring!Contents \in Seq(Current)
      BY DEF SoundInv
    <2>3. ASSUME NEW i \in 1 .. Len(Ring!Copied) PROVE Ring!Copied[i].track = gen
      <3>1. i \in 1 .. Len(Ring!Contents) /\ i \in 1 .. reading.n
        BY <2>1, <2>2, OfSequence
      <3>2. Ring!Contents[i] \in Current
        BY <2>2, <3>1, OfSequence
      <3> QED BY <2>1, <3>1, <3>2 DEF Current, OfTracks
    <2>4. OfCurrent(Ring!Copied) = reading.n
      BY <2>1, <2>3, CountIs
    <2>5. /\ heard' = heard + reading.n /\ position' = position + reading.n
          /\ duration' = duration /\ (ended' => ended \/ position' >= duration)
      BY <1>1, <2>4 DEF CallbackPlays, CallbackKeeps, Trigger
    <2>6. NearlyHeard' = (heard' + EndSlack >= Ring!Least(duration, Total))
      BY <2>5 DEF NearlyHeard
    <2>7. Excess' = Excess
      BY <2>5 DEF Excess
    <2> QED BY <2>0, <2>5, <2>6, <2>7, ClockIs DEF ClockInv
  <1>2. CASE Underflow
    <2>1. UNCHANGED <<heard, duration>> /\ (ended' => ended \/ position' >= duration)
      BY <1>2 DEF Underflow, CallbackKeeps, Trigger
    <2>2. position' = position \/ position >= duration - EndSlack
      <3>1. position \in Nat /\ EndSlack \in Nat
        BY Types, Constants
      <3> QED BY <1>2, <3>1 DEF Underflow
    <2>3. NearlyHeard' = NearlyHeard /\ Excess' = Excess
      BY <2>1 DEF NearlyHeard, Excess
    <2>4. position \in Nat /\ heard \in Nat
      BY Types
    <2>5. CASE position >= duration - EndSlack
      BY <2>3, <2>5, ClockIs DEF ClockInv
    <2>6. CASE position' = position
      <3>1. position >= duration => NearlyHeard
        <4>1. position + 0 = position /\ heard + 0 = heard
          BY <2>4
        <4> QED BY <4>1, ClockIs DEF NearlyHeard
      <3> QED BY <2>1, <2>3, <2>6, <3>1 DEF ClockInv
    <2> QED BY <2>2, <2>5, <2>6
  <1>3. CASE UNCHANGED <<position, heard, duration, ended>>
    BY <1>3 DEF ClockInv, NearlyHeard, Excess
  <1>4. CASE Decoder
    BY <1>3, <1>4, DecoderFrame DEF DecoderKeeps, clock, signals, history
  <1>5. CASE \/ Download \/ BeginSwitch \/ ClearNetwork \/ SeekNetwork \/ SeekTo \/ Poll
             \/ (\E p \in Targets : BeginSeek(p)) \/ SeekUnknown
             \/ CallbackReads \/ UNCHANGED vars
    BY <1>3, <1>5 DEF Download, OnChunkFinished, DeliverChunk, PushNetworkData, PushKeeps,
         DownloadError, SetNetworkStreamFinished, BeginSwitch, ClearNetwork, SeekNetwork,
         SeekTo, BeginSeek, SeekUnknown, Poll, PollNearEnd, PollFinished, CallbackReads,
         CallbackKeeps, vars, clock, signals, history
  <1> QED BY <1>1, <1>2, <1>4, <1>5 DEF Next, Switch, Seek, Callback

LEMMA QuietStep ==
  ASSUME PipelineAssumption, IInv, IInv', QuietInv, [Next]_vars
  PROVE  QuietInv'
  <1> USE DEF IInv
  <1>1. CASE ClearAudio \/ SeekAudio
    BY <1>1, SetAudioIsQuiet
  <1>2. CASE ~(ClearAudio \/ SeekAudio)
    <2>1. quiet' => quiet /\ (Pushes => stream = gen)
      <3>1. CASE Decoder
        <4>1. ~Pushes \/ quiet' = (quiet /\ stream = gen)
          BY DEF Pushes, PushNetworkData
        <4> QED BY <3>1, <4>1, DecoderFrame DEF DecoderKeeps, history
      <3>2. CASE Callback
        <4>1. ~Pushes \/ quiet' = (quiet /\ stream = gen)
          BY DEF Pushes, PushNetworkData
        <4> QED BY <3>2, <4>1, CallbackFrame DEF CallbackKeeps
      <3>3. CASE \/ Download \/ BeginSwitch \/ ClearNetwork \/ SeekNetwork \/ SeekTo \/ Poll
                 \/ (\E p \in Targets : BeginSeek(p)) \/ SeekUnknown \/ UNCHANGED vars
        <4>1. CASE Pushes
          BY <4>1 DEF Pushes, PushNetworkData
        <4>2. CASE ~Pushes
          <5>1. OnChunkFinished \/ DeliverChunk => UNCHANGED history
            BY <4>2, Receives DEF Holding
          <5> QED BY <3>3, <4>2, <5>1 DEF Download, DownloadError, SetNetworkStreamFinished,
               BeginSwitch, ClearNetwork, SeekNetwork, SeekTo, BeginSeek, SeekUnknown, Poll,
               PollNearEnd, PollFinished, vars, history
        <4> QED BY <4>1, <4>2
      <3> QED BY <1>2, <3>1, <3>2, <3>3 DEF Next, Switch, Seek
    <2> QED BY <1>2, <2>1, SoundStep, ClockStep DEF QuietInv
  <1> QED BY <1>1, <1>2

(* After a replacement or seek that found the decoder asleep, all that can   *)
(* still be heard is of the current track, and the clock is not ahead of    *)
(* what has been heard by more than the metadata are wrong.                 *)
THEOREM Quietness == Spec => []QuietInv
  <1>1. Init => QuietInv
    <2> SUFFICES ASSUME Init PROVE SoundInv /\ ClockInv
      BY DEF QuietInv
    <2>1. /\ Ring!Init /\ position = 0 /\ heard = 0 /\ ~ended /\ ~haunted /\ ~torn /\ main = "idle"
          /\ aac = <<>> /\ mp3 = <<>> /\ local = <<>>
      BY DEF Init
    <2>2. writing.data = <<>> /\ Ring!Contents = <<>>
      <3>1. Ring!AvailableRead = 0
        BY <2>1 DEF Ring!Init, Ring!AvailableRead, Ring!Distance
      <3>2. Ring!RingAssumption /\ Ring!IInv
        BY PipelineAssumption, Constants, Starts DEF IInv
      <3> QED BY <2>1, <3>1, <3>2, RingContents DEF Ring!Init, Ring!NoWrite
    <2>3. <<>> \in Seq(Current)
      OBVIOUS
    <2>4. position <= heard + Excess
      <3>1. duration \in Nat /\ Total \in Nat
        BY PipelineAssumption, Starts, Types, Constants DEF IInv
      <3> QED BY <2>1, <3>1 DEF Excess
    <2> QED BY <2>1, <2>2, <2>3, <2>4 DEF SoundInv, ClockInv, Spoilt, InBuffers, BetweenClears
  <1>2. IInv /\ IInv' /\ QuietInv /\ [Next]_vars => QuietInv'
    BY PipelineAssumption, QuietStep
  <1> QED BY <1>1, <1>2, Invariance, PTL DEF Spec

(* A track that is replaced while the decoder sleeps leaves no sound, and   *)
(* neither does what was played before a seek.                              *)
THEOREM SwitchClean == Spec => []CleanSwitch
  <1>1. QuietInv => CleanSwitch
    BY DEF QuietInv, SoundInv, CleanSwitch
  <1> QED BY <1>1, Quietness, PTL

(* The end of such a track is not reported early, also when its download     *)
(* breaks off and its metadata are wrong.                                   *)
THEOREM EndInTime == Spec => []EndNotEarly
  <1>1. QuietInv => EndNotEarly
    BY DEF QuietInv, ClockInv, NearlyHeard, EndNotEarly
  <1> QED BY <1>1, Quietness, PTL

-----------------------------------------------------------------------------
(* The watermarks. *)

\* What the download has brought and the decoder has not finished with.
Mp3Held == IF torn THEN 0 ELSE Len(mp3)
Held == Len(aac) + Mp3Held + Len(local)

\* The size the watermarks go by is short by no more than the chunk that is decoded.
SizeInv == Held <= netSize + Take

\* A download that goes on has not been found above the watermark.
WaterInv ==
  format.hls /\ main \notin {"clearAudio", "clearNetwork"} /\ ~broken /\ ~paused
    => Held < High + Take

LEMMA HeldIs == ASSUME PipelineAssumption, TypeOK PROVE Held \in Nat /\ Mp3Held \in Nat
  <1>1. Len(aac) \in Nat /\ Len(mp3) \in Nat /\ Len(local) \in Nat
    BY Types
  <1>2. Mp3Held \in Nat
    BY <1>1 DEF Mp3Held
  <1> QED BY <1>1, <1>2 DEF Held

LEMMA HeldThen == Held' = Len(aac') + Mp3Held' + Len(local')
  BY DEF Held

\* Neither taking nor decoding adds to what is held.
LEMMA DecoderHolds ==
  ASSUME PipelineAssumption, TypeOK, ThreadInv, Decoder
  PROVE  Held' <= Held /\ Held' \in Nat
  <1>0. /\ aac \in Seq(Units) /\ mp3 \in Seq(Units) /\ local \in Seq(Units)
        /\ Len(aac) \in Nat /\ Len(mp3) \in Nat /\ Len(local) \in Nat /\ Mp3Held \in Nat
        /\ Held \in Nat
    BY Types, HeldIs DEF TypeOK
  <1>1. CASE TakeChunk
    <2> DEFINE n == Ring!Least(Take, Len(aac))
    <2>1. n \in 0 .. Len(aac)
      BY TakenIs
    <2>2. /\ local' = SubSeq(aac, 1, n) /\ aac' = SubSeq(aac, n + 1, Len(aac))
          /\ Mp3Held' = Mp3Held
      BY <1>1 DEF TakeChunk, Mp3Held
    <2> HIDE DEF n
    <2>3. Len(local') = n /\ Len(aac') = Len(aac) - n
      <3>1. Len(SubSeq(aac, 1, n)) = n /\ Len(SubSeq(aac, n + 1, Len(aac))) = Len(aac) - n
        BY <1>0, <2>1, CutSequence
      <3> QED BY <2>2, <3>1
    <2>4. /\ Held' = (Len(aac) - n) + Mp3Held + n
          /\ Held = Len(aac) + Mp3Held + Len(local)
      BY <2>2, <2>3, HeldThen DEF Held
    <2>5. (Len(aac) - n) + Mp3Held + n = Len(aac) + Mp3Held
      BY <1>0, <2>1
    <2>6. Held' = Len(aac) + Mp3Held
      BY <2>4, <2>5
    <2>7. Held' \in Nat
      BY <1>0, <2>6
    <2>8. Held' <= Held
      BY <1>0, <2>4, <2>6
    <2> QED BY <2>7, <2>8
  <1>2. CASE PutAside
    <2>1. ~torn /\ ~torn' /\ aac' = aac /\ mp3' = mp3 \o local /\ local' = <<>>
      BY <1>2 DEF PutAside, ThreadInv, DecodingMp3
    <2>2. Len(mp3') = Len(mp3) + Len(local) /\ Len(local') = 0
      BY <1>0, <2>1, ConcatProperties
    <2> QED BY <1>0, <2>1, <2>2 DEF Held, Mp3Held
  <1>3. CASE FailAac \/ WrittenAac
    <2>1. local # <<>> /\ local' = Tail(local) /\ UNCHANGED <<aac, mp3, torn>>
      BY <1>3 DEF FailAac, WrittenAac, ThreadInv
    <2>2. Len(local') = Len(local) - 1
      BY <1>0, <2>1, OfSequence
    <2>3. Mp3Held' = Mp3Held
      BY <2>1 DEF Mp3Held
    <2> QED BY <1>0, <2>1, <2>2, <2>3 DEF Held
  <1>4. CASE SkipMp3 \/ WrittenMp3
    <2>1. /\ UNCHANGED <<aac, local, torn>>
          /\ mp3' = <<>> \/ (mp3 # <<>> /\ mp3' = Tail(mp3))
      BY <1>4 DEF SkipMp3, WrittenMp3, Mp3GoesOn
    <2>2. Len(mp3') \in Nat /\ Len(mp3') <= Len(mp3)
      <3>1. mp3' = <<>> => Len(mp3') = 0
        OBVIOUS
      <3>2. mp3 # <<>> => Len(Tail(mp3)) = Len(mp3) - 1 /\ Len(mp3) > 0
        BY <1>0, OfSequence
      <3> QED BY <1>0, <2>1, <3>1, <3>2
    <2>3. CASE torn
      <3>1. Mp3Held' = 0 /\ Mp3Held = 0
        BY <2>1, <2>3 DEF Mp3Held
      <3> QED BY <1>0, <2>1, <3>1 DEF Held
    <2>4. CASE ~torn
      <3>1. Mp3Held' = Len(mp3') /\ Mp3Held = Len(mp3)
        BY <2>1, <2>4 DEF Mp3Held
      <3> QED BY <1>0, <2>1, <2>2, <3>1 DEF Held
    <2> QED BY <2>3, <2>4
  <1>5. CASE StopMp3
    <2>1. UNCHANGED <<aac, local>> /\ Mp3Held' = Mp3Held
      BY <1>5 DEF StopMp3, Mp3Held
    <2> QED BY <1>0, <2>1 DEF Held
  <1>6. CASE Doze \/ FallAsleep \/ WaitForRoom \/ ChunkDone \/ DecodeAac \/ CallDecodeMp3
             \/ DecodeMp3
    <2>1. UNCHANGED <<aac, mp3, local, torn>>
      BY <1>6 DEF Doze, FallAsleep, WaitForRoom, ChunkDone, DecodeAac, CallDecodeMp3, DecodeMp3
    <2> QED BY <1>0, <2>1 DEF Held, Mp3Held
  <1> QED BY <1>1, <1>2, <1>3, <1>4, <1>5, <1>6 DEF Decoder

\* A chunk that arrives.
LEMMA ArrivalHolds ==
  ASSUME PipelineAssumption, TypeOK, ThreadInv, Pushes
  PROVE  Held' <= netSize' + Take /\ netSize' \in Nat /\ Held' \in Nat
  <1>0. /\ aac \in Seq(Units) /\ Len(aac) \in Nat /\ Len(mp3) \in Nat /\ Len(local) \in Nat
        /\ Mp3Held \in Nat /\ Take \in Nat
    BY Types, HeldIs, Constants DEF TypeOK
  <1>1. PICK n \in 0 .. Total - pushed : PushNetworkData(n)
    BY DEF Pushes
  <1>2. Arriving(n) \in Seq(Units) /\ Len(Arriving(n)) = n /\ n \in Nat
    BY ArrivingIs
  <1>3. /\ aac' = aac \o Arriving(n) /\ UNCHANGED <<local, mp3, torn>>
        /\ netSize' = Len(aac') + Len(mp3)
    BY <1>1 DEF PushNetworkData, PushKeeps
  <1>4. Len(aac') = Len(aac) + n
    BY <1>0, <1>2, <1>3, ConcatProperties
  <1>5. Mp3Held' = Mp3Held /\ Mp3Held <= Len(mp3)
    BY <1>0, <1>3 DEF Mp3Held
  <1>6. Len(local) <= Take
    BY DEF ThreadInv
  <1>7. Held' = (Len(aac) + n) + Mp3Held + Len(local) /\ netSize' = (Len(aac) + n) + Len(mp3)
    BY <1>3, <1>4, <1>5, HeldThen
  <1>8. Len(aac) + n \in Nat /\ Mp3Held' \in Nat
    BY <1>0, <1>2, <1>5
  <1>9. netSize' \in Nat /\ Held' \in Nat
    <2>1. Len(mp3) \in Nat /\ Len(local) \in Nat /\ Mp3Held \in Nat
      BY <1>0
    <2>2. netSize' \in Nat
      BY <1>7, <1>8, <2>1
    <2> QED BY <1>7, <1>8, <2>1, <2>2
  <1>10. Held' <= netSize' + Take
    BY <1>0, <1>5, <1>6, <1>7, <1>8
  <1> QED BY <1>9, <1>10

LEMMA ClearHolds ==
  ASSUME PipelineAssumption, TypeOK, ThreadInv, EmptyNetwork
  PROVE  Held' <= Take /\ netSize' = 0 /\ Held' \in Nat
  <1>1. /\ aac' = <<>> /\ local' = local /\ torn' = DecodingMp3 /\ netSize' = 0
        /\ ~DecodingMp3 => mp3' = <<>>
    BY DEF EmptyNetwork, ClearedMp3
  <1>2. Mp3Held' = 0
    BY <1>1 DEF Mp3Held
  <1>3. Len(local) <= Take /\ Len(local) \in Nat /\ Len(<<>>) = 0
    BY Types DEF ThreadInv
  <1> QED BY <1>1, <1>2, <1>3 DEF Held

LEMMA SizeStep ==
  ASSUME PipelineAssumption, TypeOK, ThreadInv, SizeInv, [Next]_vars
  PROVE  SizeInv'
  <1>0. /\ Held \in Nat /\ netSize \in Nat /\ Take \in Nat
        /\ Len(aac) \in Nat /\ Len(mp3) \in Nat /\ Len(local) \in Nat
    BY Types, HeldIs, Constants
  <1>1. CASE Pushes
    BY <1>1, ArrivalHolds DEF SizeInv
  <1>2. CASE EmptyNetwork
    BY <1>0, <1>2, ClearHolds DEF SizeInv
  <1>3. CASE TakeChunk /\ HasAac
    <2> DEFINE n == Ring!Least(Take, Len(aac))
    <2>1. n \in 0 .. Len(aac) /\ n <= Take
      BY TakenIs
    <2>2. /\ local' = SubSeq(aac, 1, n) /\ aac' = SubSeq(aac, n + 1, Len(aac))
          /\ Mp3Held' = Mp3Held /\ netSize' = Len(aac') + Len(mp3)
      BY <1>3 DEF TakeChunk, Mp3Held
    <2> HIDE DEF n
    <2>3. Len(local') = n /\ Len(aac') = Len(aac) - n
      <3>1. Len(SubSeq(aac, 1, n)) = n /\ Len(SubSeq(aac, n + 1, Len(aac))) = Len(aac) - n
        BY <2>1, CutSequence DEF TypeOK
      <3> QED BY <2>2, <3>1
    <2>4. Mp3Held \in Nat /\ Mp3Held <= Len(mp3)
      BY <1>0 DEF Mp3Held
    <2>5. Held' = (Len(aac) - n) + Mp3Held + n /\ netSize' = (Len(aac) - n) + Len(mp3)
      BY <2>2, <2>3, HeldThen
    <2>6. Held' <= netSize' + Take
      BY <1>0, <2>1, <2>4, <2>5
    <2> QED BY <2>6 DEF SizeInv
  <1>4. CASE Decoder /\ ~(TakeChunk /\ HasAac)
    <2>1. netSize' = netSize
      BY <1>4 DEF Decoder, Doze, FallAsleep, TakeChunk, WaitForRoom, ChunkDone, PutAside,
           DecodeAac, FailAac, WrittenAac, CallDecodeMp3, StopMp3, SkipMp3, DecodeMp3,
           WrittenMp3
    <2>2. Held' <= Held /\ Held' \in Nat
      BY <1>4, DecoderHolds
    <2> QED BY <1>0, <2>1, <2>2 DEF SizeInv
  <1>5. CASE \/ Holding \/ DownloadError \/ SetNetworkStreamFinished \/ BeginSwitch \/ ClearAudio
             \/ (\E p \in Targets : BeginSeek(p)) \/ SeekUnknown
             \/ SeekAudio \/ SeekTo \/ Poll \/ Callback
             \/ UNCHANGED vars
    <2>1. UNCHANGED <<netSize, aac, mp3, torn, local>>
      BY <1>5, CallbackFrame DEF Holding, DownloadError, SetNetworkStreamFinished, BeginSwitch,
           ClearAudio, BeginSeek, SeekUnknown, SeekAudio, SetAudio, SeekTo, Poll, PollNearEnd,
           PollFinished, CallbackKeeps, vars, network, decoder
    <2> QED BY <2>1 DEF SizeInv, Held, Mp3Held
  <1> QED BY <1>1, <1>2, <1>3, <1>4, <1>5, Receives
          DEF Next, Download, Switch, Seek, ClearNetwork, SeekNetwork

LEMMA BelowMark ==
  ASSUME PipelineAssumption
  PROVE  \A h, n \in Nat : h <= n + Take /\ ~(n >= High) => h < High + Take
  BY Constants

LEMMA WaterStep ==
  ASSUME PipelineAssumption, TypeOK, ThreadInv, SizeInv, WaterInv, [Next]_vars
  PROVE  WaterInv'
  <1>0. /\ Held \in Nat /\ netSize \in Nat /\ Take \in Nat
        /\ High \in Nat /\ Low \in Nat /\ Low < High /\ Held <= netSize + Take
    BY Types, HeldIs, Constants DEF SizeInv
  <1>1. CASE Pushes /\ (OnChunkFinished \/ DeliverChunk)
    <2>1. Held' <= netSize' + Take /\ netSize' \in Nat /\ Held' \in Nat
      BY <1>1, ArrivalHolds
    <2>2. format'.hls /\ ~paused' => ~(netSize' >= High)
      BY <1>1 DEF Pushes, PushNetworkData, PushKeeps
    <2>3. ASSUME ~(netSize' >= High) PROVE Held' < High + Take
      BY <2>1, <2>3, BelowMark
    <2> QED BY <2>2, <2>3 DEF WaterInv
  <1>2. CASE ClearNetwork \/ SeekNetwork
    <2>1. Held' <= Take /\ Held' \in Nat
      BY <1>2, ClearHolds DEF ClearNetwork, SeekNetwork
    <2> QED BY <1>0, <2>1 DEF WaterInv
  <1>3. CASE PollFinished
    <2>1. UNCHANGED <<aac, mp3, local, torn, broken, format>> /\ main = "polling"
      BY <1>3 DEF PollFinished, network, decoder
    <2>2. Held' = Held
      BY <2>1 DEF Held, Mp3Held
    <2>3. CASE netSize <= Low
      BY <1>0, <2>2, <2>3 DEF WaterInv
    <2>4. CASE ~(netSize <= Low)
      <3>1. paused => paused'
        BY <1>3, <2>4 DEF PollFinished, PauseDownload
      <3> QED BY <2>1, <2>2, <3>1 DEF WaterInv
    <2> QED BY <2>3, <2>4
  <1>4. CASE DownloadError \/ SeekTo
    BY <1>4 DEF DownloadError, SeekTo, WaterInv
  <1>5. CASE Decoder
    <2>1. UNCHANGED <<main, format, broken, paused>>
      BY <1>5, DecoderFrame DEF DecoderKeeps, streamer
    <2>2. Held' <= Held /\ Held' \in Nat
      BY <1>5, DecoderHolds
    <2> QED BY <1>0, <2>1, <2>2 DEF WaterInv
  <1>6. CASE \/ Holding \/ PollNearEnd \/ SetNetworkStreamFinished \/ SeekAudio \/ Callback
             \/ (\E p \in Targets : BeginSeek(p)) \/ SeekUnknown \/ UNCHANGED vars
    <2>1. UNCHANGED <<aac, mp3, local, torn, format, broken, paused>>
      BY <1>6, CallbackFrame DEF Holding, PollNearEnd, SetNetworkStreamFinished, BeginSeek,
           SeekUnknown, SeekAudio, SetAudio, CallbackKeeps, vars, streamer, network, decoder
    <2>2. main' \notin {"clearAudio", "clearNetwork"}
            => main \notin {"clearAudio", "clearNetwork"}
      BY <1>6, CallbackFrame DEF Holding, PollNearEnd, SetNetworkStreamFinished, BeginSeek,
           SeekUnknown, SeekAudio, CallbackKeeps, vars
    <2>3. Held' = Held
      BY <2>1 DEF Held, Mp3Held
    <2> QED BY <2>1, <2>2, <2>3 DEF WaterInv
  <1>7. CASE BeginSwitch \/ ClearAudio
    BY <1>7 DEF BeginSwitch, ClearAudio, WaterInv
  <1> QED BY <1>1, <1>2, <1>3, <1>4, <1>5, <1>6, <1>7, Receives
          DEF Next, Download, Switch, Seek, Poll, PollNearEnd, PollFinished

(* Whatever the user seeks or skips, and in whatever runs chunks arrive, an  *)
(* HLS stream of which the engine has the high watermark in memory, and the *)
(* chunk that is decoded, is paused.                                        *)
THEOREM FullPauses == Spec => []FullIsPaused
  <1>1. Init => SizeInv /\ WaterInv
    <2> SUFFICES ASSUME Init PROVE SizeInv /\ WaterInv
      OBVIOUS
    <2>1. /\ aac = <<>> /\ mp3 = <<>> /\ local = <<>> /\ torn = FALSE /\ netSize = 0
      BY DEF Init
    <2>2. /\ Take \in Nat /\ Take > 0 /\ High \in Nat /\ Low \in Nat /\ Low < High
      BY PipelineAssumption, Constants
    <2>3. Held = 0
      BY <2>1 DEF Held, Mp3Held
    <2> QED BY <2>1, <2>2, <2>3 DEF SizeInv, WaterInv
  <1>2. IInv /\ SizeInv /\ WaterInv /\ [Next]_vars => SizeInv' /\ WaterInv'
    BY PipelineAssumption, SizeStep, WaterStep DEF IInv
  <1>3. IInv /\ WaterInv => FullIsPaused
    <2> SUFFICES ASSUME IInv, WaterInv, format.hls, main = "idle", ~broken, ~paused
                 PROVE  ~(OfCurrent(aac) + OfCurrent(mp3) + OfCurrent(local) >= High + Take)
      BY DEF FullIsPaused
    <2>1. /\ aac \in Seq(Units) /\ mp3 \in Seq(Units) /\ local \in Seq(Units) /\ gen \in Nat
          /\ Len(aac) \in Nat /\ Len(mp3) \in Nat /\ Len(local) \in Nat
          /\ High \in Nat /\ Take \in Nat
      BY PipelineAssumption, Types, Constants DEF IInv, TypeOK
    <2>2. /\ OfCurrent(aac) \in Nat /\ OfCurrent(aac) <= Len(aac)
          /\ OfCurrent(local) \in Nat /\ OfCurrent(local) <= Len(local)
          /\ OfCurrent(mp3) \in Nat /\ OfCurrent(mp3) <= Len(mp3)
      BY <2>1, CountIs
    <2>3. OfCurrent(mp3) <= Mp3Held /\ Mp3Held \in Nat
      <3>1. CASE torn
        <4>1. mp3 \in Seq(Old)
          BY <3>1 DEF IInv, AgeInv
        <4>2. \A u \in Old : u.track # gen
          BY <2>1 DEF Old, OfTracks
        <4>3. \A i \in 1 .. Len(mp3) : mp3[i].track # gen
          BY <4>1, <4>2, OfSequence
        <4> QED BY <2>1, <3>1, <4>3, CountIs DEF Mp3Held
      <3>2. CASE ~torn
        BY <2>1, <2>2, <3>2 DEF Mp3Held
      <3> QED BY <3>1, <3>2
    <2>4. Held < High + Take
      BY DEF WaterInv
    <2>5. Held = Len(aac) + Mp3Held + Len(local)
      BY DEF Held
    <2> QED BY <2>1, <2>2, <2>3, <2>4, <2>5
  <1> QED BY <1>1, <1>2, <1>3, Invariance, PTL DEF Spec

-----------------------------------------------------------------------------
(* Nothing is lost. *)

Nth(g, c, n) == [track |-> g, n |-> n, codec |-> c]

\* A sequence ends with the next d units of track g after the h-th, and holds none of
\* that track before.
Fits(w, d, h, g, c) ==
  /\ d \in 0 .. Len(w)
  /\ \A i \in 1 .. Len(w) :
       /\ i > Len(w) - d => w[i] = Nth(g, c, h + (i - (Len(w) - d)))
       /\ i <= Len(w) - d => w[i].track # g

LEMMA NthIs == \A g, c, n : Nth(g, c, n).track = g /\ Nth(g, c, n).codec = c
  BY DEF Nth

LEMMA FitsAppend ==
  ASSUME NEW w \in Seq(Units), NEW s \in Seq(Units), NEW d \in Nat, NEW h \in Nat, NEW g, NEW c,
         Fits(w, d, h, g, c),
         \A i \in 1 .. Len(s) : s[i] = Nth(g, c, h + (d + i))
  PROVE  Fits(w \o s, d + Len(s), h, g, c)
  <1> DEFINE t == w \o s
  <1>1. Len(w) \in Nat /\ Len(s) \in Nat /\ d <= Len(w)
    BY OfSequence DEF Fits
  <1>2. /\ Len(t) = Len(w) + Len(s)
        /\ \A i \in 1 .. Len(w) + Len(s) : t[i] = IF i <= Len(w) THEN w[i] ELSE s[i - Len(w)]
    BY ConcatProperties
  <1>3. d + Len(s) \in 0 .. Len(t) /\ Len(t) - (d + Len(s)) = Len(w) - d
    BY <1>1, <1>2
  <1> HIDE DEF t
  <1>4. ASSUME NEW i \in 1 .. Len(t)
        PROVE  /\ i > Len(w) - d => t[i] = Nth(g, c, h + (i - (Len(w) - d)))
               /\ i <= Len(w) - d => t[i].track # g
    <2>1. CASE i <= Len(w)
      <3>1. i \in 1 .. Len(w) /\ t[i] = w[i]
        BY <1>1, <1>2, <2>1
      <3> QED BY <3>1 DEF Fits
    <2>2. CASE i > Len(w)
      <3>1. i - Len(w) \in 1 .. Len(s) /\ t[i] = s[i - Len(w)]
        BY <1>1, <1>2, <2>2
      <3>2. h + (d + (i - Len(w))) = h + (i - (Len(w) - d)) /\ ~(i <= Len(w) - d)
        BY <1>1, <2>2
      <3> QED BY <3>1, <3>2
    <2> QED BY <1>1, <1>2, <2>1, <2>2
  <1> QED BY <1>3, <1>4 DEF Fits, t

LEMMA FitsSwap ==
  ASSUME NEW a \in Seq(Units), NEW b \in Seq(Units), NEW a2 \in Seq(Units),
         NEW d, NEW h, NEW g, NEW c, Fits(a \o b, d, h, g, c),
         \A i \in 1 .. Len(a) : a[i].track # g, \A i \in 1 .. Len(a2) : a2[i].track # g
  PROVE  Fits(a2 \o b, d, h, g, c)
  <1> DEFINE w == a \o b
             t == a2 \o b
  <1>1. Len(a) \in Nat /\ Len(b) \in Nat /\ Len(a2) \in Nat
    BY OfSequence
  <1>2. /\ Len(w) = Len(a) + Len(b)
        /\ \A i \in 1 .. Len(a) + Len(b) : w[i] = IF i <= Len(a) THEN a[i] ELSE b[i - Len(a)]
    BY ConcatProperties
  <1>3. /\ Len(t) = Len(a2) + Len(b)
        /\ \A i \in 1 .. Len(a2) + Len(b) : t[i] = IF i <= Len(a2) THEN a2[i] ELSE b[i - Len(a2)]
    BY ConcatProperties
  <1>4. /\ d \in 0 .. Len(w)
        /\ \A i \in 1 .. Len(w) :
             /\ i > Len(w) - d => w[i] = Nth(g, c, h + (i - (Len(w) - d)))
             /\ i <= Len(w) - d => w[i].track # g
    BY DEF Fits
  <1> HIDE DEF w, t
  <1>5. d <= Len(b)
    <2> SUFFICES ASSUME d > Len(b) PROVE FALSE
      BY <1>1, <1>2, <1>4
    <2>1. Len(a) \in 1 .. Len(a) /\ Len(a) \in 1 .. Len(w) /\ Len(a) > Len(w) - d
      BY <1>1, <1>2, <1>4
    <2>2. w[Len(a)] = a[Len(a)] /\ w[Len(a)].track = g
      BY <1>1, <1>2, <1>4, <2>1, NthIs
    <2> QED BY <2>1, <2>2
  <1>6. d \in 0 .. Len(t)
    BY <1>1, <1>2, <1>3, <1>4, <1>5
  <1>7. ASSUME NEW i \in 1 .. Len(t)
        PROVE  /\ i > Len(t) - d => t[i] = Nth(g, c, h + (i - (Len(t) - d)))
               /\ i <= Len(t) - d => t[i].track # g
    <2>1. CASE i <= Len(a2)
      <3>1. i \in 1 .. Len(a2) /\ i \in 1 .. Len(a2) + Len(b)
        BY <1>1, <1>3, <2>1
      <3>2. t[i].track # g
        BY <1>3, <2>1, <3>1
      <3>3. ~(i > Len(t) - d)
        BY <1>1, <1>2, <1>3, <1>4, <1>5, <2>1
      <3> QED BY <3>2, <3>3
    <2>2. CASE i > Len(a2)
      <3> DEFINE j == i - Len(a2) + Len(a)
      <3>1. j \in 1 .. Len(w) /\ j - Len(a) = i - Len(a2) /\ j > Len(a)
        BY <1>1, <1>2, <1>3, <2>2
      <3>2. j - (Len(w) - d) = i - (Len(t) - d) /\ (j > Len(w) - d <=> i > Len(t) - d)
        BY <1>1, <1>2, <1>3, <1>4
      <3>3. (j <= Len(w) - d <=> i <= Len(t) - d)
        BY <1>1, <1>2, <1>3, <1>4
      <3> HIDE DEF j
      <3>4. w[j] = b[j - Len(a)]
        BY <1>1, <1>2, <3>1
      <3>5. t[i] = b[i - Len(a2)]
        BY <1>1, <1>3, <2>2
      <3>6. w[j] = t[i]
        BY <3>1, <3>4, <3>5
      <3> QED BY <1>4, <3>1, <3>2, <3>3, <3>6
    <2> QED BY <1>1, <1>3, <2>1, <2>2
  <1> QED BY <1>6, <1>7 DEF Fits, t

\* A sequence is its first element and the rest.
LEMMA HeadAndTail ==
  ASSUME NEW s \in Seq(Units), s # <<>>
  PROVE  <<Head(s)>> \o Tail(s) = s
  <1>1. Head(s) \in Units /\ Tail(s) \in Seq(Units) /\ Len(s) \in Nat /\ Len(s) > 0
    BY OfSequence
  <1>2. SubSeq(s, 1, Len(s)) = <<s[1]>> \o SubSeq(s, 1 + 1, Len(s))
    BY <1>1, SubSeqRecursiveFirst
  <1>3. Tail(s) = SubSeq(s, 2, Len(s)) /\ SubSeq(s, 1, Len(s)) = s /\ Head(s) = s[1]
    BY TailIsSubSeq, SubSeqFull, OfSequence
  <1> QED BY <1>2, <1>3

LEMMA FitsRemove ==
  ASSUME NEW a \in Seq(Units), NEW b \in Seq(Units), b # <<>>,
         NEW d, NEW h, NEW g, NEW c, Fits(a \o b, d, h, g, c),
         Head(b).track # g \/ Head(b).codec # c
  PROVE  Fits(a \o Tail(b), d, h, g, c)
  <1> DEFINE w == a \o b
             p == <<Head(b)>>
  <1>1. /\ Len(a) \in Nat /\ Len(b) \in Nat /\ Len(b) > 0 /\ Head(b) = b[1] /\ Head(b) \in Units
        /\ Tail(b) \in Seq(Units) /\ p \in Seq(Units) /\ Len(p) = 1 /\ p[1] = Head(b)
    BY OfSequence, OneUnit
  <1>2. /\ Len(w) = Len(a) + Len(b)
        /\ \A i \in 1 .. Len(a) + Len(b) : w[i] = IF i <= Len(a) THEN a[i] ELSE b[i - Len(a)]
    BY ConcatProperties
  <1>3. /\ d \in 0 .. Len(w)
        /\ \A i \in 1 .. Len(w) :
             /\ i > Len(w) - d => w[i] = Nth(g, c, h + (i - (Len(w) - d)))
             /\ i <= Len(w) - d => w[i].track # g
    BY DEF Fits
  <1>4. (a \o p) \o Tail(b) = a \o b
    <2>1. (a \o p) \o Tail(b) = a \o (p \o Tail(b))
      BY <1>1, ConcatAssociative
    <2> QED BY <2>1, HeadAndTail
  <1>5. /\ a \o p \in Seq(Units) /\ Len(a \o p) = Len(a) + 1
        /\ \A i \in 1 .. Len(a) + 1 : (a \o p)[i] = IF i <= Len(a) THEN a[i] ELSE p[i - Len(a)]
    BY <1>1, ConcatProperties
  <1> HIDE DEF w, p
  <1>6. w[Len(a) + 1] = Head(b) /\ Len(a) + 1 \in 1 .. Len(w)
    <2>1. Len(a) + 1 \in 1 .. Len(a) + Len(b) /\ ~(Len(a) + 1 <= Len(a)) /\ Len(a) + 1 - Len(a) = 1
      BY <1>1
    <2> QED BY <1>1, <1>2, <2>1
  <1>7. Len(a) + 1 <= Len(w) - d
    <2>1. ~(Len(a) + 1 > Len(w) - d)
      <3> SUFFICES ASSUME Len(a) + 1 > Len(w) - d PROVE FALSE
        OBVIOUS
      <3> DEFINE j == Len(a) + 1
      <3>3. j \in 1 .. Len(w) /\ j > Len(w) - d /\ w[j] = Head(b)
        BY <1>6
      <3> HIDE DEF j
      <3>1. \E k : Head(b) = Nth(g, c, k)
        BY <1>3, <3>3, Zenon
      <3>2. Head(b).track = g /\ Head(b).codec = c
        BY <3>1, NthIs
      <3> QED BY <3>2
    <2> QED BY <1>1, <1>2, <1>3, <2>1
  <1>8. Head(b).track # g
    BY <1>3, <1>6, <1>7
  <1>9. \A i \in 1 .. Len(a) : a[i].track # g
    <2> SUFFICES ASSUME NEW i \in 1 .. Len(a) PROVE a[i].track # g
      OBVIOUS
    <2>1. i \in 1 .. Len(w) /\ i \in 1 .. Len(a) + Len(b) /\ i <= Len(w) - d /\ i <= Len(a)
      BY <1>1, <1>2, <1>3, <1>7
    <2> QED BY <1>2, <1>3, <2>1
  <1>10. \A i \in 1 .. Len(a \o p) : (a \o p)[i].track # g
    <2> SUFFICES ASSUME NEW i \in 1 .. Len(a) + 1 PROVE (a \o p)[i].track # g
      BY <1>5
    <2>1. CASE i <= Len(a)
      BY <1>1, <1>5, <1>9, <2>1
    <2>2. CASE ~(i <= Len(a))
      <3>1. i - Len(a) = 1
        BY <1>1, <2>2
      <3> QED BY <1>1, <1>5, <1>8, <2>2, <3>1
    <2> QED BY <2>1, <2>2
  <1>11. Fits((a \o p) \o Tail(b), d, h, g, c)
    BY <1>4
  <1> QED BY <1>1, <1>5, <1>9, <1>10, <1>11, FitsSwap

LEMMA FitsDrop ==
  ASSUME NEW w \in Seq(Units), NEW n \in 0 .. Len(w), NEW d \in Nat, NEW h \in Nat, NEW g, NEW c,
         Fits(w, d, h, g, c)
  PROVE  \E m \in Nat : /\ Cardinality({i \in 1 .. n : w[i].track = g}) = m
                       /\ Fits(SubSeq(w, n + 1, Len(w)), d - m, h + m, g, c)
  <1> DEFINE t == SubSeq(w, n + 1, Len(w))
             z == Len(w) - d
             m == IF n > z THEN n - z ELSE 0
             S == {i \in 1 .. n : w[i].track = g}
  <1>1. Len(w) \in Nat /\ d <= Len(w) /\ z \in Nat /\ n \in Nat /\ n <= Len(w)
    BY OfSequence DEF Fits
  <1>2. Len(t) = Len(w) - n /\ \A i \in 1 .. Len(w) - n : t[i] = w[n + i]
    BY CutSequence
  <1>3. \A i \in 1 .. Len(w) :
          /\ i > z => w[i] = Nth(g, c, h + (i - z))
          /\ i <= z => w[i].track # g
    BY DEF Fits
  <1> HIDE DEF t, z
  <1>4. m \in Nat
    BY <1>1
  <1>5. \A i \in 1 .. n : w[i].track = g <=> i > z
    <2> SUFFICES ASSUME NEW i \in 1 .. n PROVE w[i].track = g <=> i > z
      OBVIOUS
    <2>1. i \in 1 .. Len(w)
      BY <1>1
    <2>2. i > z => w[i].track = g
      BY <1>3, <2>1, NthIs
    <2>3. ~(i > z) => w[i].track # g
      <3>1. ~(i > z) => i <= z
        BY <1>1
      <3> QED BY <1>3, <2>1, <3>1
    <2> QED BY <2>2, <2>3
  <1>6. S = (z + 1) .. n
    <2>1. \A i \in S : i \in (z + 1) .. n
      BY <1>1, <1>5
    <2>2. \A i \in (z + 1) .. n : i \in 1 .. n /\ i > z
      BY <1>1
    <2> QED BY <1>5, <2>1, <2>2
  <1>7. Cardinality(S) = m
    <2>1. Cardinality((z + 1) .. n) = IF z + 1 > n THEN 0 ELSE n - (z + 1) + 1
      BY <1>1, FS_Interval
    <2>2. m = IF z + 1 > n THEN 0 ELSE n - (z + 1) + 1
      BY <1>1
    <2> HIDE DEF m, S
    <2> QED BY <1>6, <2>1, <2>2
  <1>8. Fits(t, d - m, h + m, g, c)
    <2>1. CASE n > z
      <3>1. m = n - z /\ d - m = Len(t) /\ Len(t) \in Nat
        BY <1>1, <1>2, <2>1 DEF z
      <3> HIDE DEF m
      <3>2. ASSUME NEW i \in 1 .. Len(t)
            PROVE  t[i] = Nth(g, c, (h + m) + i)
        <4>1. n + i \in 1 .. Len(w) /\ n + i > z /\ h + (n + i - z) = (h + m) + i
          BY <1>1, <1>2, <2>1, <3>1
        <4>2. t[i] = w[n + i]
          BY <1>1, <1>2
        <4>3. PICK j \in 1 .. Len(w) : j = n + i
          BY <4>1
        <4>6. t[i] = w[j]
          BY <4>2, <4>3
        <4>4. j > z /\ h + (j - z) = (h + m) + i /\ t[i] = w[j]
          BY <1>1, <4>1, <4>3, <4>6
        <4>5. w[j] = Nth(g, c, h + (j - z))
          BY <1>3, <4>4
        <4> QED BY <4>4, <4>5
      <3>3. Len(t) - (d - m) = 0
        BY <3>1
      <3>4. \A i \in 1 .. Len(t) : i - 0 = i /\ i > 0 /\ ~(i <= 0)
        BY <3>1
      <3>5. d - m \in 0 .. Len(t)
        BY <3>1
      <3> QED BY <3>2, <3>3, <3>4, <3>5 DEF Fits
    <2>2. CASE ~(n > z)
      <3>1. m = 0 /\ d - m = d /\ h + m = h /\ Len(t) - d = z - n /\ d \in 0 .. Len(t)
        BY <1>1, <1>2, <2>2 DEF z
      <3> HIDE DEF m
      <3>2. ASSUME NEW i \in 1 .. Len(t)
            PROVE  /\ i > z - n => t[i] = Nth(g, c, h + (i - (z - n)))
                   /\ i <= z - n => t[i].track # g
        <4>1. /\ n + i \in 1 .. Len(w) /\ (n + i > z <=> i > z - n) /\ (n + i <= z <=> i <= z - n)
              /\ n + i - z = i - (z - n)
          BY <1>1, <1>2
        <4>2. t[i] = w[n + i]
          BY <1>1, <1>2
        <4>3. PICK j \in 1 .. Len(w) : j = n + i
          BY <4>1
        <4>4. /\ (j > z <=> i > z - n) /\ (j <= z <=> i <= z - n)
              /\ j - z = i - (z - n)
          BY <1>1, <1>2, <4>1, <4>3
        <4>6. t[i] = w[j]
          BY <4>2, <4>3
        <4>5. /\ j > z => w[j] = Nth(g, c, h + (j - z))
              /\ j <= z => w[j].track # g
          BY <1>3
        <4> QED BY <4>4, <4>5, <4>6
      <3> QED BY <3>1, <3>2 DEF Fits
    <2> QED BY <2>1, <2>2
  <1> HIDE DEF m, S
  <1>9. Cardinality({i \in 1 .. n : w[i].track = g}) = m
    BY <1>7 DEF S
  <1>10. Fits(SubSeq(w, n + 1, Len(w)), d - m, h + m, g, c)
    BY <1>8 DEF t
  <1> QED BY <1>4, <1>9, <1>10

LEMMA DropConcat ==
  ASSUME NEW a \in Seq(Units), NEW b \in Seq(Units), NEW n \in 0 .. Len(a)
  PROVE  SubSeq(a, n + 1, Len(a)) \o b = SubSeq(a \o b, n + 1, Len(a \o b))
  <1> DEFINE w == a \o b
             l == SubSeq(a, n + 1, Len(a))
             r == SubSeq(w, n + 1, Len(w))
             v == l \o b
  <1>1. Len(a) \in Nat /\ Len(b) \in Nat /\ n \in Nat /\ n <= Len(a)
    BY OfSequence
  <1>2. /\ w \in Seq(Units) /\ Len(w) = Len(a) + Len(b)
        /\ \A i \in 1 .. Len(a) + Len(b) : w[i] = IF i <= Len(a) THEN a[i] ELSE b[i - Len(a)]
    BY ConcatProperties
  <1>3. /\ l \in Seq(Units) /\ Len(l) = Len(a) - n
        /\ \A i \in 1 .. Len(a) - n : l[i] = a[n + i]
    BY CutSequence
  <1> HIDE DEF w, l
  <1>4. n \in 0 .. Len(w)
    BY <1>1, <1>2
  <1>5. /\ r \in Seq(Units) /\ Len(r) = Len(w) - n
        /\ \A i \in 1 .. Len(w) - n : r[i] = w[n + i]
    BY <1>2, <1>4, CutSequence
  <1>6. /\ v \in Seq(Units) /\ Len(v) = Len(l) + Len(b)
        /\ \A i \in 1 .. Len(l) + Len(b) : v[i] = IF i <= Len(l) THEN l[i] ELSE b[i - Len(l)]
    BY <1>3, ConcatProperties
  <1> HIDE DEF r, v
  <1>7. Len(v) = Len(r)
    BY <1>1, <1>2, <1>3, <1>5, <1>6
  <1>8. ASSUME NEW i \in 1 .. Len(v) PROVE v[i] = r[i]
    <2>1. i \in 1 .. Len(l) + Len(b) /\ n + i \in 1 .. Len(a) + Len(b) /\ r[i] = w[n + i]
      <3>1. i \in 1 .. Len(l) + Len(b)
        BY <1>6
      <3>2. n + i \in 1 .. Len(a) + Len(b) /\ i \in 1 .. Len(w) - n
        BY <1>1, <1>2, <1>3, <3>1
      <3> QED BY <1>5, <3>1, <3>2
    <2>2. CASE i <= Len(l)
      <3>1. i \in 1 .. Len(a) - n /\ n + i <= Len(a)
        BY <1>1, <1>3, <2>1, <2>2
      <3>2. v[i] = l[i] /\ l[i] = a[n + i]
        BY <1>3, <1>6, <2>1, <2>2, <3>1
      <3>3. w[n + i] = a[n + i]
        BY <1>2, <2>1, <3>1
      <3> QED BY <2>1, <3>2, <3>3
    <2>3. CASE ~(i <= Len(l))
      <3>1. ~(n + i <= Len(a)) /\ n + i - Len(a) = i - Len(l)
        BY <1>1, <1>3, <2>1, <2>3
      <3>2. v[i] = b[i - Len(l)]
        BY <1>6, <2>1, <2>3
      <3>3. w[n + i] = b[n + i - Len(a)]
        BY <1>2, <2>1, <3>1
      <3> QED BY <2>1, <3>1, <3>2, <3>3
    <2> QED BY <2>2, <2>3
  <1>9. v = r
    BY <1>5, <1>6, <1>7, <1>8, SeqEqual
  <1> QED BY <1>9 DEF v, r, l, w

\* What is old is not waited for.
LEMMA OldFits ==
  ASSUME NEW g \in Nat, NEW w \in Seq(OfTracks(0 .. g - 1)), NEW h, NEW c
  PROVE  Fits(w, 0, h, g, c)
  <1>1. Len(w) \in Nat /\ \A i \in 1 .. Len(w) : w[i] \in OfTracks(0 .. g - 1)
    BY OfSequence
  <1>2. \A u \in OfTracks(0 .. g - 1) : u.track # g
    BY DEF OfTracks
  <1>3. \A i \in 1 .. Len(w) : w[i].track # g
    BY <1>1, <1>2
  <1>4. \A i \in 1 .. Len(w) : ~(i > Len(w) - 0)
    BY <1>1
  <1>5. 0 \in 0 .. Len(w)
    BY <1>1
  <1> QED BY <1>3, <1>4, <1>5 DEF Fits

LEMMA RingContentsThen ==
  ASSUME Ring!RingAssumption, Ring!IInv', NEW U, slots' \in [Ring!Slots -> U]
  PROVE  Ring!Contents' \in Seq(U)
  <1>1. RB!RingAssumption /\ RB!TypeOK' /\ slots' \in [RB!Slots -> U]
    BY SameRing DEF RB!IInv
  <1>2. /\ RB!Contents' \in Seq(Units) /\ Len(RB!Contents') = RB!AvailableRead'
        /\ RB!AvailableRead' \in Nat /\ RB!AvailableRead' <= Size
        /\ \A i \in 1 .. RB!AvailableRead' :
             RB!Contents'[i] = slots'[(readPos' + (i - 1)) % RB!Capacity]
    BY <1>1, RB!ContentsThen
  <1>3. /\ readPos' \in RB!Slots /\ writePos' \in RB!Slots /\ Size \in Nat
    BY <1>1, RB!Sizes DEF RB!TypeOK
  <1>4. ASSUME NEW i \in 1 .. RB!AvailableRead' PROVE RB!Contents'[i] \in U
    <2>1. i - 1 \in Nat /\ i - 1 <= Size
      BY <1>2, <1>3
    <2>2. (readPos' + (i - 1)) % RB!Capacity \in RB!Slots
      BY <1>1, <1>3, <2>1, RB!Ahead
    <2> QED BY <1>1, <1>2, <2>2
  <1>5. RB!Contents' \in Seq(U)
    BY <1>2, <1>4, InSequences
  <1> QED BY <1>5, SameRing

\* Four sequences one after the other.
LEMMA Regroup ==
  ASSUME NEW U, NEW a \in Seq(U), NEW b \in Seq(U), NEW c \in Seq(U), NEW d \in Seq(U)
  PROVE  /\ ((a \o b) \o c) \o d \in Seq(U)
         /\ ((a \o b) \o c) \o d = (a \o b) \o (c \o d)
         /\ ((a \o b) \o c) \o d = a \o (b \o (c \o d))
         /\ a \o b \in Seq(U) /\ c \o d \in Seq(U) /\ b \o (c \o d) \in Seq(U)
  <1>1. a \o b \in Seq(U) /\ c \o d \in Seq(U)
    BY ConcatProperties
  <1>2. (a \o b) \o c \in Seq(U) /\ b \o (c \o d) \in Seq(U)
    BY <1>1, ConcatProperties
  <1>3. ((a \o b) \o c) \o d \in Seq(U)
    BY <1>2, ConcatProperties
  <1>4. ((a \o b) \o c) \o d = (a \o b) \o (c \o d)
    <2> DEFINE p == a \o b
    <2>1. p \in Seq(U)
      BY <1>1
    <2> HIDE DEF p
    <2>2. (p \o c) \o d = p \o (c \o d)
      BY <2>1
    <2> QED BY <2>2 DEF p
  <1>5. (a \o b) \o (c \o d) = a \o (b \o (c \o d))
    <2> DEFINE q == c \o d
    <2>1. q \in Seq(U)
      BY <1>1
    <2> HIDE DEF q
    <2>2. (a \o b) \o q = a \o (b \o q)
      BY <2>1
    <2> QED BY <2>2 DEF q
  <1> QED BY <1>1, <1>2, <1>3, <1>4, <1>5

LEMMA WaitingIs ==
  ASSUME NEW U, Ring!Contents \in Seq(U), mp3 \in Seq(U), local \in Seq(U), aac \in Seq(U)
  PROVE  /\ Waiting \in Seq(U)
         /\ Waiting = Ring!Contents \o (mp3 \o (local \o aac))
         /\ Waiting = (Ring!Contents \o mp3) \o (local \o aac)
         /\ Ring!Contents \o mp3 \in Seq(U)
         /\ mp3 \o (local \o aac) \in Seq(U)
         /\ local \o aac \in Seq(U)
  <1>1. Waiting = ((Ring!Contents \o mp3) \o local) \o aac
    BY DEF Waiting
  <1>2. \A a, b, c, d \in Seq(U) :
          /\ ((a \o b) \o c) \o d \in Seq(U)
          /\ ((a \o b) \o c) \o d = (a \o b) \o (c \o d)
          /\ ((a \o b) \o c) \o d = a \o (b \o (c \o d))
          /\ a \o b \in Seq(U) /\ c \o d \in Seq(U) /\ b \o (c \o d) \in Seq(U)
    BY Regroup
  <1>3. /\ ((Ring!Contents \o mp3) \o local) \o aac \in Seq(U)
        /\ ((Ring!Contents \o mp3) \o local) \o aac = (Ring!Contents \o mp3) \o (local \o aac)
        /\ ((Ring!Contents \o mp3) \o local) \o aac = Ring!Contents \o (mp3 \o (local \o aac))
        /\ Ring!Contents \o mp3 \in Seq(U) /\ local \o aac \in Seq(U)
        /\ mp3 \o (local \o aac) \in Seq(U)
    BY <1>2, Zenon
  <1> QED BY <1>1, <1>3

LEMMA WaitingThen ==
  ASSUME NEW U, Ring!Contents' \in Seq(U), mp3' \in Seq(U), local' \in Seq(U), aac' \in Seq(U)
  PROVE  /\ Waiting' \in Seq(U)
         /\ Waiting' = Ring!Contents' \o (mp3' \o (local' \o aac'))
         /\ Waiting' = (Ring!Contents' \o mp3') \o (local' \o aac')
         /\ Ring!Contents' \o mp3' \in Seq(U)
  <1>1. Waiting' = ((Ring!Contents' \o mp3') \o local') \o aac'
    BY DEF Waiting
  <1>2. \A a, b, c, d \in Seq(U) :
          /\ ((a \o b) \o c) \o d \in Seq(U)
          /\ ((a \o b) \o c) \o d = (a \o b) \o (c \o d)
          /\ ((a \o b) \o c) \o d = a \o (b \o (c \o d))
          /\ a \o b \in Seq(U) /\ c \o d \in Seq(U) /\ b \o (c \o d) \in Seq(U)
    BY Regroup
  <1>3. /\ ((Ring!Contents' \o mp3') \o local') \o aac' \in Seq(U)
        /\ ((Ring!Contents' \o mp3') \o local') \o aac' = (Ring!Contents' \o mp3') \o (local' \o aac')
        /\ ((Ring!Contents' \o mp3') \o local') \o aac' = Ring!Contents' \o (mp3' \o (local' \o aac'))
        /\ Ring!Contents' \o mp3' \in Seq(U) /\ local' \o aac' \in Seq(U)
        /\ mp3' \o (local' \o aac') \in Seq(U)
    BY <1>2, Zenon
  <1> QED BY <1>1, <1>3

\* What waits is behind the old and is what has been delivered and not been heard.
Whole == detected \in {"none", format.codec} =>
           Fits(Waiting, Due, heard, gen, format.codec)

LEMMA SaysWhole ==
  ASSUME PipelineAssumption, IInv, Whole
  PROVE  NothingLost
  <1>1. Waiting \in Seq(Units)
    <2>1. Ring!Contents \in Seq(Units)
      BY Constants, RingContents DEF IInv
    <2> QED BY <2>1, WaitingIs DEF IInv, TypeOK
  <1> SUFFICES ASSUME detected \in {"none", format.codec} PROVE NothingLost
    BY DEF NothingLost
  <1> DEFINE w == Waiting
             d == Due
             h == heard
  <1>2. Fits(w, d, h, gen, format.codec)
    BY DEF Whole
  <1>3. Len(w) \in Nat
    BY <1>1, OfSequence
  <1> HIDE DEF w, d, h
  <1>4. d \in 0 .. Len(w)
    BY <1>2 DEF Fits
  <1>5. ASSUME NEW i \in 1 .. Len(w)
        PROVE  LET k == i - (Len(w) - d)
               IN IF k > 0 THEN w[i] = [track |-> gen, n |-> h + k, codec |-> format.codec]
                  ELSE w[i].track # gen
    <2>1. /\ (i - (Len(w) - d) > 0 => i > Len(w) - d)
          /\ (~(i - (Len(w) - d) > 0) => i <= Len(w) - d)
      BY <1>3, <1>4
    <2> QED BY <1>2, <2>1 DEF Fits, Nth
  <1> QED BY <1>4, <1>5 DEF NothingLost, w, d, h

LEMMA Associative ==
  \A s, t, u \in Seq(Units) : (s \o t) \o u = s \o (t \o u)
  BY ConcatAssociative

\* The head of a sequence moves on to the end of the one before.
LEMMA MovesHead ==
  ASSUME NEW a \in Seq(Units), NEW s \in Seq(Units), s # <<>>
  PROVE  (a \o <<Head(s)>>) \o Tail(s) = a \o s
  <1> DEFINE p == <<Head(s)>>
             t == Tail(s)
  <1>1. p \in Seq(Units) /\ t \in Seq(Units) /\ p \o t = s
    BY OfSequence, HeadAndTail
  <1> HIDE DEF p, t
  <1>2. (a \o p) \o t = a \o (p \o t)
    BY <1>1, Associative, Zenon
  <1> QED BY <1>1, <1>2 DEF p, t

LEMMA HeadOfConcat ==
  ASSUME NEW s \in Seq(Units), NEW t \in Seq(Units), s # <<>>
  PROVE  /\ s \o t \in Seq(Units) /\ s \o t # <<>>
         /\ Head(s \o t) = Head(s) /\ Tail(s \o t) = Tail(s) \o t
         /\ s \o t = <<Head(s)>> \o (Tail(s) \o t)
         /\ Tail(s) \o t \in Seq(Units)
  <1> DEFINE p == <<Head(s)>>
             r == Tail(s)
             w == s \o t
  <1>1. /\ p \in Seq(Units) /\ r \in Seq(Units) /\ p \o r = s /\ Len(s) \in Nat /\ Len(s) > 0
        /\ Head(s) = s[1] /\ Len(p) = 1 /\ Len(r) = Len(s) - 1 /\ Len(t) \in Nat
        /\ \A i \in 1 .. Len(s) - 1 : r[i] = s[i + 1]
    BY OfSequence, OneUnit, HeadAndTail
  <1>2. /\ w \in Seq(Units) /\ Len(w) = Len(s) + Len(t)
        /\ \A i \in 1 .. Len(s) + Len(t) : w[i] = IF i <= Len(s) THEN s[i] ELSE t[i - Len(s)]
    BY ConcatProperties
  <1>3. s \o t = p \o (r \o t) /\ r \o t \in Seq(Units)
    <2> HIDE DEF p, r
    <2>1. (p \o r) \o t = p \o (r \o t)
      BY <1>1, Associative, Zenon
    <2>2. r \o t \in Seq(Units)
      BY <1>1, ConcatProperties
    <2> QED BY <1>1, <2>1, <2>2
  <1> HIDE DEF w
  <1>4. w # <<>> /\ Head(w) = w[1] /\ w[1] = s[1]
    <2>1. 1 \in 1 .. Len(s) + Len(t) /\ 1 <= Len(s) /\ Len(w) # 0
      BY <1>1, <1>2
    <2>2. w # <<>>
      BY <1>2, <2>1, OfSequence
    <2> QED BY <1>2, <2>1, <2>2, OfSequence
  <1>5. Tail(w) = r \o t
    <2> DEFINE v == Tail(w)
               u == r \o t
    <2>1. v \in Seq(Units) /\ Len(v) = Len(w) - 1 /\ \A i \in 1 .. Len(w) - 1 : v[i] = w[i + 1]
      BY <1>2, <1>4, OfSequence
    <2>2. /\ u \in Seq(Units) /\ Len(u) = Len(r) + Len(t)
          /\ \A i \in 1 .. Len(r) + Len(t) : u[i] = IF i <= Len(r) THEN r[i] ELSE t[i - Len(r)]
      BY <1>1, ConcatProperties
    <2> HIDE DEF v, u, r, p
    <2>3. Len(v) = Len(u)
      BY <1>1, <1>2, <2>1, <2>2
    <2>4. ASSUME NEW i \in 1 .. Len(v) PROVE v[i] = u[i]
      <3>1. /\ i \in 1 .. Len(w) - 1 /\ i \in 1 .. Len(r) + Len(t)
            /\ i + 1 \in 1 .. Len(s) + Len(t)
        BY <1>1, <1>2, <2>1, <2>2
      <3>2. v[i] = IF i + 1 <= Len(s) THEN s[i + 1] ELSE t[i + 1 - Len(s)]
        BY <1>2, <2>1, <3>1
      <3>3. CASE i <= Len(r)
        <4>1. i + 1 <= Len(s) /\ i \in 1 .. Len(s) - 1
          BY <1>1, <3>1, <3>3
        <4> QED BY <1>1, <2>2, <3>1, <3>2, <3>3, <4>1
      <3>4. CASE ~(i <= Len(r))
        <4>1. ~(i + 1 <= Len(s)) /\ i + 1 - Len(s) = i - Len(r)
          BY <1>1, <3>1, <3>4
        <4> QED BY <2>2, <3>1, <3>2, <3>4, <4>1
      <3> QED BY <3>3, <3>4
    <2>5. v = u
      BY <2>1, <2>2, <2>3, <2>4, SeqEqual
    <2> QED BY <2>5 DEF v, u
  <1> QED BY <1>1, <1>2, <1>3, <1>4, <1>5 DEF w, p, r

\* What the buffers hold after a step.
LEMMA UnitsWait ==
  ASSUME PipelineAssumption, IInv
  PROVE  /\ Ring!Contents \in Seq(Units) /\ mp3 \in Seq(Units) /\ local \in Seq(Units)
         /\ aac \in Seq(Units) /\ <<>> \in Seq(Units)
  BY Constants, RingContents DEF IInv, TypeOK

LEMMA UnitsWaitThen ==
  ASSUME PipelineAssumption, IInv'
  PROVE  /\ Ring!Contents' \in Seq(Units) /\ mp3' \in Seq(Units) /\ local' \in Seq(Units)
         /\ aac' \in Seq(Units)
  <1>1. slots' \in [Ring!Slots -> Units]
    BY DEF IInv, Ring!IInv, Ring!TypeOK
  <1> QED BY <1>1, Constants, RingContentsThen DEF IInv, TypeOK

\* What the decoder hands on stays where it is in the order.
LEMMA HandsOn ==
  ASSUME PipelineAssumption, IInv, IInv', [Next]_vars, ~Spoilt, ~torn,
         TakeChunk \/ PutAside \/ WrittenAac \/ WrittenMp3
  PROVE  Waiting' = Waiting
  <1>0. /\ Ring!RingAssumption /\ Ring!IInv /\ Ring!IInv' /\ ThreadInv /\ TypeOK
        /\ Ring!Contents \in Seq(Units) /\ mp3 \in Seq(Units) /\ local \in Seq(Units)
        /\ aac \in Seq(Units) /\ <<>> \in Seq(Units)
    BY Constants, UnitsWait DEF IInv
  <1> DEFINE C == Ring!Contents
  <1>1. /\ Waiting = C \o (mp3 \o (local \o aac))
        /\ Waiting = (C \o mp3) \o (local \o aac) /\ local \o aac \in Seq(Units)
    BY <1>0, WaitingIs
  <1>2. /\ Waiting' = Ring!Contents' \o (mp3' \o (local' \o aac'))
        /\ Waiting' = (Ring!Contents' \o mp3') \o (local' \o aac')
    BY UnitsWaitThen, WaitingThen
  <1>3. CASE TakeChunk
    <2>1. Ring!Contents' = C /\ mp3' = mp3
      BY <1>3, RingKeeps DEF TakeChunk, ring
    <2>2. local = <<>>
      BY <1>0, <1>3 DEF TakeChunk, ThreadInv
    <2>3. PICK n \in 0 .. Len(aac) :
            local' = SubSeq(aac, 1, n) /\ aac' = SubSeq(aac, n + 1, Len(aac))
      BY <1>0, <1>3, TakenIs DEF TakeChunk
    <2>4. local' \o aac' = aac
      <3>1. /\ Len(aac) \in Nat /\ 1 \in 1 .. Len(aac) + 1 /\ n \in 1 - 1 .. Len(aac)
            /\ Len(aac) \in n .. Len(aac)
        BY <1>0, OfSequence
      <3>2. SubSeq(aac, 1, n) \o SubSeq(aac, n + 1, Len(aac)) = SubSeq(aac, 1, Len(aac))
        BY <1>0, <3>1, ConcatAdjacentSubSeq
      <3>3. SubSeq(aac, 1, Len(aac)) = aac
        BY <1>0, SubSeqFull
      <3> QED BY <2>3, <3>2, <3>3
    <2>5. local \o aac = aac
      BY <1>0, <2>2, EmptySeq
    <2> QED BY <1>1, <1>2, <2>1, <2>4, <2>5
  <1>4. CASE PutAside
    <2>1. Ring!Contents' = C /\ mp3' = mp3 \o local /\ local' = <<>> /\ aac' = aac
      BY <1>4, RingKeeps DEF PutAside, ring
    <2>2. (mp3 \o local) \o aac = mp3 \o (local \o aac)
      <3>1. mp3 \in Seq(Units) /\ local \in Seq(Units) /\ aac \in Seq(Units)
        BY <1>0
      <3> QED BY <3>1, Associative, Zenon
    <2>3. <<>> \o aac = aac
      BY <1>0, EmptySeq
    <2> QED BY <1>1, <1>2, <2>1, <2>2, <2>3
  <1>5. CASE WrittenAac
    <2>1. /\ local # <<>> /\ writing.data = <<Head(local)>> /\ mp3 = <<>> /\ mp3' = mp3
          /\ local' = Tail(local) /\ aac' = aac
      BY <1>0, <1>5 DEF WrittenAac, ThreadInv
    <2>2. writing.at = writePos
      BY <1>0, <2>1, OneUnit DEF Spoilt
    <2>3. Ring!Contents' = C \o <<Head(local)>>
      BY <1>0, <1>5, <2>1, <2>2, RingAppends DEF WrittenAac
    <2>4. local \o aac \in Seq(Units) /\ local \o aac = <<Head(local)>> \o (Tail(local) \o aac)
          /\ Tail(local) \o aac \in Seq(Units) /\ <<Head(local)>> \in Seq(Units)
      BY <1>0, <2>1, HeadOfConcat, OfSequence
    <2> DEFINE q == <<Head(local)>>
               x == Tail(local) \o aac
    <2>5. (C \o q) \o x = C \o (q \o x)
      <3>1. C \in Seq(Units) /\ q \in Seq(Units) /\ x \in Seq(Units)
        BY <1>0, <2>4
      <3> HIDE DEF C, q, x
      <3> QED BY <3>1, Associative, Zenon
    <2>6. <<>> \o x = x /\ <<>> \o (local \o aac) = local \o aac
      BY <2>4, EmptySeq
    <2>7. Waiting' = (C \o q) \o x
      BY <1>2, <2>1, <2>3, <2>6
    <2>8. Waiting = C \o (q \o x)
      BY <1>1, <2>1, <2>4, <2>6
    <2> QED BY <2>5, <2>7, <2>8
  <1>6. CASE WrittenMp3
    <2>1. /\ mp3 # <<>> /\ writing.data = <<Head(mp3)>> /\ mp3' = Tail(mp3)
          /\ local' = local /\ aac' = aac
      BY <1>0, <1>6 DEF WrittenMp3, ThreadInv
    <2>2. writing.at = writePos
      BY <1>0, <2>1, OneUnit DEF Spoilt
    <2>3. Ring!Contents' = C \o <<Head(mp3)>>
      BY <1>0, <1>6, <2>1, <2>2, RingAppends DEF WrittenMp3
    <2>4. (C \o <<Head(mp3)>>) \o Tail(mp3) = C \o mp3
      BY <1>0, <2>1, MovesHead
    <2> QED BY <1>1, <1>2, <2>1, <2>3, <2>4
  <1> QED BY <1>3, <1>4, <1>5, <1>6

\* None of what is old is of the current track.
LEMMA OldIsNot ==
  ASSUME gen \in Nat, NEW s \in Seq(Old)
  PROVE  s \in Seq(Units) /\ \A i \in 1 .. Len(s) : s[i].track # gen
  <1>1. \A u \in Old : u \in Units /\ u.track # gen
    BY DEF Old, OfTracks
  <1>2. Len(s) \in Nat /\ \A i \in 1 .. Len(s) : s[i] \in Old
    BY OfSequence
  <1>3. s \in Seq(Units)
    BY <1>1, <1>2, InSequences
  <1> QED BY <1>1, <1>2, <1>3

\* Where a clear has come between, what the decoder writes or gives up is old.
LEMMA GivesUpOld ==
  ASSUME PipelineAssumption, IInv, IInv', [Next]_vars, Spoilt \/ torn,
         StopMp3 \/ WrittenAac \/ WrittenMp3,
         NEW d, NEW h, NEW c, Fits(Waiting, d, h, gen, c)
  PROVE  Fits(Waiting', d, h, gen, c)
  <1>0. /\ Ring!RingAssumption /\ Ring!IInv /\ Ring!IInv' /\ ThreadInv /\ TypeOK /\ AgeInv
        /\ Ring!Contents \in Seq(Units) /\ mp3 \in Seq(Units) /\ local \in Seq(Units)
        /\ aac \in Seq(Units) /\ <<>> \in Seq(Units) /\ gen \in Nat
        /\ Ring!Contents' \in Seq(Units) /\ mp3' \in Seq(Units)
    BY Constants, UnitsWait, UnitsWaitThen, Types DEF IInv
  <1> DEFINE C == Ring!Contents
             C2 == Ring!Contents'
  <1>1. /\ Waiting = C \o (mp3 \o (local \o aac))
        /\ Waiting = (C \o mp3) \o (local \o aac) /\ local \o aac \in Seq(Units)
        /\ C \o mp3 \in Seq(Units)
    BY <1>0, WaitingIs
  <1>2. /\ Waiting' = C2 \o (mp3' \o (local' \o aac'))
        /\ Waiting' = (C2 \o mp3') \o (local' \o aac')
    BY UnitsWaitThen, WaitingThen
  <1>3. slots \in [Ring!Slots -> Old] /\ writing.data \in Seq(Old) /\ C \in Seq(Old)
    BY <1>0, RingContents DEF AgeInv
  <1>4. \A s \in Seq(Old) : s \in Seq(Units) /\ \A i \in 1 .. Len(s) : s[i].track # gen
    BY <1>0, OldIsNot
  <1>5. C2 \in Seq(Old)
    <2>1. CASE StopMp3
      <3>1. C2 = C
        BY <2>1, RingKeeps DEF StopMp3, ring
      <3> QED BY <1>3, <3>1
    <2>2. CASE WrittenAac \/ WrittenMp3
      <3>1. Ring!WriteEnd
        BY <2>2 DEF WrittenAac, WrittenMp3
      <3>2. slots' \in [Ring!Slots -> Old]
        BY <1>0, <1>3, <3>1, WriteFills
      <3> QED BY <1>0, <3>2, RingContentsThen
    <2> QED BY <2>1, <2>2
  <1>6. CASE torn
    <2>1. mp3 \in Seq(Old) /\ (StopMp3 \/ WrittenMp3) /\ local' = local /\ aac' = aac
      BY <1>0, <1>6 DEF AgeInv, ThreadInv, DecodingMp3, WrittenAac, StopMp3, WrittenMp3
    <2>2. mp3' \in Seq(Old)
      <3>1. mp3' \in {<<>>, Tail(mp3)} /\ (mp3' # <<>> => mp3 # <<>>)
        BY <1>6, <2>1 DEF StopMp3, WrittenMp3
      <3>2. mp3 # <<>> => Tail(mp3) \in Seq(Old)
        BY <2>1, OfSequence
      <3>3. <<>> \in Seq(Old)
        OBVIOUS
      <3> QED BY <3>1, <3>2, <3>3
    <2> DEFINE a == C \o mp3
               a2 == C2 \o mp3'
               b == local \o aac
    <2>3. a \in Seq(Old) /\ a2 \in Seq(Old) /\ b \in Seq(Units)
      BY <1>1, <1>3, <1>5, <2>1, <2>2, ConcatProperties
    <2>4. Waiting = a \o b /\ Waiting' = a2 \o b
      BY <1>1, <1>2, <2>1
    <2> HIDE DEF a, a2, b
    <2>5. /\ a \in Seq(Units) /\ \A i \in 1 .. Len(a) : a[i].track # gen
          /\ a2 \in Seq(Units) /\ \A i \in 1 .. Len(a2) : a2[i].track # gen
      BY <1>4, <2>3
    <2>6. Fits(a \o b, d, h, gen, c)
      BY <2>4
    <2>7. Fits(a2 \o b, d, h, gen, c)
      BY <2>3, <2>5, <2>6, FitsSwap
    <2> QED BY <2>4, <2>7
  <1>7. CASE ~torn
    <2>1. Spoilt /\ C = <<>> /\ writing.data # <<>>
      BY <1>0, <1>7, RingContents DEF Spoilt
    <2>2. PICK s \in Seq(Units), r \in Seq(Units) :
             /\ s # <<>> /\ writing.data = <<Head(s)>>
             /\ Waiting = s \o r /\ Waiting' = C2 \o (Tail(s) \o r)
      <3>1. CASE WrittenAac
        <4>1. /\ local # <<>> /\ writing.data = <<Head(local)>> /\ mp3 = <<>> /\ mp3' = mp3
              /\ local' = Tail(local) /\ aac' = aac
          BY <1>0, <3>1 DEF WrittenAac, ThreadInv
        <4>2. \A x \in Seq(Units) : <<>> \o x = x
          BY EmptySeq
        <4>3. Tail(local) \o aac \in Seq(Units)
          BY <1>0, <4>1, HeadOfConcat
        <4>4. Waiting = local \o aac
          BY <1>0, <1>1, <2>1, <4>1, <4>2
        <4>5. Waiting' = C2 \o (Tail(local) \o aac)
          BY <1>0, <1>2, <4>1, <4>2, <4>3
        <4> QED BY <1>0, <4>1, <4>4, <4>5
      <3>2. CASE WrittenMp3
        <4>1. /\ mp3 # <<>> /\ writing.data = <<Head(mp3)>> /\ mp3' = Tail(mp3)
              /\ local' = local /\ aac' = aac
          BY <1>0, <1>7, <3>2 DEF WrittenMp3, ThreadInv
        <4>2. mp3 \o (local \o aac) \in Seq(Units)
          BY <1>0, <1>1, ConcatProperties
        <4>3. Waiting = mp3 \o (local \o aac)
          BY <1>1, <2>1, <4>2, EmptySeq
        <4>4. Waiting' = C2 \o (Tail(mp3) \o (local \o aac))
          BY <1>2, <4>1
        <4> QED BY <1>0, <1>1, <4>1, <4>3, <4>4
      <3>3. ~StopMp3
        BY <1>0, <2>1 DEF StopMp3, ThreadInv
      <3> QED BY <3>1, <3>2, <3>3
    <2> DEFINE p == <<Head(s)>>
               b == Tail(s) \o r
    <2>3. p \in Seq(Old) /\ b \in Seq(Units) /\ s \o r = p \o b
      BY <1>3, <2>2, HeadOfConcat
    <2>4. Fits(p \o b, d, h, gen, c)
      BY <2>2, <2>3
    <2>5. /\ p \in Seq(Units) /\ \A i \in 1 .. Len(p) : p[i].track # gen
          /\ C2 \in Seq(Units) /\ \A i \in 1 .. Len(C2) : C2[i].track # gen
      BY <1>4, <1>5, <2>3
    <2> HIDE DEF p, b, C2
    <2>6. Fits(C2 \o b, d, h, gen, c)
      BY <2>3, <2>4, <2>5, FitsSwap
    <2> QED BY <2>2, <2>6 DEF b
  <1> QED BY <1>6, <1>7

\* What the decoders skip is old or of another format than the track.
LEMMA SkipsOther ==
  ASSUME PipelineAssumption, IInv, IInv', [Next]_vars, FailAac \/ SkipMp3,
         detected \in {"none", format.codec},
         NEW d, NEW h, Fits(Waiting, d, h, gen, format.codec)
  PROVE  Fits(Waiting', d, h, gen, format.codec)
  <1>0. /\ ThreadInv /\ AgeInv
        /\ Ring!Contents \in Seq(Units) /\ mp3 \in Seq(Units) /\ local \in Seq(Units)
        /\ aac \in Seq(Units) /\ <<>> \in Seq(Units) /\ gen \in Nat
    BY Constants, UnitsWait, Types DEF IInv
  <1> DEFINE C == Ring!Contents
  <1>1. /\ Waiting = C \o (mp3 \o (local \o aac))
        /\ Waiting = (C \o mp3) \o (local \o aac) /\ local \o aac \in Seq(Units)
        /\ C \o mp3 \in Seq(Units)
    BY <1>0, WaitingIs
  <1>2. /\ Waiting' = Ring!Contents' \o (mp3' \o (local' \o aac'))
        /\ Waiting' = (Ring!Contents' \o mp3') \o (local' \o aac')
    BY UnitsWaitThen, WaitingThen
  <1>3. Ring!Contents' = C /\ aac' = aac
    BY RingKeeps DEF FailAac, SkipMp3, ring
  <1>4. PICK a \in Seq(Units), s \in Seq(Units), r \in Seq(Units) :
           /\ s # <<>>
           /\ Head(s).track # gen \/ Head(s).codec # format.codec
           /\ Waiting = a \o (s \o r) /\ Waiting' = a \o (Tail(s) \o r)
    <2>1. CASE FailAac
      <3>1. local # <<>> /\ local' = Tail(local) /\ mp3' = mp3 /\ Detected = "aac"
            /\ Head(local).codec # "aac"
        BY <2>1 DEF FailAac
      <3>2. detected = "aac"
        BY <3>1 DEF Detected
      <3>3. Head(local).codec # format.codec
        BY <3>1, <3>2
      <3> QED BY <1>0, <1>1, <1>2, <1>3, <3>1, <3>3
    <2>2. CASE SkipMp3
      <3>1. mp3 # <<>> /\ mp3' = Tail(mp3) /\ local' = local /\ Head(mp3).codec # "mp3"
        BY <2>2 DEF SkipMp3, Mp3GoesOn
      <3>2. torn => Head(mp3).track # gen
        <4>1. torn => mp3 \in Seq(Old)
          BY <1>0 DEF AgeInv
        <4>2. torn => mp3[1].track # gen
          <5>1. 1 \in 1 .. Len(mp3)
            BY <1>0, <3>1, OfSequence
          <5> QED BY <1>0, <4>1, <5>1, OldIsNot
        <4> QED BY <1>0, <3>1, <4>2, OfSequence
      <3>3. ~torn => Head(mp3).codec # format.codec
        <4>1. ~torn => detected = "mp3"
          BY <1>0, <3>1 DEF ThreadInv
        <4> QED BY <3>1, <4>1
      <3> QED BY <1>0, <1>1, <1>2, <1>3, <3>1, <3>2, <3>3
    <2> QED BY <2>1, <2>2
  <1> DEFINE b == s \o r
  <1>5. /\ b \in Seq(Units) /\ b # <<>> /\ Head(b) = Head(s) /\ Tail(b) = Tail(s) \o r
    <2>1. s # <<>>
      BY <1>4
    <2> QED BY <2>1, HeadOfConcat
  <1>6. Fits(a \o b, d, h, gen, format.codec)
    BY <1>4
  <1> HIDE DEF b, C
  <1>7. Head(b).track # gen \/ Head(b).codec # format.codec
    BY <1>4, <1>5
  <1>8. Fits(a \o Tail(b), d, h, gen, format.codec)
    BY <1>5, <1>6, <1>7, FitsRemove
  <1> QED BY <1>4, <1>5, <1>8

\* The callback plays what is due, in order.
LEMMA PlaysDue ==
  ASSUME PipelineAssumption, IInv, IInv', [Next]_vars, CallbackPlays,
         NEW d \in Nat, NEW c, Fits(Waiting, d, heard, gen, c)
  PROVE  heard' \in Nat /\ Fits(Waiting', d - (heard' - heard), heard', gen, c)
  <1>0. /\ Ring!IInv /\ Ring!IInv' /\ Ring!ReadEnd /\ heard \in Nat
        /\ Ring!Contents \in Seq(Units) /\ mp3 \in Seq(Units) /\ local \in Seq(Units)
        /\ aac \in Seq(Units)
    BY UnitsWait, Types DEF IInv, CallbackPlays
  <1> DEFINE C == Ring!Contents
             r == mp3 \o (local \o aac)
             n == reading.n
             w == Waiting
  <1>1. w = C \o r /\ r \in Seq(Units) /\ w \in Seq(Units)
    BY <1>0, WaitingIs
  <1>2. /\ Waiting' = Ring!Contents' \o (mp3' \o (local' \o aac'))
    BY UnitsWaitThen, WaitingThen
  <1>3. UNCHANGED <<mp3, local, aac>> /\ heard' = heard + OfCurrent(Ring!Copied)
    BY DEF CallbackPlays, CallbackKeeps, network, decoder
  <1>4. /\ Ring!Copied \in Seq(Units) /\ Len(Ring!Copied) = n /\ n \in 1 .. Len(C)
        /\ \A i \in 1 .. n : Ring!Copied[i] = C[i]
        /\ Ring!Contents' = SubSeq(C, n + 1, Len(C))
    BY <1>0, CopiedIs
  <1>5. Len(C) \in Nat /\ Len(r) \in Nat /\ Len(w) = Len(C) + Len(r)
        /\ \A i \in 1 .. Len(C) + Len(r) : w[i] = IF i <= Len(C) THEN C[i] ELSE r[i - Len(C)]
    <2>1. C \in Seq(Units) /\ r \in Seq(Units) /\ w = C \o r
      BY <1>0, <1>1
    <2> HIDE DEF C, r, w
    <2>2. Len(C) \in Nat /\ Len(r) \in Nat
      BY <2>1, OfSequence
    <2>3. /\ Len(C \o r) = Len(C) + Len(r)
          /\ \A i \in 1 .. Len(C) + Len(r) :
               (C \o r)[i] = IF i <= Len(C) THEN C[i] ELSE r[i - Len(C)]
      BY <2>1, ConcatProperties
    <2> QED BY <2>1, <2>2, <2>3
  <1> HIDE DEF C, r, n, w
  <1>6. n \in 0 .. Len(C) /\ n \in 0 .. Len(w)
    <2> DEFINE k == Len(C)
               l == Len(r)
    <2>1. k \in Nat /\ l \in Nat /\ Len(w) = k + l /\ n \in 1 .. k
      BY <1>4, <1>5
    <2> HIDE DEF k, l
    <2>2. n \in 0 .. k /\ n \in 0 .. k + l
      BY <2>1
    <2> QED BY <2>1, <2>2 DEF k
  <1>7. Waiting' = SubSeq(w, n + 1, Len(w))
    <2>1. Waiting' = SubSeq(C, n + 1, Len(C)) \o r
      BY <1>2, <1>3, <1>4 DEF r
    <2>2. SubSeq(C, n + 1, Len(C)) \o r = SubSeq(C \o r, n + 1, Len(C \o r))
      BY <1>0, <1>1, <1>6, DropConcat DEF C
    <2> QED BY <1>1, <2>1, <2>2
  <1>8. PICK m \in Nat : /\ Cardinality({i \in 1 .. n : w[i].track = gen}) = m
                        /\ Fits(SubSeq(w, n + 1, Len(w)), d - m, heard + m, gen, c)
    BY <1>0, <1>1, <1>6, FitsDrop DEF w
  <1>9. OfCurrent(Ring!Copied) = m
    <2>1. DOMAIN Ring!Copied = 1 .. n
      BY <1>4, OfSequence
    <2>2. \A i \in 1 .. n : Ring!Copied[i] = w[i]
      <3> SUFFICES ASSUME NEW i \in 1 .. n PROVE Ring!Copied[i] = w[i]
        OBVIOUS
      <3>1. i \in 1 .. Len(C) + Len(r) /\ i <= Len(C)
        <4>1. Len(C) \in Nat /\ Len(r) \in Nat /\ n \in 1 .. Len(C)
          BY <1>4, <1>5, Zenon
        <4> DEFINE k == Len(C)
                   l == Len(r)
        <4>2. k \in Nat /\ l \in Nat /\ n \in 1 .. k
          BY <4>1
        <4> HIDE DEF k, l
        <4>3. i \in 1 .. k + l /\ i <= k
          BY <4>2
        <4> QED BY <4>3 DEF k, l
      <3>2. w[i] = C[i]
        BY <1>5, <3>1
      <3>3. Ring!Copied[i] = C[i]
        BY <1>4
      <3> QED BY <3>2, <3>3
    <2>3. {i \in DOMAIN Ring!Copied : Ring!Copied[i].track = gen}
            = {i \in 1 .. n : w[i].track = gen}
      BY <2>1, <2>2
    <2> QED BY <1>8, <2>3 DEF OfCurrent
  <1>10. heard' = heard + m /\ heard' \in Nat /\ heard' - heard = m
    BY <1>0, <1>3, <1>9
  <1> QED BY <1>7, <1>8, <1>10

LEMMA DueGrows ==
  ASSUME pushed \in Nat, heard \in Nat, NEW k \in Nat, pushed' = pushed + k
  PROVE  pushed' - heard = (pushed - heard) + k
  OBVIOUS

\* What arrives goes on where the buffers end.
LEMMA ArrivesInOrder ==
  ASSUME PipelineAssumption, IInv, IInv', [Next]_vars, stream = gen,
         NEW n \in 0 .. Total - pushed, PushNetworkData(n),
         NEW c, c = format.codec, Fits(Waiting, pushed - heard, heard, gen, c)
  PROVE  Fits(Waiting', pushed' - heard, heard, gen, c)
  <1>0. /\ TypeOK /\ Ring!Contents \in Seq(Units) /\ mp3 \in Seq(Units) /\ local \in Seq(Units)
        /\ aac \in Seq(Units) /\ heard \in Nat /\ pushed \in Nat
    BY UnitsWait, Types DEF IInv
  <1> DEFINE w == Waiting
             d == pushed - heard
             s == Arriving(n)
  <1>1. /\ w = (Ring!Contents \o mp3) \o (local \o aac) /\ w \in Seq(Units)
        /\ Ring!Contents \o mp3 \in Seq(Units)
    BY <1>0, WaitingIs
  <1>2. Waiting' = (Ring!Contents' \o mp3') \o (local' \o aac')
    BY UnitsWaitThen, WaitingThen
  <1>3. /\ s \in Seq(Units) /\ Len(s) = n /\ Len(s) \in Nat
        /\ \A i \in 1 .. Len(s) :
             s[i] = [track |-> stream, n |-> pushed + i, codec |-> format.codec]
    BY <1>0, ArrivingIs DEF NextUnit
  <1>4. /\ Ring!Contents' = Ring!Contents /\ mp3' = mp3 /\ local' = local
        /\ aac' = aac \o s /\ pushed' = pushed + Len(s)
    BY <1>3, RingKeeps DEF PushNetworkData, PushKeeps, ring
  <1> HIDE DEF s
  <1>5. Waiting' = w \o s
    <2> DEFINE a == Ring!Contents \o mp3
               b == local \o aac
    <2>1. a \in Seq(Units) /\ b \in Seq(Units) /\ w = a \o b
      BY <1>0, <1>1, ConcatProperties
    <2>2. local \o (aac \o s) = b \o s
      <3>1. local \in Seq(Units) /\ aac \in Seq(Units) /\ s \in Seq(Units)
        BY <1>0, <1>3
      <3>2. (local \o aac) \o s = local \o (aac \o s)
        BY <3>1, Associative, Zenon
      <3> QED BY <3>2
    <2>3. Waiting' = a \o (b \o s)
      BY <1>2, <1>4, <2>2
    <2> HIDE DEF a, b
    <2>4. a \o (b \o s) = (a \o b) \o s
      BY <1>3, <2>1, Associative, Zenon
    <2> QED BY <2>1, <2>3, <2>4
  <1>6. d \in 0 .. Len(w) /\ Len(w) \in Nat
    BY <1>1, OfSequence DEF Fits
  <1>7. d \in Nat
    BY <1>6
  <1>8. ASSUME NEW i \in 1 .. Len(s) PROVE s[i] = Nth(gen, c, heard + (d + i))
    <2>1. heard + (d + i) = pushed + i
      BY <1>0, <1>3
    <2>2. s[i] = Nth(stream, format.codec, pushed + i)
      BY <1>3 DEF Nth
    <2> HIDE DEF d
    <2> QED BY <2>1, <2>2
  <1>9. Fits(w, d, heard, gen, c)
    OBVIOUS
  <1>10. pushed' - heard = d + Len(s)
    BY <1>0, <1>3, <1>4, DueGrows
  <1> HIDE DEF w, d
  <1>11. Fits(w \o s, d + Len(s), heard, gen, c)
    BY <1>0, <1>1, <1>3, <1>7, <1>8, <1>9, FitsAppend
  <1> QED BY <1>5, <1>10, <1>11

\* Until a new download begins, and when it does, all that waits is old.
LEMMA NewDownload ==
  ASSUME PipelineAssumption, IInv, IInv', [Next]_vars, stream' < gen' \/ stream < gen
  PROVE  Whole'
  <1>0. /\ TypeOK /\ HandlerInv /\ ThreadInv /\ AgeInv /\ Ring!IInv /\ Ring!RingAssumption
        /\ AgeInv' /\ Ring!IInv' /\ TypeOK'
        /\ gen \in Nat /\ stream \in Nat /\ stream <= gen /\ heard \in Nat
    BY Types, Constants DEF IInv, HandlerInv
  <1>1. gen' \in Nat /\ stream' \in Nat
    BY <1>0, GenStep
  <1>2. Holds(Old)' /\ Due' = 0
    <2>1. CASE stream' < gen'
      BY <1>0, <1>1, <2>1 DEF AgeInv, Due
    <2>2. CASE ~(stream' < gen')
      <3>1. stream < gen /\ gen' = gen /\ stream' = gen
        BY <1>0, <2>2, GenStep
      <3>2. ClearNetwork \/ SeekTo
        <4>1. CASE Download \/ BeginSwitch \/ ClearAudio
                   \/ (\E p \in Targets : BeginSeek(p)) \/ SeekUnknown
                   \/ SeekAudio \/ SeekNetwork \/ Poll \/ UNCHANGED vars
          BY <1>0, <3>1, <4>1 DEF Download, OnChunkFinished, DeliverChunk, PushNetworkData,
         PushKeeps, DownloadError, SetNetworkStreamFinished, BeginSwitch, BeginSeek,
         SeekUnknown, ClearAudio, SeekAudio, SetAudio, SeekNetwork, Poll, PollNearEnd,
         PollFinished, vars, streamer
        <4>2. CASE Decoder
          BY <1>0, <3>1, <4>2, DecoderFrame DEF DecoderKeeps, streamer
        <4>3. CASE Callback
          BY <1>0, <3>1, <4>3, CallbackFrame DEF CallbackKeeps, streamer
        <4> QED BY <4>1, <4>2, <4>3 DEF Next, Switch, Seek
      <3>3. ~Pushes
        BY <1>0, <3>1, <3>2 DEF Pushes, PushNetworkData, PushKeeps
      <3>4. Holds(Old)
        BY <1>0, <3>1 DEF AgeInv
      <3>5. \A U : Holds(U) => Holds(U)'
        BY <1>0, <3>3, Flow
      <3>6. /\ aac' \in Seq(Old) /\ mp3' \in Seq(Old) /\ local' \in Seq(Old)
            /\ writing'.data \in Seq(Old) /\ slots' \in [Ring!Slots -> Old]
        BY <3>4, <3>5 DEF Holds, InBuffers, InSlots
      <3>7. Old' = Old
        BY <3>1 DEF Old
      <3>8. Holds(Old)'
        BY <3>6, <3>7 DEF Holds, InBuffers, InSlots
      <3>9. pushed' = heard' /\ heard' = heard
        BY <1>0, <3>2 DEF ClearNetwork, SeekTo, HandlerInv, history
      <3>10. Due' = 0
        BY <1>0, <3>9 DEF Due
      <3> QED BY <3>8, <3>10
    <2> QED BY <2>1, <2>2
  <1>3. Waiting' \in Seq(Old')
    <2>1. Ring!Contents' \in Seq(Old')
      BY <1>0, <1>2, RingContentsThen DEF Holds, InSlots
    <2> QED BY <1>2, <2>1, WaitingThen DEF Holds, InBuffers
  <1>4. \A g \in Nat : \A w \in Seq(OfTracks(0 .. g - 1)) : \A h, c : Fits(w, 0, h, g, c)
    BY OldFits
  <1>5. Waiting' \in Seq(OfTracks(0 .. gen' - 1))
    BY <1>3 DEF Old, OfTracks
  <1>6. Fits(Waiting', 0, heard', gen', format'.codec)
    BY <1>1, <1>4, <1>5, Zenon
  <1> QED BY <1>2, <1>6 DEF Whole, Fits

\* While it goes on, each step leaves the rest waiting in order.
LEMMA SameDownload ==
  ASSUME PipelineAssumption, IInv, IInv', Whole, [Next]_vars,
         stream = gen, gen' = gen, stream' = stream
  PROVE  Whole'
  <1>0. /\ TypeOK /\ HandlerInv /\ ThreadInv /\ gen \in Nat /\ heard \in Nat /\ pushed \in Nat
    BY Types DEF IInv
  <1>1. /\ ~(ClearNetwork \/ SeekNetwork \/ SeekTo \/ ClearAudio \/ SeekAudio)
    BY <1>0 DEF ClearNetwork, SeekNetwork, SeekTo, ClearAudio, SeekAudio, SetAudio,
                HandlerInv, Stopped
  <1>2. format' = format /\ (detected' \in {"none", format.codec}
                              => detected \in {"none", format.codec})
    <2>1. CASE Download \/ BeginSwitch \/ (\E p \in Targets : BeginSeek(p)) \/ SeekUnknown \/ Poll
               \/ UNCHANGED vars
      BY <2>1 DEF Download, OnChunkFinished, DeliverChunk, PushNetworkData, PushKeeps,
         DownloadError, SetNetworkStreamFinished, BeginSwitch, BeginSeek, SeekUnknown, Poll,
         PollNearEnd, PollFinished, vars, streamer, network
    <2>2. CASE PutAside \/ DecodeAac
      <3>1. format' = format /\ detected' = Detected
        BY <2>2, DecoderFrame DEF Decoder, DecoderKeeps, streamer, PutAside, DecodeAac
      <3>2. detected # "none" => Detected = detected
        BY DEF Detected
      <3> QED BY <3>1, <3>2
    <2>3. CASE Decoder /\ ~(PutAside \/ DecodeAac)
      <3>1. format' = format
        BY <2>3, DecoderFrame DEF DecoderKeeps, streamer
      <3>2. detected' = detected
        BY <2>3 DEF Decoder, Doze, FallAsleep, TakeChunk, WaitForRoom, ChunkDone,
           FailAac, WrittenAac, CallDecodeMp3, StopMp3, SkipMp3, DecodeMp3, WrittenMp3
      <3> QED BY <3>1, <3>2
    <2>4. CASE Callback
      BY <2>4, CallbackFrame DEF CallbackKeeps, streamer, network
    <2> QED BY <1>1, <2>1, <2>2, <2>3, <2>4 DEF Next, Switch, Seek, Decoder
  <1> SUFFICES ASSUME detected \in {"none", format.codec}
               PROVE  Fits(Waiting', Due', heard', gen', format'.codec)
    BY <1>2 DEF Whole, Fits
  <1> DEFINE d == pushed - heard
             c == format.codec
  <1>3. Fits(Waiting, d, heard, gen, c)
    BY DEF Whole, Due
  <1>4. d \in Nat
    <2>1. Ring!Contents \in Seq(Units) /\ Waiting \in Seq(Units)
      <3>1. /\ Ring!Contents \in Seq(Units) /\ mp3 \in Seq(Units) /\ local \in Seq(Units)
            /\ aac \in Seq(Units)
        BY UnitsWait
      <3> QED BY <3>1, WaitingIs
    <2>2. Len(Waiting) \in Nat
      BY <2>1, OfSequence
    <2> QED BY <1>3, <2>2 DEF Fits
  <1>5. Due' = pushed' - heard' /\ format'.codec = c
    BY <1>2 DEF Due
  <1> HIDE DEF d, c
  <1>6. SUFFICES Fits(Waiting', pushed' - heard', heard', gen, c)
    BY <1>5
  <1>7. CASE Pushes
    <2>0. PICK n \in 0 .. Total - pushed : PushNetworkData(n)
      BY <1>7 DEF Pushes
    <2>1. heard' = heard
      BY <2>0 DEF PushNetworkData, PushKeeps
    <2>2. Fits(Waiting', pushed' - heard, heard, gen, c)
      BY <1>3, <2>0, ArrivesInOrder DEF d, c
    <2> QED BY <2>1, <2>2
  <1>8. CASE Decoder
    <2>1. pushed' = pushed /\ heard' = heard
      BY <1>8, DecoderFrame DEF DecoderKeeps, streamer, history
    <2> SUFFICES Fits(Waiting', d, heard, gen, c)
      BY <2>1 DEF d
    <2>2. CASE FailAac \/ SkipMp3
      BY <1>3, <2>2, SkipsOther DEF c
    <2>3. CASE (Spoilt \/ torn) /\ (StopMp3 \/ WrittenAac \/ WrittenMp3)
      BY <1>3, <2>3, GivesUpOld
    <2>4. CASE ~(Spoilt \/ torn) /\ (TakeChunk \/ PutAside \/ WrittenAac \/ WrittenMp3)
      BY <1>3, <2>4, HandsOn
    <2>5. CASE TakeChunk \/ PutAside
      <3>1. writing.data = <<>> /\ ~torn
        BY <1>0, <2>5 DEF TakeChunk, PutAside, ThreadInv, DecodingMp3
      <3>2. ~(Spoilt \/ torn)
        BY <3>1 DEF Spoilt
      <3> QED BY <2>4, <2>5, <3>2
    <2>6. CASE ~torn /\ StopMp3
      <3>1. UNCHANGED <<slots, readPos, writePos, mp3, local, aac>>
        BY <2>6 DEF StopMp3, ring
      <3>2. Waiting' = Waiting
        BY <3>1, RingKeeps DEF Waiting
      <3> QED BY <1>3, <3>2
    <2>7. CASE Doze \/ FallAsleep \/ WaitForRoom \/ ChunkDone \/ DecodeAac \/ CallDecodeMp3
               \/ DecodeMp3
      <3>1. UNCHANGED <<slots, readPos, writePos, mp3, local, aac>>
        BY <2>7 DEF Doze, FallAsleep, WaitForRoom, ChunkDone, DecodeAac, CallDecodeMp3,
                    DecodeMp3, Ring!WriteBegin, ring
      <3>2. Waiting' = Waiting
        BY <3>1, RingKeeps DEF Waiting
      <3> QED BY <1>3, <3>2
    <2> QED BY <1>8, <2>2, <2>3, <2>4, <2>5, <2>6, <2>7 DEF Decoder
  <1>9. CASE CallbackPlays
    <2>1. pushed' = pushed
      BY <1>9 DEF CallbackPlays, CallbackKeeps, streamer
    <2>2. heard' \in Nat /\ Fits(Waiting', d - (heard' - heard), heard', gen, c)
      BY <1>3, <1>4, <1>9, PlaysDue
    <2>3. d - (heard' - heard) = pushed' - heard'
      BY <1>0, <2>1, <2>2 DEF d
    <2> QED BY <2>2, <2>3
  <1>10. CASE Holding \/ DownloadError \/ SetNetworkStreamFinished \/ BeginSwitch \/ Poll
              \/ (\E p \in Targets : BeginSeek(p)) \/ SeekUnknown
              \/ CallbackReads \/ Underflow \/ UNCHANGED vars
    <2>1. UNCHANGED <<slots, readPos, writePos, mp3, local, aac, pushed, heard>>
      <3>1. CASE Holding \/ DownloadError \/ SetNetworkStreamFinished \/ BeginSwitch \/ Poll
                 \/ (\E p \in Targets : BeginSeek(p)) \/ SeekUnknown \/ UNCHANGED vars
        BY <3>1 DEF Holding, DownloadError, SetNetworkStreamFinished, BeginSwitch, Poll,
             PollNearEnd, PollFinished, BeginSeek, SeekUnknown, vars, ring, network, decoder,
             streamer, history
      <3>2. CASE CallbackReads \/ Underflow
        BY <3>2 DEF CallbackReads, Underflow, CallbackKeeps, Ring!ReadBegin, ring, network,
           decoder, streamer
      <3> QED BY <1>10, <3>1, <3>2
    <2>2. Waiting' = Waiting
      BY <2>1, RingKeeps DEF Waiting
    <2> QED BY <1>3, <2>1, <2>2 DEF d
  <1> QED BY <1>0, <1>1, <1>7, <1>8, <1>9, <1>10, Receives DEF Next, Download, Switch, Seek,
       Callback

(* Whatever is skipped, sought, cleared or breaks off, and whichever thread  *)
(* is where, what has been delivered of a track is heard, once and in order, *)
(* or waits behind what is left of an earlier one, unless the demuxer takes  *)
(* the stream for another format.                                           *)
THEOREM AllHeard == Spec => []NothingLost
  <1>1. Init => Whole
    <2> SUFFICES ASSUME Init PROVE Whole
      OBVIOUS
    <2>1. IInv /\ Ring!IInv /\ TypeOK
      BY PipelineAssumption, Starts DEF IInv
    <2>2. Ring!Contents = <<>>
      <3>1. Ring!AvailableRead = 0
        BY <2>1 DEF Init, Ring!Init, Ring!AvailableRead, Ring!Distance
      <3> QED BY <2>1, <3>1, PipelineAssumption, Constants, RingContents
    <2>3. Waiting = <<>>
      <3>1. <<>> \o <<>> = <<>>
        BY EmptySeq
      <3> QED BY <2>2, <3>1 DEF Waiting, Init
    <2>4. Due = 0
      BY DEF Due, Init
    <2> QED BY <2>3, <2>4, EmptySeq DEF Whole, Fits
  <1>2. IInv /\ Whole /\ [Next]_vars /\ IInv' => Whole'
    <2> SUFFICES ASSUME IInv, Whole, [Next]_vars, IInv' PROVE Whole'
      OBVIOUS
    <2>1. gen \in Nat /\ stream \in Nat /\ stream <= gen
      BY PipelineAssumption, Types DEF IInv, HandlerInv
    <2>2. CASE stream' < gen' \/ stream < gen
      BY <2>2, PipelineAssumption, NewDownload
    <2>3. CASE ~(stream' < gen' \/ stream < gen)
      <3>1. stream = gen /\ gen' = gen /\ stream' = stream
        BY <2>1, <2>3, GenStep
      <3> QED BY <3>1, PipelineAssumption, SameDownload
    <2> QED BY <2>2, <2>3
  <1>3. IInv /\ Whole => NothingLost
    BY PipelineAssumption, SaysWhole
  <1> QED BY <1>1, <1>2, <1>3, Invariance, PTL DEF Spec
===============================================================================
