---------------------- MODULE PlaybackController_proofs ----------------------
(***************************************************************************)
(* Proofs about PlaybackController, for every list, source and bound: one   *)
(* request is under way at most and it is for the track asked for last; but *)
(* for a track that a crossfade leaves playing only that one is heard, and  *)
(* no end of another skips it.                                              *)
(***************************************************************************)
EXTENDS PlaybackController, WellFoundedInduction, TLAPS

-----------------------------------------------------------------------------
(* The playlist: every method leaves a place that exists, and a track that  *)
(* it asks for is the current one.                                          *)

LEMMA FirstPlace ==
  ASSUME NEW s, NEW x \in PL!Range(s), NEW n \in Nat, DOMAIN s = 1 .. n
  PROVE  PL!FirstAt(s, x) \in DOMAIN s /\ s[PL!FirstAt(s, x)] = x
<1> DEFINE Places == {i \in 1 .. n : s[i] = x}
           Less == {p \in Nat \X Nat : p[1] < p[2]}
<1>1. IsWellFoundedOn(Less, Nat)
  BY NatLessThanWellFounded, Zenon DEF OpToRel
<1>2. Places \in SUBSET Nat /\ Places # {}
  BY DEF PL!Range
<1>3. PICK m \in Places : \A y \in Places : ~ (<<y, m>> \in Less)
  <2> HIDE DEF Less, Places
  <2> QED BY <1>1, <1>2, WFMin
<1>4. \A y \in Places : ~ (y < m)
  BY <1>2, <1>3
<1>5. m \in 1 .. n /\ s[m] = x /\ \A j \in 1 .. (m - 1) : s[j] # x
  BY <1>4
<1> QED BY <1>5 DEF PL!FirstAt

ListOK == PL!TypeOK /\ Placed

LEMMA ListFacts ==
  ASSUME ListOK
  PROVE  /\ tracks \in Seq(Ids) /\ Len(tracks) \in Nat
         /\ tracks \in [1 .. Len(tracks) -> Ids]
         /\ queue \in Seq(Nat) /\ Len(queue) = Len(tracks)
         /\ queue \in [1 .. Len(tracks) -> 1 .. Len(tracks)]
         /\ tracks = <<>> <=> Len(tracks) = 0
         /\ tracks # <<>> => /\ index \in 1 .. Len(tracks)
                             /\ queue[index] \in 1 .. Len(tracks)
                             /\ PL!Here \in Ids
<1>1. tracks \in Seq(Ids) /\ queue \in Seq(Nat)
  BY DEF ListOK, PL!TypeOK
<1>2. Len(tracks) \in Nat /\ tracks \in [1 .. Len(tracks) -> Ids]
  BY <1>1
<1>3. tracks = <<>> <=> Len(tracks) = 0
  BY <1>1
<1>4. queue \in [1 .. Len(tracks) -> 1 .. Len(tracks)]
  BY DEF ListOK, Placed
<1>5. Len(queue) = Len(tracks)
  <2>1. DOMAIN queue = 1 .. Len(queue) /\ Len(queue) \in Nat
    BY <1>1
  <2>2. DOMAIN queue = 1 .. Len(tracks)
    BY <1>4
  <2>3. PICK a \in Nat, b \in Nat : a = Len(queue) /\ b = Len(tracks)
    BY <1>2, <2>1
  <2>4. 1 .. a = 1 .. b
    BY <2>1, <2>2, <2>3
  <2>5. ~ (a < b)
    <3>1. ASSUME a < b PROVE FALSE
      <4>1. b \in 1 .. b /\ b \notin 1 .. a
        BY <3>1
      <4> QED BY <2>4, <4>1
    <3> QED BY <3>1
  <2>6. ~ (b < a)
    <3>1. ASSUME b < a PROVE FALSE
      <4>1. a \in 1 .. a /\ a \notin 1 .. b
        BY <3>1
      <4> QED BY <2>4, <4>1
    <3> QED BY <3>1
  <2> QED BY <2>3, <2>5, <2>6
<1>6. ASSUME tracks # <<>>
      PROVE  index \in 1 .. Len(tracks) /\ queue[index] \in 1 .. Len(tracks)
  BY <1>4, <1>6 DEF ListOK, Placed
<1>7. ASSUME tracks # <<>> PROVE PL!Here \in Ids
  BY <1>2, <1>6, <1>7 DEF PL!Here
<1> QED BY <1>1, <1>2, <1>3, <1>4, <1>5, <1>6, <1>7

LEMMA ListIntro ==
  ASSUME NEW ts \in Seq(Ids), NEW q \in [1 .. Len(ts) -> 1 .. Len(ts)]
  PROVE  q \in Seq(Nat)
<1>1. Len(ts) \in Nat
  OBVIOUS
<1>2. PICK n \in Nat : n = Len(ts)
  BY <1>1
<1>3. q \in [1 .. n -> Nat]
  BY <1>2
<1> QED BY <1>3

\* What a handler that may ask for a track has done when it is over.
Turned ==
  /\ ListOK'
  /\ call' \in Ids \cup {NoTrack}
  /\ call' # NoTrack => call' = CurrentTrack'
  /\ call' = NoTrack => CurrentTrack \in {NoTrack, CurrentTrack'}

\* A place chosen in the queue, which may be a new order of the same tracks.
LEMMA Placing ==
  ASSUME ListOK, tracks # <<>>, UNCHANGED <<tracks, repeat>>, shuffle' \in BOOLEAN,
         queue' \in [1 .. Len(tracks) -> 1 .. Len(tracks)], index' \in 1 .. Len(tracks),
         active' = tracks[queue'[index']], call' \in {NoTrack, active'},
         call' = NoTrack => CurrentTrack \in {NoTrack, CurrentTrack'}
  PROVE  Turned
<1>1. tracks \in [1 .. Len(tracks) -> Ids] /\ tracks \in Seq(Ids)
  BY ListFacts
<1>2. active' \in Ids
  BY <1>1
<1>3. queue' \in Seq(Nat) /\ index' \in Nat
  BY <1>1, ListIntro
<1>4. ListOK'
  BY <1>1, <1>2, <1>3 DEF ListOK, PL!TypeOK, Placed
<1>5. active' # NoTrack /\ CurrentTrack' = active'
  BY <1>2, PlaybackAssumption DEF CurrentTrack
<1> QED BY <1>2, <1>4, <1>5 DEF Turned

LEMMA RebuiltOrder ==
  ASSUME NEW n \in Nat, NEW r, NEW sh, NEW cur, r \in PL!Rebuilt(n, sh, FALSE, cur)
  PROVE  r.queue \in [1 .. n -> 1 .. n] /\ r.index = 1
<1>1. CASE sh
  <2>1. PICK p \in PL!Orders(n) : r = [queue |-> p, index |-> 1]
    BY <1>1 DEF PL!Rebuilt
  <2>2. p \in [1 .. n -> 1 .. n]
    BY DEF PL!Orders, PL!Injection
  <2> QED BY <2>1, <2>2
<1>2. CASE ~sh
  BY <1>2 DEF PL!Rebuilt, PL!Identity
<1> QED BY <1>1, <1>2

LEMMA AskNothingTurned == ASSUME ListOK, AskNothing PROVE Turned
<1>1. ListOK' /\ CurrentTrack' = CurrentTrack
  BY DEF AskNothing, playlist, ListOK, PL!TypeOK, Placed, CurrentTrack, PL!Here
<1> QED BY <1>1 DEF AskNothing, Turned

LEMMA AskNextTurned == ASSUME ListOK, AskNext PROVE Turned
<1>1. CASE PL!NextTrack /\ call' = active'
  <2>1. /\ tracks # <<>> /\ UNCHANGED <<tracks, repeat>> /\ shuffle' \in BOOLEAN
        /\ active' = tracks[queue'[index']]
    BY <1>1 DEF PL!NextTrack, ListOK, PL!TypeOK
  <2>2. /\ index \in 1 .. Len(tracks) /\ Len(queue) = Len(tracks) /\ Len(tracks) \in Nat
        /\ Len(tracks) # 0 /\ queue \in [1 .. Len(tracks) -> 1 .. Len(tracks)]
    BY <2>1, ListFacts
  <2>3. /\ queue' \in [1 .. Len(tracks) -> 1 .. Len(tracks)]
        /\ index' \in 1 .. Len(tracks)
    <3>1. CASE UNCHANGED <<queue, index>>
      BY <2>2, <3>1
    <3>2. CASE index < Len(queue) /\ index' = index + 1 /\ queue' = queue
      BY <2>2, <3>2
    <3>3. CASE index' = 1 /\ queue' = queue
      BY <2>2, <3>3
    <3>4. ASSUME NEW cur, NEW r \in PL!Rebuilt(Len(tracks), TRUE, FALSE, cur),
                 queue' = r.queue, index' = r.index
          PROVE  <2>3
      <4>1. r.queue \in [1 .. Len(tracks) -> 1 .. Len(tracks)] /\ r.index = 1
        BY <2>2, RebuiltOrder
      <4> QED BY <2>2, <3>4, <4>1
    <3> QED BY <1>1, <3>1, <3>2, <3>3, <3>4 DEF PL!NextTrack
  <2>4. active' # NoTrack
    <3>1. tracks \in [1 .. Len(tracks) -> Ids]
      BY ListFacts
    <3> QED BY <2>1, <2>3, <3>1, PlaybackAssumption
  <2> QED BY <1>1, <2>1, <2>3, <2>4, Placing
<1>2. CASE AskNothing
  BY <1>2, AskNothingTurned
<1> QED BY <1>1, <1>2 DEF AskNext, AskNothing

LEMMA PreviousTurned ==
  ASSUME ListOK, PL!PreviousTrack, call' = active' PROVE Turned
<1>1. /\ tracks # <<>> /\ UNCHANGED <<tracks, queue, shuffle, repeat>>
      /\ active' = tracks[queue[index']]
  BY DEF PL!PreviousTrack
<1>2. /\ index \in 1 .. Len(tracks) /\ Len(queue) = Len(tracks) /\ Len(tracks) \in Nat
      /\ Len(tracks) # 0 /\ queue \in [1 .. Len(tracks) -> 1 .. Len(tracks)]
      /\ tracks \in [1 .. Len(tracks) -> Ids]
  BY <1>1, ListFacts
<1>3. index' \in 1 .. Len(tracks)
  BY <1>2 DEF PL!PreviousTrack
<1>4. active' # NoTrack /\ shuffle' \in BOOLEAN /\ active' = tracks[queue'[index']]
  BY <1>1, <1>2, <1>3, PlaybackAssumption DEF ListOK, PL!TypeOK
<1> QED BY <1>1, <1>2, <1>3, <1>4, Placing

LEMMA JumpTurned ==
  ASSUME ListOK, NEW i \in 1 .. Len(tracks), PL!JumpTo(i), call' = active' PROVE Turned
<1>1. /\ i \in PL!Range(queue) /\ index' = PL!FirstAt(queue, i) /\ active' = tracks[i]
      /\ UNCHANGED <<tracks, queue, shuffle, repeat>>
  BY DEF PL!JumpTo
<1>2. /\ Len(tracks) \in Nat /\ queue \in [1 .. Len(tracks) -> 1 .. Len(tracks)]
      /\ tracks \in [1 .. Len(tracks) -> Ids] /\ tracks # <<>>
  BY ListFacts
<1>3. index' \in 1 .. Len(tracks) /\ queue[index'] = i
  <2>1. DOMAIN queue = 1 .. Len(tracks)
    BY <1>2
  <2> QED BY <1>1, <1>2, <2>1, FirstPlace
<1>4. active' # NoTrack /\ shuffle' \in BOOLEAN /\ active' = tracks[queue'[index']]
  BY <1>1, <1>2, <1>3, PlaybackAssumption DEF ListOK, PL!TypeOK
<1> QED BY <1>1, <1>2, <1>3, <1>4, Placing

LEMMA ActiveTurned ==
  ASSUME ListOK, NEW t \in Ids, PL!SetActiveTrack(t), call' = t PROVE Turned
<1>1. t # NoTrack
  BY PlaybackAssumption
<1>2. ListOK' /\ CurrentTrack' = t
  BY <1>1 DEF PL!SetActiveTrack, ListOK, PL!TypeOK, Placed, CurrentTrack
<1> QED BY <1>1, <1>2 DEF Turned

\* What every handler leaves: a track it calls AttemptPlay with is the current
\* one, and if it calls none the last one it was called with still is.
Settled ==
  /\ ListOK'
  /\ call' \in Ids \cup {NoTrack}
  /\ call' # NoTrack => call' = CurrentTrack'
  /\ call' = NoTrack /\ asked' # NoTrack => strayed' \/ asked' = CurrentTrack'

AskedIsShown == Main /\ asked # NoTrack => strayed \/ asked = CurrentTrack

LEMMA TurnedSettled ==
  ASSUME AskedIsShown, Main, Turned, asked' = asked, strayed => strayed'
  PROVE  Settled
BY DEF AskedIsShown, Turned, Settled

LEMMA AttemptSettled ==
  ASSUME Turned, NEW t \in Ids, t = CurrentTrack, Asked(t)
  PROVE  Settled
<1>1. t # NoTrack
  BY PlaybackAssumption
<1> QED BY <1>1 DEF Asked, Turned, Settled

\* A track made active, by a shuffle or not.
LEMMA StraySettled ==
  ASSUME AskedIsShown, Main, NEW t \in Ids, Strays(t), active' = t, ListOK',
         call' \in {NoTrack, t}
  PROVE  Settled
<1>1. t # NoTrack /\ CurrentTrack' = t
  BY PlaybackAssumption DEF CurrentTrack
<1>2. t = active => CurrentTrack = t
  BY <1>1 DEF CurrentTrack
<1>3. asked' = asked /\ (strayed' \/ (~strayed /\ t \in {active, asked}))
  BY Zenon DEF Strays
<1> QED BY <1>1, <1>2, <1>3 DEF AskedIsShown, Settled

LEMMA ShuffleSettled ==
  ASSUME AskedIsShown, Main, ListOK, NEW enable \in BOOLEAN, NEW play \in BOOLEAN,
         SetShuffle(enable, play)
  PROVE  Settled
<1>1. shuffle' \in BOOLEAN /\ UNCHANGED <<tracks, repeat>>
  BY DEF SetShuffle, PL!SetShuffle, ListOK, PL!TypeOK
<1>2. CASE tracks # <<>>
  <2>1. /\ Len(tracks) \in Nat /\ Len(tracks) # 0 /\ tracks \in Seq(Ids)
        /\ tracks \in [1 .. Len(tracks) -> Ids]
    BY <1>2, ListFacts
  <2>2. PICK cur \in PL!ReadQueue(index) :
          \E r \in PL!Rebuilt(Len(tracks), enable, FALSE, cur) :
            queue' = r.queue /\ index' = 1 /\ active' = tracks[r.queue[1]]
    BY <1>2 DEF SetShuffle, PL!SetShuffle
  <2>3. PICK r \in PL!Rebuilt(Len(tracks), enable, FALSE, cur) :
          queue' = r.queue /\ index' = 1 /\ active' = tracks[r.queue[1]]
    BY <2>2
  <2>4. queue' \in [1 .. Len(tracks) -> 1 .. Len(tracks)]
    BY <2>1, <2>3, RebuiltOrder
  <2>5. 1 \in 1 .. Len(tracks)
    BY <2>1
  <2>6. active' \in Ids
    BY <2>1, <2>3, <2>4, <2>5
  <2>7. ListOK'
    <3>1. queue' \in Seq(Nat)
      BY <2>1, <2>4, ListIntro
    <3> QED BY <1>1, <2>1, <2>3, <2>4, <2>5, <2>6, <3>1 DEF ListOK, PL!TypeOK, Placed
  <2>8. Strays(active') /\ call' \in {NoTrack, active'}
    BY DEF SetShuffle
  <2>9. PICK t \in Ids : t = active'
    BY <2>6
  <2> QED BY <2>7, <2>8, <2>9, StraySettled
<1>3. CASE tracks = <<>>
  <2>1. index' = 1 /\ UNCHANGED <<queue, active>>
    BY <1>3 DEF SetShuffle, PL!SetShuffle
  <2>2. queue = <<>>
    <3>1. queue \in Seq(Nat) /\ Len(queue) = 0
      BY <1>3, ListFacts
    <3> QED BY <3>1
  <2>3. ListOK'
    BY <1>1, <1>3, <2>1 DEF ListOK, PL!TypeOK, Placed
  <2>4. CurrentTrack' = CurrentTrack /\ call' = NoTrack
    BY <1>1, <1>3, <2>1, <2>2 DEF CurrentTrack, SetShuffle
  <2>5. asked' = asked /\ (strayed => strayed')
    BY Zenon DEF SetShuffle, Strays
  <2> QED BY <2>3, <2>4, <2>5, TurnedSettled DEF Turned
<1> QED BY <1>2, <1>3

LEMMA RepeatTurned == ASSUME ListOK, PL!ToggleRepeat, call' = NoTrack PROVE Turned
<1>1. UNCHANGED <<tracks, queue, index, active, shuffle>> /\ repeat' \in PL!Modes
  BY DEF PL!ToggleRepeat, PL!Modes
<1>2. ListOK' /\ CurrentTrack' = CurrentTrack
  BY <1>1 DEF ListOK, PL!TypeOK, Placed, CurrentTrack, PL!Here
<1> QED BY <1>2 DEF Turned

LEMMA EmptyList ==
  ASSUME ListOK, tracks' = <<>>, queue' = <<>>, index' = 1,
         active' \in Ids \cup {NoTrack}, UNCHANGED <<shuffle, repeat>>
  PROVE  ListOK'
<1>1. <<>> \in [1 .. Len(<<>>) -> 1 .. Len(<<>>)] /\ <<>> \in Seq(Ids) /\ <<>> \in Seq(Nat)
  OBVIOUS
<1> QED BY <1>1 DEF ListOK, PL!TypeOK, Placed

LEMMA KeepActiveTurned ==
  ASSUME ListOK, PL!ClearKeepActive, call' = NoTrack PROVE Turned
<1>1. active' \in Ids \cup {NoTrack} /\ CurrentTrack' = CurrentTrack
  BY ListFacts DEF PL!ClearKeepActive, CurrentTrack, ListOK, PL!TypeOK
<1>2. ListOK'
  BY <1>1, EmptyList DEF PL!ClearKeepActive
<1> QED BY <1>1, <1>2 DEF Turned

-----------------------------------------------------------------------------
(* The request under way, from handler to handler.                          *)

\* The members that only need their types.
FlagsOK ==
  /\ ahead \in Ids \cup {NoTrack} /\ saved \in Ids \cup {NoTrack}
  /\ streaming \in Ids \cup {NoTrack} /\ heard \in Ids \cup {NoTrack}
  /\ skips \in 0 .. MaxSkips - 1
  /\ startPaused \in BOOLEAN /\ crossfade \in BOOLEAN
  /\ started \in BOOLEAN /\ playing \in BOOLEAN
  /\ current \in Sources \cup {NoSource}
  /\ nearEnd \in Signals /\ finished \in Signals
  /\ asked \in Ids \cup {NoTrack} /\ strayed \in BOOLEAN /\ fading \in BOOLEAN

ChainOK ==
  /\ debounce \in Ids \cup {NoTrack}
  /\ slot \in [Sources -> Requests] /\ timers \subseteq Requests
  /\ OneRequest
  /\ \A s \in Fetching : slot[s].track \in Ids
  /\ \A r \in timers : r.track \in Ids /\ r.attempt < MaxAttempts

LEMMA Parts ==
  IInv <=> /\ ListOK /\ FlagsOK /\ ChainOK /\ call \in Ids \cup {NoTrack}
           /\ OnlyAskedIsWanted /\ AskedIsShown /\ (~Main => call = CurrentTrack)
BY DEF IInv, TypeOK, ListOK, FlagsOK, ChainOK, AskedIsShown

\* How the invariant is kept: the request is for the track asked for last.
LEMMA Kept ==
  ASSUME Settled, FlagsOK', ChainOK', Wanted' \subseteq {asked'},
         streaming' \in {NoTrack, asked'}
  PROVE  IInv'
<1>1. OnlyAskedIsWanted'
  BY DEF OnlyAskedIsWanted
<1> QED BY <1>1 DEF IInv, TypeOK, ListOK, FlagsOK, ChainOK, Settled, Main

\* Or it is given up, and so is the track.
LEMMA Cleared ==
  ASSUME ListOK', call' = NoTrack, FlagsOK', ChainOK', Wanted' = {}, streaming' = NoTrack,
         asked' = NoTrack
  PROVE  IInv'
BY Kept DEF Settled

LEMMA Before ==
  ASSUME IInv
  PROVE  /\ ListOK /\ FlagsOK /\ ChainOK /\ AskedIsShown
         /\ Wanted \subseteq {asked} /\ streaming \in {NoTrack, asked}
BY Parts DEF OnlyAskedIsWanted

LEMMA SameChain ==
  ASSUME ChainOK, UNCHANGED requests
  PROVE  ChainOK' /\ Wanted' = Wanted /\ Fetching' = Fetching /\ Retrying' = Retrying
BY DEF ChainOK, requests, OneRequest, Wanted, Fetching, Retrying

LEMMA NewChain ==
  ASSUME ChainOK, NEW provider, CancelFetch(provider), debounce' \in Ids \cup {NoTrack}
  PROVE  /\ ChainOK' /\ Fetching' = {} /\ Retrying' = {}
         /\ Wanted' = {debounce'} \ {NoTrack}
<1>1. slot' \in [Sources -> Requests] /\ \A s \in Sources : slot'[s].fresh = FALSE
  <2>1. Idle \in Requests /\ Idle.fresh = FALSE
    BY PlaybackAssumption DEF Idle, Requests
  <2>2. \A r \in Requests : Stale(r) \in Requests /\ Stale(r).fresh = FALSE
    BY DEF Requests, Stale
  <2>3. \A s \in Sources : slot[s] \in Requests
    BY DEF ChainOK
  <2> QED BY <2>1, <2>2, <2>3 DEF CancelFetch
<1>2. /\ timers' \subseteq Requests
      /\ \A r \in timers' : r.fresh = FALSE /\ r.track \in Ids /\ r.attempt < MaxAttempts
  <2>1. \A r \in Requests : /\ Stale(r) \in Requests /\ Stale(r).fresh = FALSE
                            /\ Stale(r).track = r.track /\ Stale(r).attempt = r.attempt
    BY DEF Requests, Stale
  <2> QED BY <2>1 DEF CancelFetch, NewGeneration, ChainOK
<1>3. Fetching' = {} /\ Retrying' = {}
  BY <1>1, <1>2 DEF Fetching, Retrying
<1> QED BY <1>1, <1>2, <1>3 DEF ChainOK, OneRequest, Wanted

LEMMA Begun ==
  ASSUME FlagsOK, NEW t \in Ids, Begin(t)
  PROVE  /\ heard' \in Ids \cup {NoTrack} /\ nearEnd' \in Signals /\ finished' \in Signals
         /\ startPaused' \in BOOLEAN /\ playing' \in BOOLEAN /\ fading' \in BOOLEAN
<1>1. startPaused' \in BOOLEAN /\ playing' \in BOOLEAN
  BY Zenon DEF FlagsOK, Begin
<1> QED BY <1>1 DEF Begin, Load, Signals

LEMMA PlayRequest ==
  ASSUME NEW t \in Ids, NEW n \in 0 .. MaxAttempts
  PROVE  /\ Request("play", t, n) \in Requests /\ Request("play", t, n).track = t
         /\ Request("play", t, n).fresh = TRUE
<1>1. PICK b \in BOOLEAN : b = ("play" = "play") /\ b = TRUE
  BY Zenon
<1>2. Request("play", t, n) = [for |-> "play", track |-> t, attempt |-> n, fresh |-> b]
  BY <1>1, Zenon DEF Request
<1>3. [for |-> "play", track |-> t, attempt |-> n, fresh |-> b] \in Requests
  BY <1>1 DEF Requests
<1> QED BY <1>1, <1>2, <1>3

LEMMA OtherRequest ==
  ASSUME NEW use \in {"ahead", "disk"}, NEW t \in Ids
  PROVE  Request(use, t, 0) \in Requests /\ Request(use, t, 0).fresh = FALSE
<1>1. PICK b \in BOOLEAN : b = (use = "play") /\ b = FALSE
  OBVIOUS
<1>2. Request(use, t, 0) = [for |-> use, track |-> t, attempt |-> 0, fresh |-> b]
  BY <1>1, Zenon DEF Request
<1>3. [for |-> use, track |-> t, attempt |-> 0, fresh |-> b] \in Requests
  BY <1>1, PlaybackAssumption DEF Requests
<1> QED BY <1>1, <1>2, <1>3

\* A request that is not to play, or none, takes a provider.
LEMMA OtherFetched ==
  ASSUME ChainOK, NEW provider \in Sources, NEW r \in Requests, r.fresh = FALSE,
         Fetch(provider, r), UNCHANGED <<debounce, timers>>
  PROVE  /\ ChainOK' /\ Wanted' \subseteq Wanted
         /\ Fetching' = Fetching \ {provider} /\ Retrying' = Retrying
<1>1. slot' \in [Sources -> Requests]
  BY DEF ChainOK, Fetch
<1>2. \A s \in Sources : slot'[s] = IF s = provider THEN r ELSE slot[s]
  BY DEF ChainOK, Fetch
<1>3. Fetching' = Fetching \ {provider} /\ Retrying' = Retrying
  BY <1>2 DEF Fetching, Retrying
<1>4. OneRequest'
  BY <1>3 DEF ChainOK, OneRequest
<1>5. \A s \in Fetching' : s \in Fetching /\ slot'[s].track = slot[s].track
  BY <1>2, <1>3 DEF Fetching
<1> QED BY <1>1, <1>3, <1>4, <1>5 DEF ChainOK, Wanted

\* A request to play does so when none is under way.
LEMMA PlayFetched ==
  ASSUME ChainOK, NEW provider \in Sources, NEW r \in Requests, r.track \in Ids,
         r.fresh = TRUE,
         Fetch(provider, r), Fetching = {}, debounce' = NoTrack,
         timers' \subseteq timers, Retrying' = {}
  PROVE  ChainOK' /\ Wanted' \subseteq {r.track}
<1>1. slot' \in [Sources -> Requests]
  BY DEF ChainOK, Fetch
<1>2. \A s \in Sources : slot'[s] = IF s = provider THEN r ELSE slot[s]
  BY DEF ChainOK, Fetch
<1>3. Fetching' = {provider}
  BY <1>2 DEF Fetching
<1>4. OneRequest'
  BY <1>3 DEF OneRequest
<1>5. timers' \subseteq Requests /\ \A q \in timers' : q.track \in Ids /\ q.attempt < MaxAttempts
  BY DEF ChainOK
<1>6. slot'[provider].track = r.track
  BY <1>2
<1> QED BY <1>1, <1>3, <1>4, <1>5, <1>6 DEF ChainOK, Wanted

\* The attempt that a timer makes.
LEMMA Executed ==
  ASSUME ListOK, ChainOK, NEW t \in Ids, NEW n \in 1 .. MaxAttempts,
         current \in Sources \cup {NoSource},
         ExecuteAttemptPlay(t, n), Fetching = {}, debounce' = NoTrack,
         timers' \subseteq timers, Retrying' = {}
  PROVE  Turned /\ ChainOK' /\ Wanted' \subseteq {t}
<1>1. CASE ProviderOf(t) = NoSource
  <2>1. AskNext /\ slot' = slot
    BY <1>1 DEF ExecuteAttemptPlay
  <2>2. Fetching' = {}
    BY <2>1 DEF Fetching
  <2>3. ChainOK' /\ Wanted' = {}
    BY <2>1, <2>2 DEF ChainOK, OneRequest, Wanted
  <2> QED BY <2>1, <2>3, AskNextTurned
<1>2. CASE ProviderOf(t) # NoSource
  <2>1. ProviderOf(t) \in Sources
    BY <1>2, PlaybackAssumption DEF ProviderOf
  <2>2. Fetch(ProviderOf(t), Request("play", t, n)) /\ AskNothing
    BY <1>2 DEF ExecuteAttemptPlay
  <2>3. /\ Request("play", t, n) \in Requests /\ Request("play", t, n).track = t
        /\ Request("play", t, n).fresh = TRUE
    <3>1. n \in 0 .. MaxAttempts
      BY PlaybackAssumption
    <3> QED BY <3>1, PlayRequest, Zenon
  <2>4. ChainOK' /\ Wanted' \subseteq {t}
    <3>1. PICK r \in Requests, p \in Sources :
            r = Request("play", t, n) /\ p = ProviderOf(t)
      BY <2>1, <2>3
    <3> QED BY <2>2, <2>3, <3>1, PlayFetched
  <2> QED BY <2>2, <2>4, AskNothingTurned
<1> QED BY <1>1, <1>2

LEMMA Peeked == ASSUME ListOK PROVE PL!PeekNextTrack \in Ids \cup {NoTrack}
<1>1. CASE tracks = <<>>
  BY <1>1 DEF PL!PeekNextTrack
<1>2. CASE tracks # <<>>
  <2>1. /\ Len(tracks) \in Nat /\ Len(queue) = Len(tracks) /\ index \in 1 .. Len(tracks)
        /\ queue \in [1 .. Len(tracks) -> 1 .. Len(tracks)] /\ PL!Here \in Ids
        /\ tracks \in [1 .. Len(tracks) -> Ids]
    BY <1>2, ListFacts
  <2>2. PICK n, S : n \in Nat /\ n = Len(tracks) /\ S = 1 .. n
    BY <2>1
  <2>3. \A k \in S : tracks[queue[k]] \in Ids
    BY <2>1, <2>2
  <2>4. 1 \in S /\ (index < n => index + 1 \in S)
    BY <2>1, <2>2
  <2> QED BY <2>1, <2>2, <2>3, <2>4 DEF PL!PeekNextTrack
<1> QED BY <1>1, <1>2

-----------------------------------------------------------------------------
(* The invariant holds initially and is kept by every handler.              *)

LEMMA InitIInv == Init => IInv
<1> SUFFICES ASSUME Init PROVE IInv
  OBVIOUS
<1>1. ListOK /\ call = NoTrack
  <2>1. tracks = <<>> /\ queue = <<>> /\ index = 1 /\ active = NoTrack
        /\ shuffle \in BOOLEAN /\ repeat \in PL!Modes
    BY PlaybackAssumption DEF Init, PL!Modes
  <2>2. <<>> \in [1 .. Len(<<>>) -> 1 .. Len(<<>>)] /\ <<>> \in Seq(Ids) /\ <<>> \in Seq(Nat)
    OBVIOUS
  <2> QED BY <2>1, <2>2 DEF Init, ListOK, PL!TypeOK, Placed
<1>2. FlagsOK
  <2>1. crossfade \in BOOLEAN
    BY PlaybackAssumption, Zenon DEF Init
  <2>2. 0 \in 0 .. MaxSkips - 1
    BY PlaybackAssumption
  <2> QED BY <2>1, <2>2 DEF Init, FlagsOK, Signals
<1>3. Idle \in Requests /\ Idle.fresh = FALSE
  BY PlaybackAssumption DEF Idle, Requests
<1>4. Fetching = {} /\ Retrying = {} /\ Wanted = {}
  BY <1>3 DEF Init, Fetching, Retrying, Wanted
<1>5. ChainOK
  BY <1>3, <1>4 DEF Init, ChainOK, OneRequest
<1> QED BY <1>1, <1>2, <1>4, <1>5, Parts DEF OnlyAskedIsWanted, AskedIsShown, Main, Init

LEMMA AttemptKeeps ==
  ASSUME IInv, NEW t \in Ids, call = t, AttemptPlay(t)
  PROVE  IInv'
<1>1. ListOK /\ FlagsOK /\ ChainOK /\ t # NoTrack /\ t = CurrentTrack
  BY Parts, PlaybackAssumption DEF Main
<1>2. Asked(t) /\ asked' = t /\ strayed' = FALSE
  BY DEF AttemptPlay, PlayLocal, PlayFetchedAhead, PlayFromNetwork, Asked
<1>3. CASE PlayLocal(t)
  <2>1. CancelFetch(current) /\ debounce' = NoTrack /\ streaming' = NoTrack
    BY <1>3 DEF PlayLocal
  <2>2. ChainOK' /\ Wanted' = {}
    BY <1>1, <2>1, NewChain
  <2>3. Settled
    BY <1>1, <1>2, <1>3, AskNothingTurned, AskNextTurned, AttemptSettled DEF PlayLocal
  <2>4. FlagsOK'
    <3>1. 0 \in 0 .. MaxSkips - 1
      BY PlaybackAssumption
    <3>2. CASE Begin(t)
      BY <1>1, <1>2, <1>3, <3>1, <3>2, Begun DEF PlayLocal, Forget, FlagsOK, settings
    <3>3. CASE Load(NoTrack) /\ UNCHANGED <<playing, startPaused>>
      BY <1>1, <1>2, <1>3, <3>1, <3>3 DEF PlayLocal, FlagsOK, Load, Forget, settings, Signals
    <3> QED BY <1>3, <3>2, <3>3 DEF PlayLocal
  <2> QED BY <2>1, <2>2, <2>3, <2>4, Kept
<1>4. CASE PlayFetchedAhead(t)
  <2>1. CancelFetch(current) /\ debounce' = NoTrack /\ streaming' = t
    BY <1>4 DEF PlayFetchedAhead
  <2>2. ChainOK' /\ Wanted' = {}
    BY <1>1, <2>1, NewChain
  <2>3. Settled
    BY <1>1, <1>2, <1>4, AskNothingTurned, AttemptSettled DEF PlayFetchedAhead
  <2>4. FlagsOK'
    <3>1. 0 \in 0 .. MaxSkips - 1
      BY PlaybackAssumption
    <3> QED BY <1>1, <1>2, <1>4, <3>1, Begun DEF PlayFetchedAhead, FlagsOK, settings
  <2> QED BY <1>2, <2>1, <2>2, <2>3, <2>4, Kept
<1>5. CASE PlayFromNetwork(t)
  <2>1. CancelFetch(current) /\ debounce' = t /\ streaming' = NoTrack
    BY <1>5 DEF PlayFromNetwork
  <2>2. ChainOK' /\ Wanted' = {t} \ {NoTrack}
    BY <1>1, <2>1, NewChain
  <2>3. Settled
    BY <1>1, <1>2, <1>5, AskNothingTurned, AttemptSettled DEF PlayFromNetwork
  <2>4. FlagsOK'
    <3>1. CASE Load(NoTrack) /\ playing' = FALSE
      BY <1>1, <1>2, <1>5, <3>1 DEF PlayFromNetwork, FlagsOK, Load, Forget, settings, Signals
    <3>2. CASE fading' = (heard # NoTrack) /\ UNCHANGED <<heard, playing, nearEnd, finished>>
      <4>1. fading' \in BOOLEAN
        BY <3>2, Zenon
      <4> QED BY <1>1, <1>2, <1>5, <3>2, <4>1 DEF PlayFromNetwork, FlagsOK, Forget, settings
    <3> QED BY <1>5, <3>1, <3>2 DEF PlayFromNetwork
  <2> QED BY <1>2, <2>1, <2>2, <2>3, <2>4, Kept
<1> QED BY <1>3, <1>4, <1>5 DEF AttemptPlay

LEMMA DebounceKeeps == ASSUME IInv, DebounceTimeout PROVE IInv'
<1>1. /\ ListOK /\ FlagsOK /\ ChainOK /\ AskedIsShown
      /\ Wanted \subseteq {asked} /\ streaming \in {NoTrack, asked}
  BY Before DEF DebounceTimeout
<1>2. Main /\ debounce \in Ids /\ debounce = asked /\ Fetching = {} /\ Retrying = {}
  BY <1>1 DEF DebounceTimeout, ChainOK, OneRequest, Wanted
<1>3. Retrying' = {} /\ 1 \in 1 .. MaxAttempts /\ current \in Sources \cup {NoSource}
  BY <1>1, <1>2, PlaybackAssumption DEF DebounceTimeout, Retrying, FlagsOK
<1>4. Turned /\ ChainOK' /\ Wanted' \subseteq {debounce}
  BY <1>1, <1>2, <1>3, Executed DEF DebounceTimeout
<1>5. FlagsOK' /\ streaming' = streaming /\ UNCHANGED <<asked, strayed>>
  BY <1>1 DEF DebounceTimeout, FlagsOK, settings, engine, history
<1>6. Settled
  BY <1>1, <1>2, <1>4, <1>5, TurnedSettled
<1> QED BY <1>1, <1>2, <1>4, <1>5, <1>6, Kept

LEMMA RetryKeeps == ASSUME IInv, NEW r \in timers, RetryTimeout(r) PROVE IInv'
<1>1. /\ ListOK /\ FlagsOK /\ ChainOK /\ AskedIsShown
      /\ Wanted \subseteq {asked} /\ streaming \in {NoTrack, asked}
  BY Before DEF RetryTimeout
<1>2. FlagsOK' /\ streaming' = streaming /\ debounce' = debounce /\ timers' = timers \ {r}
      /\ Main /\ UNCHANGED <<asked, strayed>>
  BY <1>1 DEF RetryTimeout, FlagsOK, settings, engine, history
<1>3. CASE r.fresh
  <2>1. r \in Retrying /\ r.track \in Ids /\ r.track = asked
    BY <1>1, <1>3 DEF Retrying, Wanted, ChainOK
  <2>2. Fetching = {} /\ debounce = NoTrack /\ Retrying' = {}
    BY <1>1, <1>2, <2>1 DEF ChainOK, OneRequest, Retrying
  <2>3. r.attempt + 1 \in 1 .. MaxAttempts
    <3>1. PICK n \in 0 .. MaxAttempts : n = r.attempt
      BY <1>1 DEF ChainOK, Requests
    <3>2. n < MaxAttempts
      BY <1>1, <3>1 DEF ChainOK
    <3> QED BY <3>1, <3>2, PlaybackAssumption
  <2>4. ExecuteAttemptPlay(r.track, r.attempt + 1)
    BY <1>3 DEF RetryTimeout
  <2>5. Turned /\ ChainOK' /\ Wanted' \subseteq {r.track}
    <3>1. PICK t \in Ids, n \in 1 .. MaxAttempts : t = r.track /\ n = r.attempt + 1
      BY <2>1, <2>3
    <3> QED BY <1>1, <1>2, <2>2, <2>4, <3>1, Executed DEF FlagsOK
  <2>6. Settled
    BY <1>1, <1>2, <2>5, TurnedSettled
  <2> QED BY <1>1, <1>2, <2>1, <2>5, <2>6, Kept
<1>4. CASE ~r.fresh
  <2>1. AskNothing /\ UNCHANGED slot
    BY <1>4 DEF RetryTimeout
  <2>2. Retrying' = Retrying /\ Fetching' = Fetching
    BY <1>2, <1>4, <2>1 DEF Retrying, Fetching
  <2>3. ChainOK' /\ Wanted' = Wanted
    BY <1>1, <1>2, <2>1, <2>2 DEF ChainOK, OneRequest, Wanted
  <2>4. Settled
    BY <1>1, <1>2, <2>1, AskNothingTurned, TurnedSettled
  <2> QED BY <1>1, <1>2, <2>3, <2>4, Kept
<1> QED BY <1>3, <1>4

LEMMA AnswerKeeps ==
  ASSUME IInv, NEW provider \in Sources, NEW a \in Answers, Answer(provider, a)
  PROVE  IInv'
<1>1. /\ ListOK /\ FlagsOK /\ ChainOK /\ AskedIsShown
      /\ Wanted \subseteq {asked} /\ streaming \in {NoTrack, asked}
  BY Before DEF Answer
<1>2. PICK r \in Requests : r = slot[provider]
  BY <1>1 DEF ChainOK
<1>3. /\ Fetch(provider, Idle) /\ UNCHANGED <<debounce, settings>>
      /\ Main /\ UNCHANGED <<asked, strayed>>
  BY DEF Answer, history
<1>4. Idle \in Requests /\ Idle.fresh = FALSE
  BY PlaybackAssumption DEF Idle, Requests
<1>5. ahead' \in Ids \cup {NoTrack}
  BY <1>1, <1>2 DEF Answer, FlagsOK, Requests
<1>6. CASE UNCHANGED <<timers, skips, saved, startPaused, streaming, engine>> /\ AskNothing
  <2>1. ChainOK' /\ Wanted' \subseteq Wanted
    BY <1>1, <1>3, <1>4, <1>6, OtherFetched
  <2>2. FlagsOK'
    BY <1>1, <1>3, <1>5, <1>6 DEF FlagsOK, settings, engine
  <2>3. Settled
    BY <1>1, <1>3, <1>6, AskNothingTurned, TurnedSettled
  <2> QED BY <1>1, <1>3, <1>6, <2>1, <2>2, <2>3, Kept
<1>7. ASSUME r.for = "play", r.fresh
      PROVE  /\ r.track \in Ids /\ r.track = asked
             /\ debounce = NoTrack /\ Fetching \subseteq {provider} /\ Retrying = {}
  <2>1. provider \in Fetching
    BY <1>2, <1>7 DEF Fetching
  <2> QED BY <1>1, <1>2, <2>1 DEF ChainOK, OneRequest, Wanted
<1>8. ASSUME r.for = "play", r.fresh, UNCHANGED timers
      PROVE  ChainOK' /\ Wanted' = {}
  <2>1. ChainOK' /\ Fetching' = Fetching \ {provider} /\ Retrying' = Retrying
    BY <1>1, <1>3, <1>4, <1>8, OtherFetched
  <2> QED BY <1>3, <1>7, <1>8, <2>1 DEF Wanted
<1>9. CASE r.for = "play" /\ r.fresh /\ StartStream(r.track)
  <2>1. FlagsOK'
    <3>1. 0 \in 0 .. MaxSkips - 1 /\ saved' \in Ids \cup {NoTrack}
      BY <1>1, <1>9, PlaybackAssumption DEF StartStream, FlagsOK
    <3> QED BY <1>1, <1>3, <1>5, <1>7, <1>9, <3>1, Begun DEF StartStream, FlagsOK, settings
  <2>2. Settled /\ streaming' = asked /\ UNCHANGED timers
    BY <1>1, <1>3, <1>7, <1>9, AskNothingTurned, TurnedSettled DEF StartStream
  <2> QED BY <1>3, <1>8, <1>9, <2>1, <2>2, Kept
<1>10. CASE r.for = "play" /\ r.fresh /\ SkipRestricted
  <2>1. FlagsOK'
    <3>1. skips' \in 0 .. MaxSkips - 1
      <4>1. PICK m \in 0 .. MaxSkips - 1 : m = skips
        BY <1>1 DEF FlagsOK
      <4> QED BY <1>10, <4>1, PlaybackAssumption DEF SkipRestricted
    <3> QED BY <1>1, <1>3, <1>5, <1>10, <3>1 DEF SkipRestricted, FlagsOK, settings, engine
  <2>2. Settled /\ UNCHANGED <<timers, streaming>>
    BY <1>1, <1>3, <1>10, AskNothingTurned, AskNextTurned, TurnedSettled DEF SkipRestricted
  <2> QED BY <1>1, <1>3, <1>8, <1>10, <2>1, <2>2, Kept
<1>11. CASE r.for = "play" /\ r.fresh /\ RetryLater(r)
  <2>1. FlagsOK'
    <3>1. 0 \in 0 .. MaxSkips - 1
      BY PlaybackAssumption
    <3> QED BY <1>1, <1>3, <1>5, <1>11, <3>1 DEF RetryLater, FlagsOK, settings, engine
  <2>2. Settled /\ UNCHANGED streaming
    BY <1>1, <1>3, <1>11, AskNothingTurned, AskNextTurned, TurnedSettled DEF RetryLater
  <2>3. CASE UNCHANGED timers
    BY <1>1, <1>3, <1>8, <1>11, <2>1, <2>2, <2>3, Kept
  <2>4. CASE r.attempt < MaxAttempts /\ timers' = timers \cup {r}
    <3>1. slot' \in [Sources -> Requests] /\ Fetching' = {}
      BY <1>1, <1>3, <1>4, <1>7, <1>11 DEF Fetch, ChainOK, Fetching
    <3>2. Retrying' = {r}
      BY <1>7, <1>11, <2>4 DEF Retrying
    <3>3. ChainOK' /\ Wanted' \subseteq {r.track}
      BY <1>1, <1>2, <1>3, <1>7, <1>11, <2>4, <3>1, <3>2 DEF ChainOK, OneRequest, Wanted
    <3> QED BY <1>1, <1>3, <1>7, <1>11, <2>1, <2>2, <3>3, Kept
  <2> QED BY <1>11, <2>3, <2>4 DEF RetryLater
<1> QED BY <1>2, <1>6, <1>9, <1>10, <1>11, Zenon DEF Answer

\* Fetching ahead ends a request at most.
LEMMA NearEndFetches ==
  ASSUME ListOK, FlagsOK, ChainOK, UNCHANGED slot \/ HandleTrackNearEnd,
         UNCHANGED <<debounce, timers>>
  PROVE  /\ ChainOK' /\ Wanted' \subseteq Wanted
         /\ Fetching' \subseteq Fetching /\ Retrying' = Retrying
<1>1. CASE UNCHANGED slot
  BY <1>1, SameChain DEF requests
<1>2. CASE HandleTrackNearEnd /\ ~ UNCHANGED slot
  <2>1. PICK t \in Ids : /\ t = PL!PeekNextTrack /\ ProviderOf(t) # NoSource
                         /\ Fetch(ProviderOf(t), Request("ahead", t, 0))
    BY <1>2, Peeked DEF HandleTrackNearEnd
  <2>2. ProviderOf(t) \in Sources
    BY <2>1, PlaybackAssumption DEF ProviderOf, FlagsOK
  <2>3. PICK q \in Requests : q = Request("ahead", t, 0) /\ q.fresh = FALSE
    BY OtherRequest
  <2> QED BY <2>1, <2>2, <2>3, OtherFetched
<1> QED BY <1>1, <1>2

LEMMA PollKeeps == ASSUME IInv, PollEvents PROVE IInv'
<1>1. /\ ListOK /\ FlagsOK /\ ChainOK /\ AskedIsShown
      /\ Wanted \subseteq {asked} /\ streaming \in {NoTrack, asked}
  BY Before DEF PollEvents
<1>2. Main /\ UNCHANGED <<debounce, timers, streaming, asked, strayed>>
  BY DEF PollEvents, history
<1>3. UNCHANGED slot \/ HandleTrackNearEnd
  BY DEF PollEvents
<1>4. ChainOK' /\ Wanted' \subseteq Wanted /\ Fetching' \subseteq Fetching
  BY <1>1, <1>2, <1>3, NearEndFetches
<1>5. Settled
  BY <1>1, <1>2, AskNextTurned, AskNothingTurned, TurnedSettled DEF PollEvents
<1>6. FlagsOK'
  <2>1. nearEnd' \in Signals /\ finished' \in Signals
    BY <1>1 DEF PollEvents, FlagsOK, Signals
  <2> QED BY <1>1, <2>1 DEF PollEvents, FlagsOK, settings, history
<1> QED BY <1>1, <1>2, <1>4, <1>5, <1>6, Kept

\* A handler that touches neither the requests nor what is streamed.
LEMMA AskingKeeps ==
  ASSUME IInv, Settled, FlagsOK', UNCHANGED <<requests, streaming, asked>>
  PROVE  IInv'
<1>1. ChainOK /\ Wanted \subseteq {asked} /\ streaming \in {NoTrack, asked}
  BY Before
<1>2. ChainOK' /\ Wanted' = Wanted
  BY <1>1, SameChain
<1> QED BY <1>1, <1>2, Kept

LEMMA CommandSettles ==
  ASSUME AskedIsShown, ListOK, Command PROVE Settled
<1>1. ASSUME AskForNext PROVE Settled
  BY <1>1, AskNextTurned, TurnedSettled DEF AskForNext, Commanded
<1>2. ASSUME AskForPrevious PROVE Settled
  BY <1>2, PreviousTurned, TurnedSettled DEF AskForPrevious, Commanded
<1>3. ASSUME NEW i \in 1 .. Len(tracks), AskFor(i) PROVE Settled
  BY <1>3, JumpTurned, TurnedSettled DEF AskFor, Commanded
<1>4. ASSUME NEW t \in Ids, AskForFound(t) PROVE Settled
  BY <1>4, ActiveTurned, TurnedSettled DEF AskForFound, Commanded
<1>5. ASSUME NEW enable \in BOOLEAN, NEW play \in AutoPlay, SetShuffle(enable, play) PROVE Settled
  <2>1. Main /\ play \in BOOLEAN
    BY <1>5, PlaybackAssumption DEF SetShuffle, Commanded
  <2> QED BY <1>5, <2>1, ShuffleSettled
<1>6. ASSUME ToggleRepeat PROVE Settled
  BY <1>6, RepeatTurned, TurnedSettled DEF ToggleRepeat, Commanded, Main
<1>7. ASSUME NEW enabled, SetCrossfadeEnabled(enabled) PROVE Settled
  BY <1>7, AskNothingTurned, TurnedSettled DEF SetCrossfadeEnabled, AskNothing, Main, history
<1>8. ASSUME NEW t, DownloadTrack(t) PROVE Settled
  BY <1>8, AskNothingTurned, TurnedSettled DEF DownloadTrack, AskNothing, Main, history
<1>9. ASSUME SetPositionSeconds \/ TogglePause PROVE Settled
  BY <1>9, AskNothingTurned, TurnedSettled
    DEF SetPositionSeconds, TogglePause, Silent, AskNothing, Main, history
<1> QED BY <1>1, <1>2, <1>3, <1>4, <1>5, <1>6, <1>7, <1>8, <1>9 DEF Command

LEMMA Downloading ==
  ASSUME ChainOK, NEW t \in Saves, DownloadTrack(t)
  PROVE  /\ ChainOK' /\ Wanted' \subseteq Wanted
         /\ Fetching' \subseteq Fetching /\ Retrying' = Retrying
<1>1. PICK q \in Requests : q = Request("disk", t, 0) /\ q.fresh = FALSE
  BY OtherRequest, PlaybackAssumption
<1>2. SourceOf[t] \in Sources /\ Fetch(SourceOf[t], q) /\ UNCHANGED <<debounce, timers>>
  BY <1>1, PlaybackAssumption DEF DownloadTrack
<1> QED BY <1>1, <1>2, OtherFetched

LEMMA CommandKeeps == ASSUME IInv, Command PROVE IInv'
<1>1. ListOK /\ FlagsOK /\ ChainOK /\ Settled
  BY Parts, CommandSettles
<1>2. ASSUME Commanded, strayed' \in BOOLEAN PROVE IInv'
  <2>1. FlagsOK' /\ UNCHANGED <<requests, streaming, asked>>
    BY <1>1, <1>2 DEF Commanded, FlagsOK, settings, engine
  <2> QED BY <1>1, <2>1, AskingKeeps
<1>3. ASSUME NEW enabled \in CrossfadeModes, SetCrossfadeEnabled(enabled) PROVE IInv'
  <2>1. enabled \in BOOLEAN
    BY PlaybackAssumption
  <2>2. FlagsOK' /\ UNCHANGED <<requests, streaming, asked>>
    BY <1>1, <1>3, <2>1 DEF SetCrossfadeEnabled, FlagsOK, engine, history
  <2> QED BY <1>1, <2>2, AskingKeeps
<1>4. ASSUME NEW t \in Saves, DownloadTrack(t) PROVE IInv'
  <2>1. Wanted \subseteq {asked} /\ streaming \in {NoTrack, asked}
    BY Before
  <2>2. ChainOK' /\ Wanted' \subseteq Wanted
    BY <1>1, <1>4, Downloading
  <2>3. FlagsOK' /\ UNCHANGED <<streaming, asked>>
    BY <1>1, <1>4 DEF DownloadTrack, FlagsOK, settings, engine, history
  <2> QED BY <1>1, <2>1, <2>2, <2>3, Kept
<1>5. ASSUME SetPositionSeconds PROVE IInv'
  <2>1. FlagsOK' /\ UNCHANGED <<requests, streaming, asked>>
    BY <1>1, <1>5 DEF SetPositionSeconds, Silent, FlagsOK, settings, Signals, history
  <2> QED BY <1>1, <2>1, AskingKeeps
<1>6. ASSUME TogglePause PROVE IInv'
  <2>1. playing' \in BOOLEAN
    BY <1>6, Zenon DEF TogglePause
  <2>2. FlagsOK' /\ UNCHANGED <<requests, streaming, asked>>
    BY <1>1, <1>6, <2>1 DEF TogglePause, Silent, FlagsOK, settings, history
  <2> QED BY <1>1, <2>2, AskingKeeps
<1>7. ASSUME NEW enable \in BOOLEAN, NEW play \in AutoPlay, SetShuffle(enable, play) PROVE IInv'
  <2>1. strayed' \in BOOLEAN
    BY <1>7, Zenon DEF SetShuffle, Strays
  <2> QED BY <1>2, <1>7, <2>1 DEF SetShuffle
<1>8. ASSUME UNCHANGED strayed, Commanded PROVE IInv'
  BY <1>1, <1>2, <1>8 DEF FlagsOK
<1> QED BY <1>3, <1>4, <1>5, <1>6, <1>7, <1>8
  DEF Command, AskForNext, AskForPrevious, AskFor, AskForFound, ToggleRepeat

\* The audio thread may run at any time, but raises signals only.
LEMMA SilentKeeps ==
  ASSUME IInv, UNCHANGED Silent, heard' \in Ids \cup {NoTrack}, playing' \in BOOLEAN,
         nearEnd' \in Signals, finished' \in Signals, fading' \in BOOLEAN
  PROVE  IInv'
<1>1. FlagsOK /\ ChainOK /\ ListOK
  BY Parts
<1>2. UNCHANGED <<playlist, call, requests, streaming, asked, strayed>>
  BY DEF Silent, history
<1>3. FlagsOK'
  BY <1>1 DEF FlagsOK, Silent, settings, history
<1>4. ListOK' /\ CurrentTrack' = CurrentTrack
  BY <1>1, <1>2 DEF playlist, ListOK, PL!TypeOK, Placed, CurrentTrack, PL!Here
<1>5. ChainOK' /\ Wanted' = Wanted
  BY <1>1, <1>2, SameChain
<1> QED BY <1>1, <1>2, <1>3, <1>4, <1>5
  DEF IInv, TypeOK, ListOK, FlagsOK, ChainOK, Main, OnlyAskedIsWanted

LEMMA AudioKeeps == ASSUME IInv, Audio PROVE IInv'
<1>1. FlagsOK
  BY Parts
<1>2. UNCHANGED Silent /\ heard' \in Ids \cup {NoTrack} /\ playing' \in BOOLEAN
      /\ nearEnd' \in Signals /\ finished' \in Signals /\ fading' \in BOOLEAN
  BY <1>1 DEF Audio, RaiseNearEnd, RaiseFinished, FlagsOK, Signals
<1> QED BY <1>2, SilentKeeps

LEMMA ClearKeeps ==
  ASSUME IInv, NEW provider, ClearState(provider), PL!Clear, call' = NoTrack,
         current' \in Sources \cup {NoSource}, started' = FALSE
  PROVE  IInv'
<1>1. ListOK /\ FlagsOK /\ ChainOK
  BY Parts
<1>2. /\ CancelFetch(provider) /\ debounce' = NoTrack /\ streaming' = NoTrack
      /\ asked' = NoTrack /\ strayed' = FALSE /\ UNCHANGED <<skips, startPaused, crossfade>>
  BY DEF ClearState, Cancel, Asked
<1>3. ChainOK' /\ Wanted' = {}
  BY <1>1, <1>2, NewChain
<1>4. FlagsOK'
  BY <1>1, <1>2 DEF ClearState, Cancel, Load, FlagsOK, Signals
<1>5. ListOK'
  BY <1>1, EmptyList DEF PL!Clear
<1> QED BY <1>2, <1>3, <1>4, <1>5, Cleared

\* Where the stored tracks are put, the first track is played, or another.
LEMMA Populated ==
  ASSUME ListOK, NEW ts \in Seq(Ids), NEW t, Populate(ts, t)
  PROVE  /\ tracks' \in Seq(Ids) /\ Len(tracks') \in Nat
         /\ tracks' \in [1 .. Len(tracks') -> Ids]
         /\ tracks' = <<>> <=> Len(tracks') = 0
         /\ queue' \in [1 .. Len(tracks') -> 1 .. Len(tracks')]
         /\ queue' \in Seq(Nat) /\ shuffle' \in BOOLEAN
         /\ tracks # <<>> => UNCHANGED <<tracks, queue>> /\ t = active
         /\ tracks' # <<>> => index \in 1 .. Len(tracks')
         /\ tracks' = <<>> => tracks = <<>> /\ index = 1
         /\ t = active \/ t \in Ids
<1>1. CASE tracks # <<>>
  <2>1. UNCHANGED <<tracks, queue, shuffle>> /\ t = active
    BY <1>1 DEF Populate
  <2> QED BY <1>1, <2>1, ListFacts DEF ListOK, PL!TypeOK
<1>2. CASE tracks = <<>>
  <2>1. tracks' = ts
    BY <1>2 DEF Populate
  <2>2. Len(ts) \in Nat /\ ts \in [1 .. Len(ts) -> Ids] /\ (ts = <<>> <=> Len(ts) = 0)
    OBVIOUS
  <2>3. ts # <<>> => 1 \in 1 .. Len(ts)
    BY <2>2
  <2>4. /\ queue' \in [1 .. Len(ts) -> 1 .. Len(ts)] /\ shuffle' \in BOOLEAN
        /\ t = active \/ t \in Ids
    <3>1. CASE queue' = PL!Identity(Len(ts)) /\ t = active /\ UNCHANGED shuffle
      BY <3>1 DEF PL!Identity, ListOK, PL!TypeOK
    <3>2. CASE /\ queue' \in PL!Orders(Len(ts)) /\ shuffle' = TRUE
               /\ t = active \/ (ts # <<>> /\ t = ts[queue'[1]])
      <4>1. queue' \in [1 .. Len(ts) -> 1 .. Len(ts)]
        BY <3>2 DEF PL!Orders, PL!Injection
      <4> QED BY <2>2, <2>3, <3>2, <4>1
    <3> QED BY <1>2, <3>1, <3>2 DEF Populate
  <2>5. index = 1
    <3>1. Len(tracks) = 0
      BY <1>2
    <3> QED BY <1>2, <3>1 DEF ListOK, Placed
  <2>6. queue' \in Seq(Nat)
    BY <2>4, ListIntro
  <2> QED BY <1>2, <2>1, <2>2, <2>3, <2>4, <2>5, <2>6
<1> QED BY <1>1, <1>2

LEMMA ReadySettled ==
  ASSUME AskedIsShown, ListOK, FlagsOK, Main, NEW online \in BOOLEAN, ProviderReady(online)
  PROVE  Settled /\ FlagsOK'
<1>1. Stored(online) \in Seq(Ids)
  BY PlaybackAssumption DEF Stored, FlagsOK
<1>2. PICK t \in Ids \cup {NoTrack} :
       /\ Populate(Stored(online), t) /\ Strays(t)
       /\ IF started \/ tracks' = <<>>
            THEN /\ index' = IF started THEN Aligned(t) ELSE index
                 /\ active' = t /\ call' = NoTrack
                 /\ UNCHANGED <<saved, started>>
            ELSE /\ started' = TRUE
                 /\ \/ \E i \in PL!Range(queue') :
                         index' = PL!FirstAt(queue', i) /\ active' = tracks'[i] /\ call' = active'
                    \/ index' = index /\ active' = t /\ call' = CurrentTrack'
                 /\ saved' \in {NoTrack, call'}
  BY DEF ProviderReady
<1>3. PICK n, S :
        /\ n \in Nat /\ n = Len(tracks') /\ S = 1 .. n
        /\ tracks' \in Seq(Ids) /\ tracks' \in [S -> Ids] /\ (tracks' = <<>> <=> n = 0)
        /\ queue' \in [S -> S] /\ queue' \in Seq(Nat) /\ shuffle' \in BOOLEAN
        /\ (tracks' # <<>> => index \in S) /\ (tracks' = <<>> => tracks = <<>> /\ index = 1)
        /\ (tracks # <<>> => UNCHANGED <<tracks, queue>> /\ t = active)
        /\ (t = active \/ t \in Ids)
  BY <1>1, <1>2, Populated
<1>4. \A x \in PL!Range(queue') : x \in S /\ PL!FirstAt(queue', x) \in S
                                  /\ queue'[PL!FirstAt(queue', x)] = x
  <2>1. DOMAIN queue' = 1 .. n
    BY <1>3
  <2>2. \A x \in PL!Range(queue') : x \in S
    BY <1>3, <2>1 DEF PL!Range
  <2> QED BY <1>3, <2>1, <2>2, FirstPlace
<1>5. /\ UNCHANGED <<repeat, skips, ahead, startPaused, crossfade, current, streaming, engine>>
      /\ repeat' \in PL!Modes
  BY DEF ProviderReady, ListOK, PL!TypeOK
<1>6. ASSUME active' \in Ids \cup {NoTrack}, tracks' = <<>> => index' = 1,
             tracks' # <<>> => index' \in S
      PROVE  ListOK'
  <2>1. index' \in Nat
    BY <1>3, <1>6
  <2> QED BY <1>3, <1>5, <1>6, <2>1 DEF ListOK, PL!TypeOK, Placed
<1>7. asked' = asked /\ (strayed => strayed') /\ strayed' \in BOOLEAN
  BY <1>2, Zenon DEF Strays
<1>8. FlagsOK'
  <2>1. call' \in Ids \cup {NoTrack} /\ started' \in BOOLEAN
        /\ (started \/ tracks' = <<>> => saved' = saved)
    <3>1. CASE started \/ tracks' = <<>>
      BY <1>2, <3>1 DEF FlagsOK
    <3>2. CASE ~started /\ tracks' # <<>>
      <4>1. ASSUME NEW i \in PL!Range(queue'), active' = tracks'[i], call' = active'
            PROVE  call' \in Ids
        BY <1>3, <1>4, <4>1
      <4>2. ASSUME index' = index, active' = t, call' = CurrentTrack'
            PROVE  call' \in Ids \cup {NoTrack}
        <5>1. tracks'[queue'[index']] \in Ids
          BY <1>3, <3>2, <4>2
        <5> QED BY <4>2, <5>1 DEF CurrentTrack, PL!Here
      <4> QED BY <1>2, <3>2, <4>1, <4>2
    <3> QED BY <3>1, <3>2
  <2>2. saved' \in Ids \cup {NoTrack}
    BY <1>2, <2>1 DEF FlagsOK
  <2> QED BY <1>5, <1>7, <2>1, <2>2 DEF FlagsOK, engine
<1>9. CASE started \/ tracks' = <<>>
  <2> SUFFICES Settled
    BY <1>8
  <2>1. /\ active' = t /\ call' = NoTrack
        /\ index' = IF started THEN Aligned(t) ELSE index
    BY <1>2, <1>9
  <2>2. tracks' # <<>> => index' \in S
    BY <1>3, <1>4, <2>1 DEF Aligned
  <2>3. tracks' = <<>> => index' = 1
    <3>1. tracks' = <<>> => PL!Range(queue') = {}
      BY <1>3 DEF PL!Range
    <3> QED BY <1>3, <2>1, <3>1 DEF Aligned
  <2>4. ListOK'
    BY <1>6, <2>1, <2>2, <2>3
  <2>5. CASE t \in Ids
    BY <1>2, <2>1, <2>4, <2>5, StraySettled
  <2>6. CASE t = NoTrack
    <3>1. active = NoTrack
      BY <1>3, <2>6, PlaybackAssumption
    <3>2. CASE tracks # <<>>
      <4>1. active \notin PL!Range(tracks')
        BY <1>3, <3>1, PlaybackAssumption DEF PL!Range
      <4>2. UNCHANGED <<tracks, queue, index, active>>
        BY <1>3, <2>1, <3>2, <4>1 DEF Aligned
      <4>3. CurrentTrack' = CurrentTrack
        BY <4>2 DEF CurrentTrack, PL!Here
      <4> QED BY <1>7, <2>1, <2>4, <4>3, TurnedSettled DEF Turned
    <3>3. CASE tracks = <<>>
      <4>1. CurrentTrack = NoTrack
        BY <3>1, <3>3 DEF CurrentTrack
      <4> QED BY <1>7, <2>1, <2>4, <4>1, TurnedSettled DEF Turned
    <3> QED BY <3>2, <3>3
  <2> QED BY <1>3, <2>5, <2>6
<1>10. ASSUME ~started, tracks' # <<>>, NEW i \in PL!Range(queue'),
              index' = PL!FirstAt(queue', i), active' = tracks'[i], call' = active'
       PROVE  Settled
  <2>1. active' \in Ids /\ index' \in S
    BY <1>3, <1>4, <1>10
  <2>2. active' # NoTrack /\ CurrentTrack' = active'
    BY <2>1, PlaybackAssumption DEF CurrentTrack
  <2> QED BY <1>6, <1>10, <2>1, <2>2 DEF Settled
<1>11. ASSUME ~started, tracks' # <<>>, index' = index, active' = t, call' = CurrentTrack'
       PROVE  Settled
  <2>1. ListOK'
    BY <1>3, <1>6, <1>11
  <2>2. CurrentTrack' \in Ids
    <3>1. tracks'[queue'[index']] \in Ids
      BY <1>3, <1>11
    <3> QED BY <1>11, <3>1 DEF CurrentTrack, PL!Here
  <2> QED BY <1>11, <2>1, <2>2, PlaybackAssumption DEF Settled
<1> QED BY <1>2, <1>8, <1>9, <1>10, <1>11

LEMMA AccountKeeps == ASSUME IInv, Account PROVE IInv'
<1>1. ListOK /\ FlagsOK /\ ChainOK /\ AskedIsShown
  BY Parts
<1>2. ASSUME CancelPlaybackAndRetries PROVE IInv'
  <2>1. /\ CancelFetch(current) /\ debounce' = NoTrack /\ streaming' = NoTrack
        /\ AskNothing /\ Main /\ UNCHANGED <<asked, strayed>>
    BY <1>2 DEF CancelPlaybackAndRetries, Cancel, AskNothing, Main, history
  <2>2. ChainOK' /\ Wanted' = {}
    BY <1>1, <2>1, NewChain
  <2>3. FlagsOK'
    BY <1>1, <1>2 DEF CancelPlaybackAndRetries, Cancel, Load, FlagsOK, settings, Signals, history
  <2>4. Settled
    BY <1>1, <2>1, AskNothingTurned, TurnedSettled
  <2> QED BY <2>1, <2>2, <2>3, <2>4, Kept
<1>3. ASSUME HandleLogout PROVE IInv'
  <2>1. current' \in Sources \cup {NoSource}
    BY <1>1, <1>3 DEF HandleLogout, FlagsOK
  <2> QED BY <1>3, <2>1, ClearKeeps DEF HandleLogout, Main
<1>4. ASSUME NEW s \in Sources \cup {NoSource}, SourceChanged(s) PROVE IInv'
  <2>1. CASE playing \/ started
    <3>1. FlagsOK' /\ Turned /\ Main /\ UNCHANGED <<requests, streaming, asked, strayed>>
      BY <1>1, <1>4, <2>1, KeepActiveTurned DEF SourceChanged, FlagsOK, engine, history
    <3>2. Settled
      BY <1>1, <3>1, TurnedSettled
    <3> QED BY <3>1, <3>2, AskingKeeps
  <2>2. CASE ~ (playing \/ started)
    BY <1>4, <2>2, ClearKeeps DEF SourceChanged
  <2> QED BY <2>1, <2>2
<1>5. ASSUME NEW online \in BOOLEAN, ProviderReady(online) PROVE IInv'
  <2>1. Main /\ UNCHANGED <<requests, streaming, asked>>
    BY <1>5 DEF ProviderReady, Strays
  <2> QED BY <1>1, <1>5, <2>1, ReadySettled, AskingKeeps
<1> QED BY <1>2, <1>3, <1>4, <1>5 DEF Account

LEMMA IInvNext == ASSUME IInv, [Next]_vars PROVE IInv'
<1>1. CASE UNCHANGED vars
  <2>1. FlagsOK /\ UNCHANGED <<Silent, engine>>
    BY <1>1, Parts DEF vars, Silent
  <2> QED BY <2>1, SilentKeeps DEF FlagsOK, engine
<1>2. CASE Handler
  BY <1>2, AttemptKeeps, DebounceKeeps, RetryKeeps, AnswerKeeps, PollKeeps DEF Handler
<1> QED BY <1>1, <1>2, CommandKeeps, AccountKeeps, AudioKeeps DEF Next

(* The invariant for every list, every set of sources and tracks, any       *)
(* number of attempts, skips and timers, with crossfade and without,        *)
(* whatever is shuffled or restored and whether or not that is played.      *)
THEOREM Invariance == Spec => []IInv
BY InitIInv, IInvNext, PTL DEF Spec

(* The members have their types: the count of skips stays below its limit   *)
(* and a URL is never asked for more than MaxAttempts times.                 *)
THEOREM TypeCorrect == Spec => []TypeOK
<1>1. IInv => TypeOK
  BY DEF IInv
<1> QED BY <1>1, Invariance, PTL

(* One request at most, in the debounce timer, at a provider or in a retry. *)
THEOREM SingleRequest == Spec => []OneRequest
<1>1. IInv => OneRequest
  BY DEF IInv
<1> QED BY <1>1, Invariance, PTL

(* What is asked of a provider or streamed is what was last asked for.      *)
THEOREM AskedWanted == Spec => []OnlyAskedIsWanted
<1>1. IInv => OnlyAskedIsWanted
  BY DEF IInv
<1> QED BY <1>1, Invariance, PTL

-----------------------------------------------------------------------------
(* Nothing is heard while something is asked for, but for a track left for  *)
(* a crossfade, so that no other end of a track can be taken for its end.   *)

Armed == nearEnd = "armed" /\ finished = "armed"

\* Nothing new is under way and what is heard goes on.
LEMMA HearingKept ==
  ASSUME QuietInv, IInv', UNCHANGED <<heard, fading, asked>>,
         Waiting' => Waiting, heard # NoTrack \/ UNCHANGED <<nearEnd, finished>>
  PROVE  QuietInv'
BY DEF QuietInv

\* Nothing is heard.
LEMMA Hushed ==
  ASSUME IInv', heard' = NoTrack, ~fading', Armed'
  PROVE  QuietInv'
BY DEF QuietInv, Armed

\* While something was under way nothing was heard, unless left for a crossfade.
LEMMA HushKept ==
  ASSUME QuietInv, Waiting, IInv', UNCHANGED engine
  PROVE  QuietInv'
BY DEF QuietInv, engine

\* The track asked for begins and nothing else is under way.
LEMMA BegunQuiet ==
  ASSUME IInv', NEW t \in Ids, Begin(t), asked' = t, ~Waiting'
  PROVE  QuietInv'
<1>1. heard' = t /\ t # NoTrack
  BY PlaybackAssumption DEF Begin, Load
<1> QED BY <1>1 DEF QuietInv

LEMMA QuietParts ==
  ASSUME QuietInv
  PROVE  /\ ListOK /\ FlagsOK /\ ChainOK /\ Wanted \subseteq {asked}
         /\ heard # NoTrack /\ ~fading => heard = asked /\ ~Waiting
         /\ heard = NoTrack => ~fading /\ Armed
BY Before DEF QuietInv, Armed

LEMMA QuietAttempt ==
  ASSUME QuietInv, NEW t \in Ids, call = t, AttemptPlay(t), IInv'
  PROVE  QuietInv'
<1>1. ListOK /\ FlagsOK /\ ChainOK /\ asked' = t
  BY QuietParts DEF AttemptPlay, PlayLocal, PlayFetchedAhead, PlayFromNetwork, Asked
<1>2. CASE PlayLocal(t)
  <2>1. CancelFetch(current) /\ debounce' = NoTrack
    BY <1>2 DEF PlayLocal
  <2>2. ~Waiting'
    BY <1>1, <2>1, NewChain DEF Waiting
  <2>3. CASE Begin(t)
    BY <1>1, <2>2, <2>3, BegunQuiet
  <2>4. CASE Load(NoTrack)
    BY <2>4, Hushed DEF Load, Armed
  <2> QED BY <1>2, <2>3, <2>4 DEF PlayLocal
<1>3. CASE PlayFetchedAhead(t)
  <2>1. CancelFetch(current) /\ debounce' = NoTrack /\ Begin(t)
    BY <1>3 DEF PlayFetchedAhead
  <2>2. ~Waiting'
    BY <1>1, <2>1, NewChain DEF Waiting
  <2> QED BY <1>1, <2>1, <2>2, BegunQuiet
<1>4. CASE PlayFromNetwork(t)
  <2>1. CASE Load(NoTrack)
    BY <2>1, Hushed DEF Load, Armed
  <2>2. CASE fading' = (heard # NoTrack) /\ UNCHANGED <<heard, playing, nearEnd, finished>>
    <3>1. fading' <=> heard' # NoTrack
      BY <2>2, Zenon
    <3>2. heard' = NoTrack => nearEnd' = "armed" /\ finished' = "armed"
      BY <2>2 DEF QuietInv
    <3> QED BY <3>1, <3>2 DEF QuietInv
  <2> QED BY <1>4, <2>1, <2>2 DEF PlayFromNetwork
<1> QED BY <1>2, <1>3, <1>4 DEF AttemptPlay

LEMMA QuietAnswer ==
  ASSUME QuietInv, NEW provider \in Sources, NEW a \in Answers, Answer(provider, a), IInv'
  PROVE  QuietInv'
<1>1. ListOK /\ FlagsOK /\ ChainOK /\ Wanted \subseteq {asked}
  BY QuietParts
<1>2. PICK r : r = slot[provider]
  OBVIOUS
<1>3. Fetch(provider, Idle) /\ debounce' = debounce /\ asked' = asked
  BY DEF Answer, history
<1>4. Idle \in Requests /\ Idle.fresh = FALSE
  BY PlaybackAssumption DEF Idle, Requests
<1>5. CASE r.for = "play" /\ r.fresh
  <2>1. provider \in Fetching /\ Waiting
    BY <1>2, <1>5 DEF Fetching, Waiting
  <2>2. CASE UNCHANGED engine
    BY <2>1, <2>2, HushKept
  <2>3. CASE StartStream(r.track)
    <3>1. r.track = asked /\ asked \in Ids /\ debounce' = NoTrack
          /\ Fetching \subseteq {provider} /\ Retrying = {}
      BY <1>1, <1>2, <1>3, <2>1 DEF Wanted, ChainOK, OneRequest
    <3>2. Fetching' = Fetching \ {provider} /\ Retrying' = Retrying
      BY <1>1, <1>3, <1>4, <2>3, OtherFetched DEF StartStream
    <3>3. ~Waiting'
      BY <3>1, <3>2 DEF Waiting
    <3>4. PICK t \in Ids : t = asked
      BY <3>1
    <3> QED BY <1>3, <2>3, <3>1, <3>3, <3>4, BegunQuiet DEF StartStream
  <2> QED BY <1>2, <1>5, <2>2, <2>3 DEF Answer, SkipRestricted, RetryLater
<1>6. CASE ~ (r.for = "play" /\ r.fresh)
  <2>1. UNCHANGED <<timers, engine>>
    BY <1>2, <1>6 DEF Answer
  <2>2. Fetching' = Fetching \ {provider} /\ Retrying' = Retrying
    BY <1>1, <1>3, <1>4, <2>1, OtherFetched
  <2>3. Waiting' => Waiting
    BY <1>3, <2>2 DEF Waiting
  <2> QED BY <1>3, <2>1, <2>3, HearingKept DEF engine
<1> QED BY <1>5, <1>6

\* Signals are those of a track that is heard.
LEMMA PollHears == ASSUME QuietInv, PollEvents PROVE heard # NoTrack
BY DEF QuietInv, PollEvents

LEMMA QuietPoll == ASSUME QuietInv, PollEvents, IInv' PROVE QuietInv'
<1>1. /\ ListOK /\ FlagsOK /\ ChainOK /\ heard # NoTrack
      /\ UNCHANGED <<debounce, timers, heard, fading, asked>>
  BY QuietParts, PollHears DEF PollEvents, history
<1>2. UNCHANGED slot \/ HandleTrackNearEnd
  BY DEF PollEvents
<1>3. Fetching' \subseteq Fetching /\ Retrying' = Retrying
  BY <1>1, <1>2, NearEndFetches
<1>4. Waiting' => Waiting
  BY <1>1, <1>3 DEF Waiting
<1> QED BY <1>1, <1>4, HearingKept

\* A handler that leaves the requests and what is heard alone.
LEMMA QuietAsking ==
  ASSUME QuietInv, IInv', UNCHANGED <<requests, heard, fading, asked>>,
         heard # NoTrack \/ UNCHANGED <<nearEnd, finished>>
  PROVE  QuietInv'
<1>1. Waiting' = Waiting
  BY DEF requests, Waiting, Fetching, Retrying
<1> QED BY <1>1, HearingKept

LEMMA QuietCommand == ASSUME QuietInv, Command, IInv' PROVE QuietInv'
<1>1. ChainOK
  BY QuietParts
<1>2. ASSUME Commanded PROVE QuietInv'
  BY <1>2, QuietAsking DEF Commanded, engine
<1>3. ASSUME NEW enabled \in CrossfadeModes, SetCrossfadeEnabled(enabled) PROVE QuietInv'
  BY <1>3, QuietAsking DEF SetCrossfadeEnabled, engine, history
<1>4. ASSUME NEW t \in Saves, DownloadTrack(t) PROVE QuietInv'
  <2>1. UNCHANGED <<debounce, heard, fading, asked, nearEnd, finished>>
    BY <1>4 DEF DownloadTrack, engine, history
  <2>2. Waiting' => Waiting
    BY <1>1, <1>4, <2>1, Downloading DEF Waiting
  <2> QED BY <2>1, <2>2, HearingKept
<1>5. ASSUME SetPositionSeconds PROVE QuietInv'
  BY <1>5, QuietAsking DEF SetPositionSeconds, Silent, history
<1>6. ASSUME TogglePause PROVE QuietInv'
  BY <1>6, QuietAsking DEF TogglePause, Silent, history
<1> QED BY <1>2, <1>3, <1>4, <1>5, <1>6
  DEF Command, AskForNext, AskForPrevious, AskFor, AskForFound, SetShuffle, ToggleRepeat

LEMMA QuietAccount == ASSUME QuietInv, Account, IInv' PROVE QuietInv'
<1>1. ASSUME CancelPlaybackAndRetries PROVE QuietInv'
  BY <1>1, Hushed DEF CancelPlaybackAndRetries, Cancel, Load, Armed
<1>2. ASSUME HandleLogout PROVE QuietInv'
  BY <1>2, Hushed DEF HandleLogout, ClearState, Cancel, Load, Armed
<1>3. ASSUME NEW s \in Sources \cup {NoSource}, SourceChanged(s) PROVE QuietInv'
  <2>1. CASE playing \/ started
    BY <1>3, <2>1, QuietAsking DEF SourceChanged, engine, history
  <2>2. CASE ~ (playing \/ started)
    BY <1>3, <2>2, Hushed DEF SourceChanged, ClearState, Cancel, Load, Armed
  <2> QED BY <2>1, <2>2
<1>4. ASSUME NEW online \in BOOLEAN, ProviderReady(online) PROVE QuietInv'
  BY <1>4, QuietAsking DEF ProviderReady, Strays, engine
<1> QED BY <1>1, <1>2, <1>3, <1>4 DEF Account

LEMMA QuietNext == ASSUME QuietInv, [Next]_vars PROVE QuietInv'
<1>1. IInv'
  BY IInvNext DEF QuietInv
<1>2. CASE UNCHANGED vars
  BY <1>1, <1>2, QuietAsking DEF vars, engine, history
<1>3. CASE Audio
  BY <1>1, <1>3, QuietAsking DEF Audio, RaiseNearEnd, RaiseFinished, Silent, history
<1>4. ASSUME DebounceTimeout PROVE QuietInv'
  BY <1>1, <1>4, HushKept DEF DebounceTimeout, Waiting
<1>5. ASSUME NEW r \in timers, RetryTimeout(r) PROVE QuietInv'
  <2>1. timers' = timers \ {r} /\ UNCHANGED <<debounce, engine, asked>>
    BY <1>5 DEF RetryTimeout, history
  <2>2. CASE r.fresh
    <3>1. Waiting
      BY <2>2 DEF Waiting, Retrying
    <3> QED BY <1>1, <2>1, <3>1, HushKept
  <2>3. CASE ~r.fresh
    <3>1. UNCHANGED slot
      BY <1>5, <2>3 DEF RetryTimeout
    <3>2. Waiting' => Waiting
      BY <2>1, <3>1 DEF Waiting, Fetching, Retrying
    <3> QED BY <1>1, <2>1, <3>2, HearingKept DEF engine
  <2> QED BY <2>2, <2>3
<1>6. CASE Handler
  BY <1>1, <1>4, <1>5, <1>6, QuietAttempt, QuietAnswer, QuietPoll DEF Handler
<1> QED BY <1>1, <1>2, <1>3, <1>6, QuietCommand, QuietAccount DEF Next

LEMMA QuietInit == Init => QuietInv
BY InitIInv DEF Init, QuietInv

(* A track is heard only while nothing is asked for, and it is the one      *)
(* asked for last, unless it was left playing for a crossfade.              *)
THEOREM Quiet == Spec => []QuietInv
BY QuietInit, QuietNext, PTL DEF Spec

(* A like or a saved position is of the track that plays, but for a shuffle *)
(* that is not played and for a crossfade that has yet to come.             *)
THEOREM CurrentHeard == Spec => []CurrentIsHeard
<1>1. QuietInv => CurrentIsHeard
  BY DEF QuietInv, IInv, CurrentIsHeard
<1> QED BY <1>1, Quiet, PTL

(* The end of a track that was not left for a crossfade never skips one     *)
(* that was asked for.                                                      *)
THEOREM FinishOfCurrent == Spec => FinishIsOfCurrent
<1>1. QuietInv /\ [Next]_vars
        => [PollEvents /\ call' # NoTrack => fading \/ (heard = asked /\ ~Waiting)]_vars
  BY PollHears DEF QuietInv
<1> QED BY <1>1, Quiet, PTL DEF Spec, FinishIsOfCurrent

(* Nor does fetching ahead near its end take the place of such a request.   *)
THEOREM FetchAheadSpares == Spec => FetchAheadSparesRequest
<1>1. QuietInv /\ [Next]_vars
        => [Waiting /\ ~fading /\ PollEvents => Waiting' \/ call' # NoTrack]_vars
  BY PollHears DEF QuietInv
<1> QED BY <1>1, Quiet, PTL DEF Spec, FetchAheadSparesRequest
===============================================================================
