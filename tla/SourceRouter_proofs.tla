------------------------- MODULE SourceRouter_proofs -------------------------
(***************************************************************************)
(* Proofs about SourceRouter, for any of the services, any number of         *)
(* commands and of looks for cookies: the interface never waits for a window *)
(* that is not there, what a window yields is kept for the service whose     *)
(* page it shows, and a silent window always has its timer.                  *)
(***************************************************************************)
EXTENDS SourceRouter, TLAPS

-----------------------------------------------------------------------------
(* The state has its types.                                                 *)

CallType == [op : Ops, of : Services, found : BOOLEAN, try : 0 .. MaxRetries, turn : 0 .. MaxTurns]

LEMMA CallOfType ==
  ASSUME TypeOK, NEW op \in Ops, NEW s \in Services, NEW found \in BOOLEAN
  PROVE  Call(op, s, found) \in CallType
BY ServicesAssumption DEF Call, CallType, TypeOK

LEMMA ReadOfType ==
  ASSUME TypeOK, NEW op \in Ops, NEW s \in Services
  PROVE  Call(op, s, s \in saved) \in CallType
<1>1. (s \in saved) \in BOOLEAN
  OBVIOUS
<1> QED BY <1>1, CallOfType

LEMMA CallChanged ==
  ASSUME NEW c \in CallType, NEW op \in Ops, NEW found \in BOOLEAN
  PROVE  /\ [c EXCEPT !.op = op] \in CallType
         /\ [c EXCEPT !.op = op, !.found = found] \in CallType
BY DEF CallType

LEMMA CallRetried ==
  ASSUME NEW c \in CallType, c.try < MaxRetries
  PROVE  [c EXCEPT !.try = @ + 1] \in CallType
BY ServicesAssumption DEF CallType

\* The types of the groups of variables, one by one.
TypeSession ==
  source \in Services \cup {Offline, All} /\ answered \in BOOLEAN /\ dropped \in BOOLEAN
TypeTokens == saved \subseteq Services /\ secret \in BOOLEAN /\ clients \subseteq Services
TypeFlow ==
  /\ flowActive \in BOOLEAN /\ authService \in Services \cup {NoService}
  /\ window \in {"closed", "silent", "visible"} /\ page \in Services \cup {NoService}
  /\ silentTimer \in Services \cup {NoService} /\ waiting \in BOOLEAN
TypeVk == cooling \in BOOLEAN /\ validating \in BOOLEAN
TypeCalls == calls \subseteq CallType
TypeTurns == turns \in 0 .. MaxTurns

LEMMA TypeParts ==
  /\ TypeOK <=> TypeSession /\ TypeTokens /\ TypeFlow /\ TypeVk /\ TypeCalls /\ TypeTurns
  /\ TypeOK' <=> TypeSession' /\ TypeTokens' /\ TypeFlow' /\ TypeVk' /\ TypeCalls' /\ TypeTurns'
BY DEF TypeOK, TypeSession, TypeTokens, TypeFlow, TypeVk, TypeCalls, TypeTurns, CallType

LEMMA SessionKept ==
  /\ TypeSession /\ UNCHANGED session => TypeSession'
  /\ \A s : TypeSession /\ ProviderReady(s) => TypeSession'
BY DEF TypeSession, session, ProviderReady

LEMMA TokensKept ==
  /\ TypeTokens /\ UNCHANGED tokens => TypeTokens'
  /\ \A s \in Services : TypeTokens /\ (Keep(s) \/ Forget(s) \/ Use(s)) => TypeTokens'
BY DEF TypeTokens, tokens, Keep, Forget, Use

LEMMA FlowKept ==
  /\ TypeFlow /\ UNCHANGED flow => TypeFlow'
  /\ TypeFlow /\ (StopWaiting \/ CloseSignedIn \/ OnSpotifyAuthError) => TypeFlow'
  /\ \A s \in Services, visible \in BOOLEAN :
       TypeFlow /\ (OpenWindow(s, visible) \/ StartAuthFlow(s, visible)) => TypeFlow'
BY DEF TypeFlow, flow, StopWaiting, CloseSignedIn, OnSpotifyAuthError, OpenWindow, StartAuthFlow

LEMMA VkKept == TypeVk /\ UNCHANGED vk => TypeVk'
BY DEF TypeVk, vk

LEMMA CallsKept ==
  /\ TypeCalls /\ UNCHANGED calls => TypeCalls'
  /\ \A c : TypeCalls /\ calls' = Rest(c) => TypeCalls'
  /\ \A c : \A d \in CallType :
       TypeCalls /\ (calls' = Rest(c) \cup {d} \/ calls' = calls \cup {d}) => TypeCalls'
BY DEF TypeCalls, Rest

LEMMA TurnsKept == TypeTurns /\ (UNCHANGED turns \/ Turn) => TypeTurns'
BY ServicesAssumption DEF TypeTurns, Turn

LEMMA CookiesType ==
  ASSUME TypeOK, NEW c \in CallType, NEW rest \in SUBSET CallType,
         TryFinalizeYouTubeAuth(c, rest)
  PROVE  TypeSession' /\ TypeTokens' /\ TypeCalls'
<1>1. CASE Keep(c.of) /\ ProviderReady(c.of) /\ calls' = rest
  <2>1. c.of \in Services
    BY DEF CallType
  <2> QED BY <1>1, <2>1, TypeParts, SessionKept, TokensKept DEF TypeCalls
<1>2. CASE /\ c.try < MaxRetries
           /\ calls' = rest \cup {[c EXCEPT !.try = @ + 1]}
           /\ UNCHANGED <<session, tokens>>
  <2>1. calls' \subseteq CallType
    BY <1>2, CallRetried
  <2> QED BY <1>2, <2>1, TypeParts, SessionKept, TokensKept DEF TypeCalls
<1> QED BY <1>1, <1>2 DEF TryFinalizeYouTubeAuth

LEMMA VkExpiredType ==
  ASSUME TypeOK, NEW c \in CallType, NEW rest \in SUBSET CallType, OnVkTokenExpired(c, rest)
  PROVE  cooling' \in BOOLEAN /\ TypeCalls'
<1>1. [c EXCEPT !.op = "secret", !.found = secret] \in CallType
  BY CallChanged DEF TypeOK, Ops
<1> QED BY <1>1 DEF OnVkTokenExpired, TypeCalls, TypeOK

LEMMA CommandType ==
  ASSUME TypeOK,
         \/ \E s \in Services \cup {Offline, All} : SwitchSource(s)
         \/ \E s \in Services : GetProvider(s) \/ AuthenticateSource(s)
         \/ \E gone \in {{s} : s \in Services} \cup {Services} : Logout(gone)
         \/ RevalidateCurrentSource
  PROVE  TypeOK'
<1>1. ASSUME NEW s \in Services \cup {Offline, All}, SwitchSource(s) PROVE TypeOK'
  <2>1. Turn /\ UNCHANGED <<tokens, vk>>
    BY <1>1 DEF SwitchSource
  <2>2. TypeSession'
    BY <1>1 DEF SwitchSource, TypeSession, TypeOK
  <2>3. CASE s \in Services
    <3>2. Call("start", s, s \in saved) \in CallType
      BY <2>3, ReadOfType DEF Ops
    <3>3. UNCHANGED flow /\ calls' = calls \cup {Call("start", s, s \in saved)}
      BY <1>1, <2>3 DEF SwitchSource
    <3> QED BY <2>1, <2>2, <3>2, <3>3, TypeParts, TokensKept, FlowKept, VkKept, CallsKept, TurnsKept
  <2>4. CASE s \notin Services
    <3> DEFINE asked == IF s = All THEN Services \ clients ELSE {}
    <3>1. StopWaiting /\ calls' = calls \cup {Call("preinit", t, t \in saved) : t \in asked}
      BY <1>1, <2>4 DEF SwitchSource
    <3>2. \A t \in asked : Call("preinit", t, t \in saved) \in CallType
      BY ReadOfType DEF Ops
    <3>3. calls' \subseteq CallType
      BY <3>1, <3>2, TypeParts DEF TypeCalls
    <3> QED BY <2>1, <2>2, <3>1, <3>3, TypeParts, TokensKept, FlowKept, VkKept, TurnsKept
               DEF TypeCalls
  <2> QED BY <2>3, <2>4
<1>2. ASSUME NEW s \in Services, GetProvider(s) PROVE TypeOK'
  <2>1. Call("preinit", s, s \in saved) \in CallType
    BY ReadOfType DEF Ops
  <2> QED BY <1>2, <2>1, TypeParts, SessionKept, TokensKept, FlowKept, VkKept, CallsKept, TurnsKept
             DEF GetProvider
<1>3. ASSUME NEW s \in Services, AuthenticateSource(s) PROVE TypeOK'
  BY <1>3, TypeParts, SessionKept, TokensKept, FlowKept, VkKept, CallsKept, TurnsKept
     DEF AuthenticateSource
<1>4. ASSUME NEW gone, Logout(gone) PROVE TypeOK'
  <2>1. TypeTokens' /\ TypeFlow'
    BY <1>4, TypeParts DEF Logout, TypeTokens, TypeFlow
  <2> QED BY <1>4, <2>1, TypeParts, SessionKept, VkKept, CallsKept, TurnsKept DEF Logout
<1>5. CASE RevalidateCurrentSource
  <2>1. Turn /\ source \in Services /\ UNCHANGED <<tokens, flow, cooling>>
    BY <1>5 DEF RevalidateCurrentSource
  <2>2. Call("recheck", source, TRUE) \in CallType
    BY <2>1, CallOfType DEF Ops
  <2>3. CASE source \in clients /\ source \in {"VK", "Spotify"}
    <3>1. UNCHANGED session /\ calls' = calls \cup {Call("recheck", source, TRUE)} /\ validating' \in BOOLEAN
      BY <1>5, <2>3, TypeParts DEF RevalidateCurrentSource, TypeVk
    <3>2. TypeVk'
      BY <2>1, <3>1, TypeParts DEF TypeVk
    <3> QED BY <2>1, <2>2, <3>1, <3>2, TypeParts, SessionKept, TokensKept, FlowKept, CallsKept, TurnsKept
  <2>4. CASE ~(source \in clients /\ source \in {"VK", "Spotify"})
    <3>1. ProviderReady(source) /\ UNCHANGED <<calls, validating>>
      BY <1>5, <2>4 DEF RevalidateCurrentSource
    <3>2. UNCHANGED vk
      BY <2>1, <3>1 DEF vk
    <3> QED BY <2>1, <3>1, <3>2, TypeParts, SessionKept, TokensKept, FlowKept, VkKept, CallsKept, TurnsKept
  <2> QED BY <2>3, <2>4
<1> QED BY <1>1, <1>2, <1>3, <1>4, <1>5

LEMMA WindowType ==
  ASSUME TypeOK,
         TokenReceived \/ AuthCodeReceived \/ YtAuthSucceeded \/ WindowClosed \/ SilentAuthTimeout
  PROVE  TypeOK'
<1>1. CASE TokenReceived
  <2>1. authService \in Services
    BY <1>1 DEF TokenReceived, TypeOK, NoService
  <2> QED BY <1>1, <2>1, TypeParts, SessionKept, TokensKept, FlowKept, VkKept, CallsKept, TurnsKept
             DEF TokenReceived
<1>2. CASE AuthCodeReceived
  <2>1. "Spotify" \in Services
    BY <1>2 DEF AuthCodeReceived, TypeOK, NoService
  <2>2. Call("exchange", "Spotify", TRUE) \in CallType
    BY <2>1, CallOfType DEF Ops
  <2> QED BY <1>2, <2>2, TypeParts, SessionKept, TokensKept, FlowKept, VkKept, CallsKept, TurnsKept
             DEF AuthCodeReceived
<1>3. CASE YtAuthSucceeded
  <2>1. "YouTube" \in Services
    BY <1>3 DEF YtAuthSucceeded, TypeOK, NoService
  <2>2. Call("cookies", "YouTube", TRUE) \in CallType /\ calls \subseteq CallType
    BY <2>1, CallOfType, TypeParts DEF Ops, TypeCalls
  <2>3. TypeSession' /\ TypeTokens' /\ TypeCalls'
    BY <1>3, <2>1, <2>2, CookiesType DEF YtAuthSucceeded
  <2> QED BY <1>3, <2>3, TypeParts, FlowKept, VkKept, TurnsKept DEF YtAuthSucceeded
<1>4. CASE WindowClosed
  <2>1. TypeFlow'
    BY <1>4, TypeParts DEF WindowClosed, TypeFlow
  <2> QED BY <1>4, <2>1, TypeParts, SessionKept, TokensKept, VkKept, CallsKept, TurnsKept
             DEF WindowClosed
<1>5. CASE SilentAuthTimeout
  <2>1. silentTimer \in Services
    BY <1>5 DEF SilentAuthTimeout, TypeOK
  <2> QED BY <1>5, <2>1, TypeParts, SessionKept, TokensKept, FlowKept, VkKept, CallsKept, TurnsKept
             DEF SilentAuthTimeout
<1> QED BY <1>1, <1>2, <1>3, <1>4, <1>5

LEMMA ExpiryType ==
  ASSUME TypeOK,
         VkTokenExpired \/ CooldownEnds \/ YouTubeTokenExpired \/ SpotifyRefused \/ VkSignedIn
  PROVE  TypeOK'
<1>1. CASE VkTokenExpired
  <2>1. Call("secret", "VK", secret) \in CallType /\ calls \subseteq CallType
    BY <1>1, CallOfType, TypeParts DEF VkTokenExpired, Ops, TypeTokens, TypeCalls
  <2>2. cooling' \in BOOLEAN /\ TypeCalls'
    BY <1>1, <2>1, VkExpiredType DEF VkTokenExpired
  <2>3. TypeVk'
    BY <1>1, <2>2, TypeParts DEF VkTokenExpired, TypeVk
  <2> QED BY <1>1, <2>2, <2>3, TypeParts, SessionKept, TokensKept, FlowKept, TurnsKept
             DEF VkTokenExpired
<1>2. CASE CooldownEnds
  <2>1. TypeVk'
    BY <1>2, TypeParts DEF CooldownEnds, TypeVk
  <2> QED BY <1>2, <2>1, TypeParts, SessionKept, TokensKept, FlowKept, CallsKept, TurnsKept
             DEF CooldownEnds
<1>3. CASE YouTubeTokenExpired
  BY <1>3, TypeParts, SessionKept, TokensKept, FlowKept, VkKept, CallsKept, TurnsKept
     DEF YouTubeTokenExpired
<1>4. CASE SpotifyRefused
  BY <1>4, TypeParts, SessionKept, TokensKept, FlowKept, VkKept, CallsKept, TurnsKept
     DEF SpotifyRefused
<1>5. CASE VkSignedIn
  <2>1. TypeTokens'
    BY <1>5, TypeParts DEF VkSignedIn, TypeTokens
  <2> QED BY <1>5, <2>1, TypeParts, SessionKept, FlowKept, VkKept, CallsKept, TurnsKept
             DEF VkSignedIn
<1> QED BY <1>1, <1>2, <1>3, <1>4, <1>5

\* Answers that start no other call, and those that do.
LEMMA LastAnswerType ==
  ASSUME TypeOK, NEW c \in calls, UNCHANGED turns,
         \/ StartNotFound(c) \/ StartYouTube(c) \/ UidRead(c) \/ Valid(c) \/ SpotifyInvalid(c)
         \/ Refreshed(c) \/ Exchanged(c) \/ NotExchanged(c) \/ Preinitialized(c)
  PROVE  TypeOK'
<1>0. c \in CallType /\ c.of \in Services
  BY TypeParts DEF TypeCalls, CallType
<1>1. CASE StartNotFound(c)
  BY <1>0, <1>1, TypeParts, SessionKept, TokensKept, FlowKept, VkKept, CallsKept, TurnsKept
     DEF StartNotFound
<1>2. CASE StartYouTube(c)
  <2>1. TypeTokens' /\ TypeFlow'
    <3>1. CASE (Use("YouTube") \/ Keep("YouTube")) /\ StopWaiting
      BY <1>0, <1>2, <3>1, TypeParts, TokensKept, FlowKept DEF StartYouTube
    <3>2. CASE saved' = saved \ {"YouTube"} /\ UNCHANGED <<secret, clients, flow>>
      BY <3>2, TypeParts, FlowKept DEF TypeTokens
    <3> QED BY <1>2, <3>1, <3>2 DEF StartYouTube
  <2> QED BY <1>2, <2>1, TypeParts, SessionKept, VkKept, CallsKept, TurnsKept DEF StartYouTube
<1>3. CASE UidRead(c)
  BY <1>3, TypeParts, SessionKept, TokensKept, FlowKept, VkKept, CallsKept, TurnsKept DEF UidRead
<1>4. CASE Valid(c)
  <2>1. TypeVk' /\ TypeFlow'
    BY <1>4, TypeParts, FlowKept DEF Valid, TypeVk
  <2> QED BY <1>4, <2>1, TypeParts, SessionKept, TokensKept, CallsKept, TurnsKept DEF Valid
<1>5. CASE SpotifyInvalid(c)
  <2>1. TypeTokens' /\ TypeFlow'
    BY <1>5, TypeParts, FlowKept DEF SpotifyInvalid, TypeTokens
  <2> QED BY <1>5, <2>1, TypeParts, SessionKept, VkKept, CallsKept, TurnsKept DEF SpotifyInvalid
<1>6. CASE Refreshed(c)
  <2>1. TypeTokens'
    BY <1>0, <1>6, TypeParts, TokensKept DEF Refreshed
  <2> QED BY <1>6, <2>1, TypeParts, SessionKept, FlowKept, VkKept, CallsKept, TurnsKept DEF Refreshed
<1>7. CASE Exchanged(c)
  <2>1. TypeTokens'
    BY <1>0, <1>7, TypeParts, TokensKept DEF Exchanged
  <2> QED BY <1>7, <2>1, TypeParts, SessionKept, FlowKept, VkKept, CallsKept, TurnsKept DEF Exchanged
<1>8. CASE NotExchanged(c)
  BY <1>8, TypeParts, SessionKept, TokensKept, FlowKept, VkKept, CallsKept, TurnsKept
     DEF NotExchanged
<1>9. CASE Preinitialized(c)
  <2>1. TypeTokens'
    BY <1>0, <1>9, TypeParts, TokensKept DEF Preinitialized
  <2> QED BY <1>9, <2>1, TypeParts, SessionKept, FlowKept, VkKept, CallsKept, TurnsKept
             DEF Preinitialized
<1> QED BY <1>1, <1>2, <1>3, <1>4, <1>5, <1>6, <1>7, <1>8, <1>9

LEMMA NextCallType ==
  ASSUME TypeOK, NEW c \in calls, UNCHANGED turns,
         StartChecks(c) \/ StartUses(c) \/ VkInvalid(c) \/ SecretRead(c) \/ CookiesRead(c)
  PROVE  TypeOK'
<1>0. c \in CallType /\ c.of \in Services /\ Rest(c) \in SUBSET CallType
  BY TypeParts DEF TypeCalls, CallType, Rest
<1>1. CASE StartChecks(c)
  <2>1. [c EXCEPT !.op = "check"] \in CallType
    BY <1>0, CallChanged DEF Ops
  <2>2. TypeVk'
    BY <1>1, TypeParts DEF StartChecks, TypeVk
  <2> QED BY <1>0, <1>1, <2>1, <2>2, TypeParts, SessionKept, TokensKept, FlowKept, CallsKept, TurnsKept
             DEF StartChecks
<1>2. CASE StartUses(c)
  <2>1. [c EXCEPT !.op = "uid"] \in CallType
    BY <1>0, CallChanged DEF Ops
  <2>2. TypeSession' /\ TypeCalls'
    <3>1. CASE c.of = "Yandex"
      BY <1>2, <2>1, <3>1, TypeParts, SessionKept, CallsKept DEF StartUses
    <3>2. CASE c.of # "Yandex"
      BY <1>2, <3>2, TypeParts, SessionKept, CallsKept DEF StartUses
    <3> QED BY <3>1, <3>2
  <2> QED BY <1>0, <1>2, <2>2, TypeParts, TokensKept, FlowKept, VkKept, TurnsKept DEF StartUses
<1>3. CASE VkInvalid(c)
  <2>1. cooling' \in BOOLEAN /\ TypeCalls'
    BY <1>0, <1>3, VkExpiredType DEF VkInvalid
  <2>2. TypeVk' /\ TypeSession'
    BY <1>3, <2>1, TypeParts DEF VkInvalid, TypeVk, TypeSession
  <2> QED BY <1>3, <2>1, <2>2, TypeParts, TokensKept, FlowKept, TurnsKept DEF VkInvalid
<1>4. CASE SecretRead(c)
  <2>1. [c EXCEPT !.op = "refresh"] \in CallType
    BY <1>0, CallChanged DEF Ops
  <2>2. TypeSession' /\ TypeTokens' /\ TypeCalls'
    <3>1. CASE c.found
      BY <1>4, <2>1, <3>1, TypeParts, SessionKept, TokensKept, CallsKept DEF SecretRead
    <3>2. CASE ~c.found
      <4>1. TypeTokens'
        BY <1>0, <1>4, <3>2, TypeParts, TokensKept DEF SecretRead
      <4> QED BY <1>4, <3>2, <4>1, TypeParts, SessionKept, CallsKept DEF SecretRead
    <3> QED BY <3>1, <3>2
  <2> QED BY <1>4, <2>2, TypeParts, FlowKept, VkKept, TurnsKept DEF SecretRead
<1>5. CASE CookiesRead(c)
  <2>1. TypeSession' /\ TypeTokens' /\ TypeCalls'
    BY <1>0, <1>5, TypeParts, CookiesType DEF CookiesRead
  <2> QED BY <1>5, <2>1, TypeParts, FlowKept, VkKept, TurnsKept DEF CookiesRead
<1> QED BY <1>1, <1>2, <1>3, <1>4, <1>5

LEMMA InitType == Init => TypeOK
<1> SUFFICES ASSUME Init PROVE TypeOK
  OBVIOUS
<1>1. saved \subseteq Services /\ turns \in 0 .. MaxTurns
  BY ServicesAssumption DEF Init
<1> QED BY <1>1 DEF Init, TypeOK

LEMMA StepType == TypeOK /\ [Next]_vars => TypeOK'
<1> SUFFICES ASSUME TypeOK, [Next]_vars PROVE TypeOK'
  OBVIOUS
<1>1. CASE Answered
  <2>1. PICK c \in calls : Answer(c) /\ UNCHANGED turns
    BY <1>1 DEF Answered
  <2> QED BY <2>1, LastAnswerType, NextCallType DEF Answer
<1>2. CASE UNCHANGED vars
  <2>1. UNCHANGED <<session, tokens, flow, vk, calls, turns>>
    BY <1>2 DEF vars
  <2> QED BY <2>1, TypeParts, SessionKept, TokensKept, FlowKept, VkKept, CallsKept, TurnsKept
<1> QED BY <1>1, <1>2, CommandType, WindowType, ExpiryType DEF Next

\* Whatever is started, answered, refused or too late, the state has its types.
THEOREM TypeCorrect == Spec => []TypeOK
<1>1. Init => TypeOK
  BY InitType
<1>2. TypeOK /\ [Next]_vars => TypeOK'
  BY StepType
<1> QED BY <1>1, <1>2, PTL DEF Spec

-----------------------------------------------------------------------------
(* The window.  Every handler changes the variables of flow in one of a few  *)
(* ways; FlowGood says that the invariant holds after the step and that the   *)
(* step took no window away from a user.                                    *)

FlowGood == FlowInv' /\ (waiting => window' # "silent")

LEMMA Untouched ==
  ASSUME FlowInv, UNCHANGED flow
  PROVE  FlowGood
BY DEF FlowGood, FlowInv, PageIsOfService, flow

LEMMA Ended ==
  ASSUME FlowInv, StopWaiting \/ CloseSignedIn \/ OnSpotifyAuthError
  PROVE  FlowGood
BY DEF FlowGood, FlowInv, PageIsOfService, StopWaiting, CloseSignedIn, OnSpotifyAuthError

\* Only YouTube's is ever silent, and only while the interface does not wait.
LEMMA Opened ==
  ASSUME FlowInv, NEW s, NEW visible \in BOOLEAN, visible \/ (s = "YouTube" /\ ~waiting),
         OpenWindow(s, visible)
  PROVE  FlowGood
<1>1. CASE visible
  BY <1>1 DEF FlowGood, FlowInv, PageIsOfService, OpenWindow
<1>2. CASE ~visible
  BY <1>2 DEF FlowGood, FlowInv, PageIsOfService, OpenWindow
<1> QED BY <1>1, <1>2

LEMMA Started ==
  ASSUME FlowInv, NEW s, NEW visible \in BOOLEAN, visible \/ (s = "YouTube" /\ ~waiting),
         StartAuthFlow(s, visible)
  PROVE  FlowGood
BY Untouched, Opened DEF StartAuthFlow

LEMMA CommandFlow ==
  ASSUME FlowInv,
         \/ \E s \in Services \cup {Offline, All} : SwitchSource(s)
         \/ \E s \in Services : GetProvider(s) \/ AuthenticateSource(s)
         \/ \E gone \in {{s} : s \in Services} \cup {Services} : Logout(gone)
         \/ RevalidateCurrentSource
  PROVE  FlowGood
<1>1. ASSUME NEW s, SwitchSource(s) PROVE FlowGood
  BY <1>1, Untouched, Ended DEF SwitchSource
<1>2. ASSUME NEW s, GetProvider(s) PROVE FlowGood
  BY <1>2, Untouched DEF GetProvider
<1>3. ASSUME NEW s, AuthenticateSource(s) PROVE FlowGood
  BY <1>3, Started DEF AuthenticateSource
<1>4. ASSUME NEW gone, Logout(gone) PROVE FlowGood
  BY <1>4 DEF FlowGood, FlowInv, PageIsOfService, Logout
<1>5. CASE RevalidateCurrentSource
  BY <1>5, Untouched DEF RevalidateCurrentSource
<1> QED BY <1>1, <1>2, <1>3, <1>4, <1>5

LEMMA WindowFlow ==
  ASSUME FlowInv,
         TokenReceived \/ AuthCodeReceived \/ YtAuthSucceeded \/ WindowClosed \/ SilentAuthTimeout
  PROVE  FlowGood
<1>1. CASE TokenReceived \/ AuthCodeReceived \/ YtAuthSucceeded
  BY <1>1, Ended DEF TokenReceived, AuthCodeReceived, YtAuthSucceeded
<1>2. CASE WindowClosed
  BY <1>2 DEF FlowGood, FlowInv, PageIsOfService, WindowClosed
<1>3. CASE SilentAuthTimeout
  BY <1>3, Opened DEF SilentAuthTimeout
<1> QED BY <1>1, <1>2, <1>3

LEMMA ExpiryFlow ==
  ASSUME TypeOK, FlowInv,
         VkTokenExpired \/ CooldownEnds \/ YouTubeTokenExpired \/ SpotifyRefused \/ VkSignedIn
  PROVE  FlowGood
<1>1. CASE VkTokenExpired \/ CooldownEnds
  BY <1>1, Untouched DEF VkTokenExpired, CooldownEnds
<1>2. CASE YouTubeTokenExpired
  <2>1. ~waiting
    BY <1>2 DEF YouTubeTokenExpired, FlowInv
  <2> QED BY <1>2, <2>1, Started DEF YouTubeTokenExpired
<1>3. CASE SpotifyRefused \/ VkSignedIn
  BY <1>3, Ended DEF SpotifyRefused, VkSignedIn
<1> QED BY <1>1, <1>2, <1>3

LEMMA AnswerFlow ==
  ASSUME FlowInv, NEW c, Answer(c)
  PROVE  FlowGood
<1>1. CASE StartNotFound(c) \/ StartChecks(c) \/ StartUses(c) \/ StartYouTube(c) \/ UidRead(c)
  BY <1>1, Untouched, Ended
     DEF StartNotFound, StartChecks, StartUses, StartYouTube, UidRead, flow
<1>2. CASE Valid(c) \/ VkInvalid(c) \/ SpotifyInvalid(c) \/ SecretRead(c) \/ Refreshed(c)
  BY <1>2, Untouched, Ended DEF Valid, VkInvalid, SpotifyInvalid, SecretRead, Refreshed
<1>3. CASE Exchanged(c) \/ NotExchanged(c) \/ CookiesRead(c) \/ Preinitialized(c)
  BY <1>3, Untouched, Ended DEF Exchanged, NotExchanged, CookiesRead, Preinitialized
<1> QED BY <1>1, <1>2, <1>3 DEF Answer

LEMMA StepFlow == TypeOK /\ FlowInv /\ [Next]_vars => FlowGood
<1> SUFFICES ASSUME TypeOK, FlowInv, [Next]_vars PROVE FlowGood
  OBVIOUS
<1>1. CASE Answered
  BY <1>1, AnswerFlow DEF Answered
<1>2. CASE UNCHANGED vars
  BY <1>2, Untouched DEF vars, flow
<1> QED BY <1>1, <1>2, CommandFlow, WindowFlow, ExpiryFlow DEF Next

\* While the interface waits, the window it waits for is open and no other sign-in
\* starts; a window yields tokens of the service whose page it shows; a silent one has
\* its timer.
THEOREM FlowInvariant == Spec => []FlowInv
<1>1. Init => FlowInv
  BY DEF Init, FlowInv, PageIsOfService
<1>2. TypeOK /\ FlowInv /\ [Next]_vars => FlowInv'
  BY StepFlow DEF FlowGood
<1> QED BY <1>1, <1>2, TypeCorrect, PTL DEF Spec

\* The interface waits for a sign-in only while its window is open to the user.
THEOREM WaitingSafe == Spec => []WaitingMeansWindow
<1>1. FlowInv => WaitingMeansWindow
  BY DEF FlowInv, WaitingMeansWindow
<1> QED BY <1>1, FlowInvariant, PTL

\* What a window yields is saved for the service whose page it shows.
THEOREM PageSafe == Spec => []PageIsOfService
<1>1. FlowInv => PageIsOfService
  BY DEF FlowInv
<1> QED BY <1>1, FlowInvariant, PTL

\* A renewal in the background takes no window away from the user who signs in.
THEOREM SilentSpares == Spec => SilentSparesWaiting
<1>1. TypeOK /\ FlowInv /\ [Next]_vars => [waiting => window' # "silent"]_vars
  BY StepFlow DEF FlowGood
<1> QED BY <1>1, TypeCorrect, FlowInvariant, PTL DEF Spec, SilentSparesWaiting
===============================================================================
