----------------------------- MODULE SourceRouter -----------------------------
(***************************************************************************)
(* Signing in: which service is active, the tokens in the system's keychain  *)
(* and those the clients use, the browser window in which the user signs in, *)
(* the silent one that renews a session of YouTube Music, and the checks and  *)
(* renewals of a token that is no longer valid.                             *)
(*                                                                         *)
(* Everything happens in the main thread.  What is waited for (a keychain    *)
(* job, the answer to a request, a timer of the cookie reader) is a call      *)
(* under way; it is answered at any later moment, and nothing tells its      *)
(* handler what has happened meanwhile.  Keychain jobs run one at a time in   *)
(* the order they were started in, so a read yields what the keychain will   *)
(* hold after the jobs before it, which is known when it is started.          *)
(*                                                                         *)
(* External: the pages of the services, their servers, VkAuthService's        *)
(* dialogue (its success is VkSignedIn) and the browser's cookie store, which *)
(* holds a session or not whenever it is asked.  SPOTIFY_CLIENT_ID is set,    *)
(* SPOTIFY_SP_DC and YOUTUBE_COOKIE are not.                                 *)
(***************************************************************************)
EXTENDS Naturals, FiniteSets

CONSTANTS
  Services,      \* the services there are
  SavedAtStart,  \* the tokens the keychain may hold when the program starts
  MaxRetries,    \* 8 in the code: looks for the cookies of a sign-in
  MaxTurns       \* bound: commands, and replies that say a token has expired

AllServices == {"VK", "Yandex", "SoundCloud", "Spotify", "YouTube"}
Offline == "Offline"
All == "All"       \* and the playlists of the user, "Custom:..."
NoService == "none"

ASSUME ServicesAssumption ==
  /\ Services \subseteq AllServices
  /\ SavedAtStart \subseteq SUBSET Services
  /\ MaxRetries \in Nat /\ MaxTurns \in Nat

VARIABLES
  source,       \* the source switched to last
  answered,     \* history: ProviderReady was emitted for it since
  dropped,      \* history: OnVkTokenExpired has ignored what would have led to it
  saved,        \* services whose token is in the keychain
  secret,       \* VK's secret is in the keychain
  clients,      \* services whose client has a token
  flowActive,   \* m_isAuthFlowActive
  authService,  \* m_currentAuthService
  window,       \* m_authEngine: "closed", "silent" or "visible"
  page,         \* the service whose page it shows
  silentTimer,  \* the service m_silentAuthTimer runs for
  waiting,      \* the last AuthUiStateChanged: the interface waits for a sign-in
  cooling,      \* less than 15 seconds since m_lastAuthAttemptMs
  validating,   \* VkClient's m_isValidatingToken
  calls,        \* calls under way
  turns

session == <<source, answered, dropped>>
tokens == <<saved, secret, clients>>
flow == <<flowActive, authService, window, page, silentTimer, waiting>>
vk == <<cooling, validating>>
vars == <<session, tokens, flow, vk, calls, turns>>

Ops == {"start",    \* Start*Service's read of the keychain, which found a token or not
        "uid",      \* Yandex: its read of the user's number
        "check",    \* its validation of the token
        "recheck",  \* RevalidateCurrentSource's validation
        "secret",   \* OnVkTokenExpired's read of the secret
        "refresh",  \* VkAuthService::RefreshToken
        "exchange", \* SpotifyClient::ExchangeCodeForToken
        "cookies",  \* TryFinalizeYouTubeAuth's next look
        "preinit"}  \* Preinitialize*Client's read of the keychain

\* The turn a call goes back to tells equal calls apart.
Call(op, s, found) == [op |-> op, of |-> s, found |-> found, try |-> 0, turn |-> turns]

Init ==
  /\ source = Offline /\ answered = TRUE /\ dropped = FALSE
  /\ saved \in SavedAtStart /\ secret \in BOOLEAN /\ clients = {}
  /\ flowActive = FALSE /\ authService = NoService
  /\ window = "closed" /\ page = NoService /\ silentTimer = NoService /\ waiting = FALSE
  /\ cooling = FALSE /\ validating = FALSE
  /\ calls = {} /\ turns = 0

Turn == turns < MaxTurns /\ turns' = turns + 1

-----------------------------------------------------------------------------
(* What several handlers do. *)

\* ProviderReady about service s.
ProviderReady(s) ==
  answered' = (answered \/ source = s) /\ UNCHANGED <<source, dropped>>

\* SaveToken and SetAccessToken.
Keep(s) == saved' = saved \cup {s} /\ clients' = clients \cup {s} /\ UNCHANGED secret

\* ClearSavedToken and SetAccessToken("").
Forget(s) == saved' = saved \ {s} /\ clients' = clients \ {s} /\ UNCHANGED secret

Use(s) == clients' = clients \cup {s} /\ UNCHANGED <<saved, secret>>

\* AuthUiStateChanged(false).
StopWaiting == waiting' = FALSE /\ UNCHANGED <<flowActive, authService, window, page, silentTimer>>

\* The window is deleted and the interface told so; neither m_isAuthFlowActive nor
\* the timer of a silent sign-in is touched.
CloseSignedIn ==
  /\ window' = "closed" /\ page' = NoService /\ waiting' = FALSE
  /\ UNCHANGED <<flowActive, authService, silentTimer>>

\* OnSpotifyAuthError, whatever the window shows.
OnSpotifyAuthError ==
  /\ flowActive' = FALSE /\ waiting' = FALSE
  /\ UNCHANGED <<authService, window, page, silentTimer>>

\* The rest of StartAuthFlow: a new window takes the place of the old one, or
\* auth.qml cannot be loaded.
OpenWindow(s, visible) ==
  /\ authService' = s
  /\ \/ /\ flowActive' = TRUE /\ page' = s
        /\ window' = IF visible THEN "visible" ELSE "silent"
        /\ silentTimer' = IF visible THEN NoService ELSE s
        /\ waiting' = (waiting \/ visible)
     \/ /\ flowActive' = FALSE /\ page' = NoService
        /\ window' = "closed" /\ silentTimer' = NoService /\ waiting' = FALSE

\* Mutant: the timer is stopped before it is known whether there is anything to do.
StartAuthFlowMutant(s, visible) ==
  IF flowActive /\ window # "closed"
  THEN silentTimer' = NoService /\ UNCHANGED <<flowActive, authService, window, page, waiting>>
  ELSE OpenWindow(s, visible)

StartAuthFlow(s, visible) ==
  IF flowActive /\ window # "closed" THEN UNCHANGED flow ELSE OpenWindow(s, visible)

-----------------------------------------------------------------------------
(* Commands. *)

\* A change of source; "All" initialises every client that has no token.
SwitchSource(s) ==
  /\ Turn /\ s # source
  /\ source' = s /\ dropped' = FALSE /\ answered' = (s \notin Services)
  /\ IF s \in Services
     THEN /\ calls' = calls \cup {Call("start", s, s \in saved)}
          /\ UNCHANGED flow
     ELSE /\ calls' = calls \cup {Call("preinit", t, t \in saved) :
                                    t \in IF s = All THEN Services \ clients ELSE {}}
          /\ StopWaiting
  /\ UNCHANGED <<tokens, vk>>

\* GetProvider of a client without a token, for the track about to play.
GetProvider(s) ==
  /\ Turn /\ s \notin clients
  /\ calls' = calls \cup {Call("preinit", s, s \in saved)}
  /\ UNCHANGED <<session, tokens, flow, vk>>

\* The user asks for the sign-in page; VK's is the interface's own.
AuthenticateSource(s) ==
  /\ Turn /\ s # "VK"
  /\ StartAuthFlow(s, TRUE)
  /\ UNCHANGED <<session, tokens, vk, calls>>

\* Mutant: the window is deleted and the interface not told.
LogoutMutant(gone) ==
  /\ Turn
  /\ saved' = saved \ gone /\ clients' = clients \ gone
  /\ silentTimer' = NoService /\ window' = "closed" /\ page' = NoService
  /\ UNCHANGED <<session, secret, flowActive, authService, waiting, vk, calls>>

\* Of one service or of all; VK's secret stays, and so does m_isAuthFlowActive.
Logout(gone) ==
  /\ Turn
  /\ saved' = saved \ gone /\ clients' = clients \ gone
  /\ silentTimer' = NoService /\ window' = "closed" /\ page' = NoService
  /\ waiting' = (waiting /\ window = "closed")
  /\ UNCHANGED <<session, secret, flowActive, authService, vk, calls>>

\* The network is back.
RevalidateCurrentSource ==
  /\ Turn /\ source \in Services
  /\ IF source \in clients /\ source \in {"VK", "Spotify"}
     THEN /\ calls' = calls \cup {Call("recheck", source, TRUE)}
          /\ validating' = (validating \/ source = "VK")
          /\ UNCHANGED session
     ELSE /\ source \in clients \cup {"VK"} /\ ProviderReady(source)
          /\ UNCHANGED <<calls, validating>>
  /\ UNCHANGED <<tokens, flow, cooling>>

-----------------------------------------------------------------------------
(* The window, and the timer of the silent one. *)

\* The page of Yandex or SoundCloud yields a token, which is taken for one of
\* m_currentAuthService.
TokenReceived ==
  /\ window # "closed" /\ page \in {"Yandex", "SoundCloud"}
  /\ authService \in {"Yandex", "SoundCloud"}
  /\ CloseSignedIn /\ Keep(authService) /\ ProviderReady(authService)
  /\ UNCHANGED <<vk, calls, turns>>

\* Spotify's page yields a code.
AuthCodeReceived ==
  /\ window # "closed" /\ page = "Spotify" /\ authService = "Spotify"
  /\ CloseSignedIn
  /\ calls' = calls \cup {Call("exchange", "Spotify", TRUE)}
  /\ UNCHANGED <<session, tokens, vk, turns>>

\* Mutant: one look more than there may be.
TryFinalizeYouTubeAuthMutant(c, rest) ==
  \/ Keep(c.of) /\ ProviderReady(c.of) /\ calls' = rest
  \/ /\ c.try <= MaxRetries
     /\ calls' = rest \cup {[c EXCEPT !.try = @ + 1]}
     /\ UNCHANGED <<session, tokens>>

\* TryFinalizeYouTubeAuth: the cookies are looked for at once and then every 300 ms;
\* after the last look those the page's script has seen have to do.
TryFinalizeYouTubeAuth(c, rest) ==
  \/ Keep(c.of) /\ ProviderReady(c.of) /\ calls' = rest
  \/ /\ c.try < MaxRetries
     /\ calls' = rest \cup {[c EXCEPT !.try = @ + 1]}
     /\ UNCHANGED <<session, tokens>>

YtAuthSucceeded ==
  /\ window # "closed" /\ page = "YouTube"
  /\ CloseSignedIn
  /\ TryFinalizeYouTubeAuth(Call("cookies", "YouTube", TRUE), calls)
  /\ UNCHANGED <<vk, turns>>

\* The user closes the visible window; closing the silent one has no handler.
WindowClosed ==
  /\ window = "visible"
  /\ flowActive' = FALSE /\ window' = "closed" /\ page' = NoService
  /\ silentTimer' = NoService /\ waiting' = FALSE
  /\ UNCHANGED <<authService, session, tokens, vk, calls, turns>>

SilentAuthTimeout ==
  /\ silentTimer # NoService
  /\ OpenWindow(silentTimer, TRUE)
  /\ UNCHANGED <<session, tokens, vk, calls, turns>>

-----------------------------------------------------------------------------
(* Tokens that have expired. *)

OnVkTokenExpired(c, rest) ==
  IF flowActive \/ cooling
  THEN calls' = rest /\ UNCHANGED cooling
  ELSE /\ cooling' = TRUE
       /\ calls' = rest \cup {[c EXCEPT !.op = "secret", !.found = secret]}

\* A reply to a request of VkClient says so.
VkTokenExpired ==
  /\ Turn /\ "VK" \in Services /\ ~validating
  /\ OnVkTokenExpired(Call("secret", "VK", secret), calls)
  /\ UNCHANGED <<session, tokens, flow, validating>>

CooldownEnds ==
  cooling /\ cooling' = FALSE /\ UNCHANGED <<session, tokens, flow, validating, calls, turns>>

\* The same of YouTubeClient, while m_isAuthFlowActive is not set: a silent window.
YouTubeTokenExpired ==
  /\ Turn /\ "YouTube" \in Services /\ ~flowActive
  /\ Forget("YouTube") /\ StartAuthFlow("YouTube", FALSE)
  /\ UNCHANGED <<session, vk, calls>>

\* A reply to a request of SpotifyClient is an error.
SpotifyRefused ==
  /\ Turn /\ "Spotify" \in Services
  /\ OnSpotifyAuthError
  /\ UNCHANGED <<session, tokens, vk, calls>>

\* VkAuthService::AuthSuccess, with a secret or without.
VkSignedIn ==
  /\ Turn /\ "VK" \in Services
  /\ saved' = saved \cup {"VK"} /\ clients' = clients \cup {"VK"}
  /\ secret' \in {TRUE, secret}
  /\ StopWaiting /\ ProviderReady("VK")
  /\ UNCHANGED <<vk, calls>>

-----------------------------------------------------------------------------
(* The answers. *)

Rest(c) == calls \ {c}

\* The keychain has been read for Start*Service: no token.  For YouTube the cookies
\* of the browser may still hold a session.
StartNotFound(c) ==
  /\ c.op = "start" /\ ~c.found /\ ProviderReady(c.of)
  /\ \/ UNCHANGED <<tokens, flow>>
     \/ c.of = "YouTube" /\ Keep("YouTube") /\ StopWaiting
  /\ calls' = Rest(c) /\ UNCHANGED vk

\* It holds a token of VK or Spotify, which is checked next.
StartChecks(c) ==
  /\ c.op = "start" /\ c.found /\ c.of \in {"VK", "Spotify"}
  /\ Use(c.of)
  /\ calls' = Rest(c) \cup {[c EXCEPT !.op = "check"]}
  /\ validating' = (validating \/ c.of = "VK")
  /\ UNCHANGED <<session, flow, cooling>>

\* SoundCloud's is used as it is; for Yandex the user's number is read first.
StartUses(c) ==
  /\ c.op = "start" /\ c.found /\ c.of \in {"Yandex", "SoundCloud"}
  /\ Use(c.of)
  /\ IF c.of = "Yandex"
     THEN calls' = Rest(c) \cup {[c EXCEPT !.op = "uid"]} /\ UNCHANGED session
     ELSE calls' = Rest(c) /\ ProviderReady(c.of)
  /\ UNCHANGED <<flow, vk>>

\* YouTube's: cookies of a session; or none, but the browser has one; or none at all.
StartYouTube(c) ==
  /\ c.op = "start" /\ c.found /\ c.of = "YouTube"
  /\ \/ (Use("YouTube") \/ Keep("YouTube")) /\ StopWaiting
     \/ saved' = saved \ {"YouTube"} /\ UNCHANGED <<secret, clients, flow>>
  /\ ProviderReady("YouTube")
  /\ calls' = Rest(c) /\ UNCHANGED vk

UidRead(c) ==
  /\ c.op = "uid" /\ ProviderReady(c.of)
  /\ calls' = Rest(c) /\ UNCHANGED <<tokens, flow, vk>>

\* The token is valid: only Start*Service ends the waiting.
Valid(c) ==
  /\ c.op \in {"check", "recheck"}
  /\ ProviderReady(c.of)
  /\ IF c.op = "check" THEN StopWaiting ELSE UNCHANGED flow
  /\ validating' = (validating /\ c.of # "VK")
  /\ calls' = Rest(c) /\ UNCHANGED <<tokens, cooling>>

VkInvalid(c) ==
  /\ c.op \in {"check", "recheck"} /\ c.of = "VK"
  /\ dropped' = (dropped \/ (source = "VK" /\ (flowActive \/ cooling)))
  /\ OnVkTokenExpired(c, Rest(c))
  /\ validating' = FALSE
  /\ UNCHANGED <<source, answered, tokens, flow>>

\* The client keeps the token if it was RevalidateCurrentSource that asked.  An error
\* that Spotify sends goes to OnSpotifyAuthError too, one of the network does not.
SpotifyInvalid(c) ==
  /\ c.op \in {"check", "recheck"} /\ c.of = "Spotify"
  /\ saved' = saved \ {"Spotify"}
  /\ clients' = IF c.op = "check" THEN clients \ {"Spotify"} ELSE clients
  /\ OnSpotifyAuthError \/ UNCHANGED flow
  /\ ProviderReady("Spotify")
  /\ calls' = Rest(c) /\ UNCHANGED <<secret, vk>>

SecretRead(c) ==
  /\ c.op = "secret"
  /\ IF c.found
     THEN calls' = Rest(c) \cup {[c EXCEPT !.op = "refresh"]} /\ UNCHANGED <<session, tokens>>
     ELSE calls' = Rest(c) /\ Forget(c.of) /\ ProviderReady(c.of)
  /\ UNCHANGED <<flow, vk>>

\* Mutant: a renewal that fails is not reported.
RefreshedMutant(c) ==
  /\ c.op = "refresh"
  /\ \/ Keep(c.of) /\ ProviderReady(c.of)
     \/ Forget(c.of) /\ UNCHANGED session
  /\ calls' = Rest(c) /\ UNCHANGED <<flow, vk>>

\* The token is renewed, or the user has to sign in again.
Refreshed(c) ==
  /\ c.op = "refresh"
  /\ (Keep(c.of) \/ Forget(c.of)) /\ ProviderReady(c.of)
  /\ calls' = Rest(c) /\ UNCHANGED <<flow, vk>>

\* OnSpotifyTokenReceived.
Exchanged(c) ==
  /\ c.op = "exchange"
  /\ Keep(c.of) /\ OnSpotifyAuthError /\ ProviderReady(c.of)
  /\ calls' = Rest(c) /\ UNCHANGED vk

\* Refused; an error of the network has no handler.
NotExchanged(c) ==
  /\ c.op = "exchange"
  /\ OnSpotifyAuthError \/ UNCHANGED flow
  /\ calls' = Rest(c) /\ UNCHANGED <<session, tokens, vk>>

CookiesRead(c) ==
  /\ c.op = "cookies"
  /\ TryFinalizeYouTubeAuth(c, Rest(c))
  /\ UNCHANGED <<flow, vk>>

\* YouTube's cookies may again come from the browser.
Preinitialized(c) ==
  /\ c.op = "preinit"
  /\ \/ c.found /\ Use(c.of)
     \/ ~c.found /\ UNCHANGED tokens
     \/ c.of = "YouTube" /\ Keep("YouTube")
  /\ calls' = Rest(c) /\ UNCHANGED <<session, flow, vk>>

Answer(c) ==
  \/ StartNotFound(c) \/ StartChecks(c) \/ StartUses(c) \/ StartYouTube(c) \/ UidRead(c)
  \/ Valid(c) \/ VkInvalid(c) \/ SpotifyInvalid(c)
  \/ SecretRead(c) \/ Refreshed(c) \/ Exchanged(c) \/ NotExchanged(c)
  \/ CookiesRead(c) \/ Preinitialized(c)

Answered == \E c \in calls : Answer(c) /\ UNCHANGED turns

-----------------------------------------------------------------------------
Next ==
  \/ \E s \in Services \cup {Offline, All} : SwitchSource(s)
  \/ \E s \in Services : GetProvider(s) \/ AuthenticateSource(s)
  \/ \E gone \in {{s} : s \in Services} \cup {Services} : Logout(gone)
  \/ RevalidateCurrentSource
  \/ TokenReceived \/ AuthCodeReceived \/ YtAuthSucceeded \/ WindowClosed \/ SilentAuthTimeout
  \/ VkTokenExpired \/ CooldownEnds \/ YouTubeTokenExpired \/ SpotifyRefused \/ VkSignedIn
  \/ Answered

Spec == Init /\ [][Next]_vars

\* Keychain jobs end, requests are answered or fail, a timer that runs fires.
FairSpec == Spec /\ WF_calls(Answered) /\ WF_silentTimer(SilentAuthTimeout)

-----------------------------------------------------------------------------
(* What makes signing in correct. *)

(* The types of the state. *)
TypeOK ==
  /\ source \in Services \cup {Offline, All} /\ {answered, dropped} \subseteq BOOLEAN
  /\ saved \subseteq Services /\ secret \in BOOLEAN /\ clients \subseteq Services
  /\ flowActive \in BOOLEAN /\ authService \in Services \cup {NoService}
  /\ window \in {"closed", "silent", "visible"} /\ page \in Services \cup {NoService}
  /\ silentTimer \in Services \cup {NoService} /\ waiting \in BOOLEAN
  /\ {cooling, validating} \subseteq BOOLEAN
  /\ calls \subseteq [op : Ops, of : Services, found : BOOLEAN, try : 0 .. MaxRetries,
                      turn : 0 .. MaxTurns]
  /\ turns \in 0 .. MaxTurns

(* The interface waits for a sign-in only while there is a visible window in *)
(* which the user can end the waiting, whichever sign-in, refusal, timer,    *)
(* logout or failure to open one comes between.                             *)
WaitingMeansWindow == waiting => window = "visible"

(* The window shows the page of the service that what it yields is saved for. *)
PageIsOfService == window # "closed" => page = authService

(* What the proofs rest on: as long as the interface waits no other window    *)
(* can take the place of the one it waits for, and a silent window has its    *)
(* timer running.                                                           *)
FlowInv ==
  /\ waiting => flowActive /\ window = "visible"
  /\ PageIsOfService
  /\ window = "silent" => silentTimer = page
  /\ silentTimer \in {"YouTube", NoService}

(* A renewal in the background never takes the place of the window in which  *)
(* the user signs in.                                                       *)
SilentSparesWaiting == [][waiting => window' # "silent"]_vars

(* A silent window is given up in the end: StartAuthFlow opens no other while *)
(* it is there, and the interface does not ask the user to do anything in it. *)
SilentSignInEnds == window = "silent" ~> window # "silent"

(* Every change of source is answered by ProviderReady, upon which the list  *)
(* is filled, unless the source is changed again; or it is VK whose token is *)
(* not valid and OnVkTokenExpired ignores it, because a sign-in is, or seems *)
(* to be, under way, or for less than 15 seconds after the last attempt.     *)
SwitchAnswered == ~answered ~> answered \/ dropped

(* "Background refresh failed": the visible window takes over from the silent *)
(* one only if the user was not signed in by then.                          *)
FallsBackOnlyWhenFailed == [][SilentAuthTimeout => window = "silent"]_vars
===============================================================================
