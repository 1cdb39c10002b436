------------------------------ MODULE Connect ------------------------------
(***************************************************************************)
(* The options of both clients and what connect() makes of them, one step  *)
(* for each exchange with the server.  FtpFs and TokioFtpFs take all of    *)
(* connect() after its checks as one action, Dial: this module says what   *)
(* Dial stands for.  A step may fail, and the asynchronous client may drop *)
(* the call at each of its awaits.                                         *)
(*                                                                         *)
(* A build is one client with one TLS backend.  No transfer stream is      *)
(* alive here; FtpFs refuses connect and disconnect while one is.          *)
(***************************************************************************)
EXTENDS Naturals

CONSTANTS
    MaxSessions,    \* connections dialled
    MaxSettings     \* builder calls

ASSUME ConnectAssumption == MaxSessions \in Nat \ {0} /\ MaxSettings \in Nat

VARIABLES
    build,          \* which client, which TLS backend
    options,        \* what the builder methods have set
    settings,       \* builder calls made
    stream,         \* the stored session
    usable,         \* connection_usable
    connected, welcome,  \* copies the asynchronous client keeps
    pc,             \* where connect() or disconnect() is
    dialled,        \* connect()'s own, not yet stored, session
    sessions,       \* how many there have been
    asked,          \* history: the options each of them was dialled with
    spoken          \* history: the credentials sent, over what

client == <<stream, usable, connected, welcome>>
call == <<pc, dialled, sessions, asked>>
vars == <<build, options, settings, client, call, spoken>>

NoSession == [id |-> 0]
NoBanner == 0               \* banners are named after their session

Builds == [async : BOOLEAN, tls : {"none", "native", "rustls"}]

Certificates == {"valid", "untrusted", "other_host"}

(* FtpFs::new                                                              *)
Defaults ==
    [username |-> "anonymous", password |-> "none", mode |-> "passive",
     builder |-> FALSE, secure |-> FALSE,
     accept_invalid_certs |-> FALSE, accept_invalid_hostnames |-> FALSE]

Credentials(o) ==
    <<o.username, IF o.password = "none" THEN "" ELSE o.password>>

(* TcpStream connected, nothing said yet.                                  *)
Dialled(id) ==
    [id |-> id, mode |-> "passive", builder |-> FALSE, encrypted |-> FALSE,
     peer |-> "none", user |-> <<>>, binary |-> FALSE]

AwaitPoints == {"dial", "secure", "login", "type", "quit"}

-----------------------------------------------------------------------------
(* The builder methods.                                                    *)

Set(o) ==
    /\ pc = "idle"
    /\ settings < MaxSettings
    /\ settings' = settings + 1
    /\ options' = o
    /\ UNCHANGED <<build, client, call, spoken>>

Username == Set([options EXCEPT !.username = "user"])
Password == Set([options EXCEPT !.password = "secret"])
ActiveMode == Set([options EXCEPT !.mode = "active"])
PassiveMode == Set([options EXCEPT !.mode = "passive"])
PassiveStreamBuilder == Set([options EXCEPT !.builder = TRUE])

Secure ==
    \/ /\ build.tls = "native"
       /\ \E certs, hosts \in BOOLEAN :
             Set([options EXCEPT !.secure = TRUE, !.accept_invalid_certs = certs,
                                 !.accept_invalid_hostnames = hosts])
    \/ /\ build.tls = "rustls"
       /\ Set([options EXCEPT !.secure = TRUE])

Configure ==
    Username \/ Password \/ ActiveMode \/ PassiveMode \/ PassiveStreamBuilder \/ Secure

-----------------------------------------------------------------------------
(* connect                                                                 *)

Idle == pc' = "idle" /\ dialled' = NoSession

(* Variant: the old stream stays until the new one replaces it.            *)
ConnectKeepsOld ==
    /\ pc = "idle"
    /\ ~(usable /\ stream # NoSession)
    /\ sessions < MaxSessions
    /\ pc' = "dial"
    /\ usable' = TRUE
    /\ UNCHANGED <<build, options, settings, stream, connected, welcome,
                   dialled, sessions, asked, spoken>>

(* Variant: only the stream is dropped, not the copy of its presence.      *)
ConnectKeepsConnected ==
    /\ pc = "idle"
    /\ ~(usable /\ stream # NoSession)
    /\ sessions < MaxSessions
    /\ pc' = "dial"
    /\ usable' = TRUE
    /\ stream' = IF usable THEN stream ELSE NoSession
    /\ UNCHANGED <<build, options, settings, connected, welcome,
                   dialled, sessions, asked, spoken>>

(* Refused with AlreadyConnected when there is a usable session; an unusable *)
(* one is dropped before anything else.                                    *)
Connect ==
    /\ pc = "idle"
    /\ ~(usable /\ stream # NoSession)
    /\ sessions < MaxSessions
    /\ pc' = "dial"
    /\ usable' = TRUE
    /\ stream' = IF usable THEN stream ELSE NoSession
    /\ connected' = IF usable THEN connected ELSE FALSE
    /\ UNCHANGED <<build, options, settings, welcome, dialled, sessions, asked, spoken>>

DialSucceeds ==
    /\ pc = "dial"
    /\ pc' = "set_up"
    /\ sessions' = sessions + 1
    /\ asked' = [asked EXCEPT ![sessions + 1] = options]
    /\ dialled' = Dialled(sessions + 1)
    /\ UNCHANGED <<build, options, settings, client, spoken>>

(* Variant: TLS is for later.                                              *)
SetUpInClear ==
    /\ pc = "set_up"
    /\ dialled' = [dialled EXCEPT !.builder = options.builder, !.mode = options.mode]
    /\ pc' = "login"
    /\ UNCHANGED <<build, options, settings, client, sessions, asked, spoken>>

(* Variant: the mode is left at suppaftp's default when there is a builder. *)
SetUpEitherOr ==
    /\ pc = "set_up"
    /\ dialled' = IF options.builder THEN [dialled EXCEPT !.builder = TRUE]
                  ELSE [dialled EXCEPT !.mode = options.mode]
    /\ pc' = IF options.secure THEN "secure" ELSE "login"
    /\ UNCHANGED <<build, options, settings, client, sessions, asked, spoken>>

(* The builder hook and the mode.                                          *)
SetUp ==
    /\ pc = "set_up"
    /\ dialled' = [dialled EXCEPT !.builder = options.builder, !.mode = options.mode]
    /\ pc' = IF options.secure THEN "secure" ELSE "login"
    /\ UNCHANGED <<build, options, settings, client, sessions, asked, spoken>>

(* Variant: the two waivers are passed in the wrong order.                  *)
AcceptsSwapped(peer) ==
    \/ peer = "valid"
    \/ /\ build.tls = "native"
       /\ \/ peer = "untrusted" /\ options.accept_invalid_hostnames
          \/ peer = "other_host" /\ options.accept_invalid_certs

(* setup_tls_connector: rustls always checks against the webpki roots; with *)
(* native-tls each check can be waived.                                    *)
Accepts(peer) ==
    \/ peer = "valid"
    \/ /\ build.tls = "native"
       /\ \/ peer = "untrusted" /\ options.accept_invalid_certs
          \/ peer = "other_host" /\ options.accept_invalid_hostnames

IntoSecure ==
    /\ pc = "secure"
    /\ \E peer \in Certificates :
          /\ Accepts(peer)
          /\ dialled' = [dialled EXCEPT !.encrypted = TRUE, !.peer = peer]
    /\ pc' = "login"
    /\ UNCHANGED <<build, options, settings, client, sessions, asked, spoken>>

(* USER and PASS are sent whatever the server answers; on success it is     *)
(* logged in.                                                              *)
Login ==
    /\ pc = "login"
    /\ spoken' = spoken \cup {[id |-> dialled.id, user |-> Credentials(options),
                               encrypted |-> dialled.encrypted]}
    /\ \/ /\ dialled' = [dialled EXCEPT !.user = Credentials(options)]
          /\ pc' = "type"
       \/ Idle
    /\ UNCHANGED <<build, options, settings, client, sessions, asked>>

TransferType ==
    /\ pc = "type"
    /\ dialled' = [dialled EXCEPT !.binary = TRUE]
    /\ pc' = "store"
    /\ UNCHANGED <<build, options, settings, client, sessions, asked, spoken>>

(* The blocking client reads the banner from the stream itself.            *)
Store ==
    /\ pc = "store"
    /\ stream' = dialled
    /\ IF build.async
       THEN welcome' = dialled.id /\ connected' = TRUE
       ELSE UNCHANGED <<welcome, connected>>
    /\ Idle
    /\ UNCHANGED <<build, options, settings, usable, sessions, asked, spoken>>

(* An exchange fails: the ? of each drops the session under construction.   *)
ConnectFails ==
    /\ pc \in {"dial", "secure", "type"}
    /\ Idle
    /\ UNCHANGED <<build, options, settings, client, sessions, asked, spoken>>

-----------------------------------------------------------------------------
(* disconnect                                                              *)

Disconnect ==
    /\ pc = "idle"
    /\ stream # NoSession
    /\ stream' = NoSession
    /\ connected' = FALSE
    /\ welcome' = NoBanner
    /\ usable' = TRUE
    /\ pc' = IF usable THEN "quit" ELSE "idle"
    /\ UNCHANGED <<build, options, settings, dialled, sessions, asked, spoken>>

(* The reply may cost the connection, which is gone already.               *)
Quit ==
    /\ pc = "quit"
    /\ usable' \in BOOLEAN
    /\ Idle
    /\ UNCHANGED <<build, options, settings, stream, connected, welcome, sessions, asked, spoken>>

(* The future of connect() or disconnect() is dropped.  A password may be   *)
(* on its way.                                                             *)
Cancel ==
    /\ build.async /\ pc \in AwaitPoints
    /\ Idle
    /\ IF pc = "login"
       THEN \/ UNCHANGED spoken
            \/ spoken' = spoken \cup {[id |-> dialled.id, user |-> Credentials(options),
                                       encrypted |-> dialled.encrypted]}
       ELSE UNCHANGED spoken
    /\ UNCHANGED <<build, options, settings, client, sessions, asked>>

(* Some operation marks the connection, as FtpFs and TokioFtpFs say.        *)
Spoil ==
    /\ pc = "idle"
    /\ stream # NoSession
    /\ usable' = FALSE
    /\ UNCHANGED <<build, options, settings, stream, connected, welcome, call, spoken>>

-----------------------------------------------------------------------------
Init ==
    /\ build \in Builds
    /\ options = Defaults
    /\ settings = 0
    /\ stream = NoSession /\ usable = TRUE
    /\ connected = FALSE /\ welcome = NoBanner
    /\ pc = "idle" /\ dialled = NoSession /\ sessions = 0
    /\ asked = [id \in 1..MaxSessions |-> Defaults]
    /\ spoken = {}

Next ==
    \/ Configure
    \/ Connect \/ DialSucceeds \/ SetUp \/ IntoSecure \/ Login \/ TransferType \/ Store
    \/ ConnectFails
    \/ Disconnect \/ Quit
    \/ Cancel
    \/ Spoil

Spec == Init /\ [][Next]_vars

-----------------------------------------------------------------------------
(* Properties.                                                             *)

(* A client asked to be secure never sends its credentials in clear, however *)
(* many attempts fail or are dropped on the way (sync.rs:112 "use FTPS").   *)
CredentialsStayPrivate ==
    \A s \in spoken : asked[s.id].secure => s.encrypted

(* The session a client keeps has been through all of connect() and is the  *)
(* one its options asked for when it was dialled, whatever is set since.    *)
StoredSessionIsReady ==
    stream # NoSession =>
        LET o == asked[stream.id]
        IN  /\ stream.user = Credentials(o)
            /\ stream.binary
            /\ stream.mode = o.mode
            /\ stream.builder = o.builder
            /\ stream.encrypted = o.secure

(* Credentials go to a peer whose certificate passed the checks that the    *)
(* options left in force.                                                  *)
OnlyAcceptedPeers ==
    \A s \in {stream, dialled} \ {NoSession} : s.encrypted =>
        LET o == asked[s.id]
        IN  /\ s.peer = "untrusted" => o.accept_invalid_certs
            /\ s.peer = "other_host" => o.accept_invalid_hostnames

(* The copies the asynchronous client answers from agree with the stream at  *)
(* all times, also when connect() or disconnect() fails or is dropped half  *)
(* way (tokio.rs:98 "Mirrors stream.is_some()").                           *)
CopiesMatchStream ==
    build.async =>
        /\ connected = (stream # NoSession)
        /\ stream # NoSession => welcome = stream.id

(* A session is dialled only when there is no other, so that a failure      *)
(* never leaves the client with the connection it gave up.                 *)
OneSessionAtATime == pc \notin {"idle", "quit"} => stream = NoSession
=============================================================================
