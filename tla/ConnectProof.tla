---------------------------- MODULE ConnectProof ----------------------------
(***************************************************************************)
(* Proofs about Connect, for any number of dials and builder calls: to     *)
(* whom, over what and on whose behalf credentials are sent, and what a    *)
(* client keeps of its attempts.                                           *)
(***************************************************************************)
EXTENDS Connect, TLAPS

OptionSets ==
    [username : {"anonymous", "user"}, password : {"none", "secret"},
     mode : {"passive", "active"}, builder : BOOLEAN, secure : BOOLEAN,
     accept_invalid_certs : BOOLEAN, accept_invalid_hostnames : BOOLEAN]

Logins == {Credentials(o) : o \in OptionSets}

Session ==
    [id : 1..MaxSessions, mode : {"passive", "active"}, builder : BOOLEAN,
     encrypted : BOOLEAN, peer : Certificates \cup {"none"},
     user : {<<>>} \cup Logins, binary : BOOLEAN]

Utterance == [id : 1..MaxSessions, user : Logins, encrypted : BOOLEAN]

TypeOK ==
    /\ build \in Builds
    /\ options \in OptionSets
    /\ stream \in Session \cup {NoSession}
    /\ usable \in BOOLEAN
    /\ connected \in BOOLEAN
    /\ welcome \in Nat
    /\ pc \in AwaitPoints \cup {"idle", "set_up", "store"}
    /\ dialled \in Session \cup {NoSession}
    /\ sessions \in 0..MaxSessions
    /\ asked \in [1..MaxSessions -> OptionSets]
    /\ spoken \subseteq Utterance

(* What the session under construction has been through.                   *)
DialInv ==
    /\ dialled = NoSession <=> pc \in {"idle", "dial", "quit"}
    /\ pc = "dial" => sessions < MaxSessions
    /\ dialled # NoSession => dialled.id = sessions /\ asked[sessions] = options
    /\ pc \in {"secure", "login", "type", "store"} =>
          dialled.mode = options.mode /\ dialled.builder = options.builder
    /\ pc = "set_up" => dialled.encrypted = FALSE
    /\ pc = "secure" => options.secure = TRUE
    /\ pc \in {"login", "type", "store"} => dialled.encrypted = options.secure
    /\ pc \in {"type", "store"} => dialled.user = Credentials(options)
    /\ pc = "store" => dialled.binary

(* The options of a session are those it was dialled with: asked is only    *)
(* written past every session there has been.                              *)
HistoryInv ==
    /\ stream # NoSession => stream.id <= sessions
    /\ \A s \in spoken : s.id <= sessions

IInv ==
    /\ TypeOK /\ DialInv /\ HistoryInv
    /\ CredentialsStayPrivate /\ StoredSessionIsReady /\ OnlyAcceptedPeers
    /\ CopiesMatchStream /\ OneSessionAtATime

-----------------------------------------------------------------------------
(* Sessions are records.                                                   *)

LEMMA LoginIsTyped == \A o \in OptionSets : Credentials(o) \in Logins
BY DEF Logins

LEMMA SessionIsSomething ==
    \A s \in Session : s # NoSession /\ s.id \in 1..MaxSessions /\ s.id # 0
BY ConnectAssumption DEF Session, NoSession

LEMMA DialledIsASession ==
    ASSUME NEW n \in 1..MaxSessions
    PROVE  Dialled(n) \in Session /\ Dialled(n).id = n /\ Dialled(n).encrypted = FALSE
BY DEF Dialled, Session

LEMMA LoggedInSession ==
    ASSUME NEW s \in Session, NEW u \in Logins, NEW d, d = [s EXCEPT !.user = u]
    PROVE  /\ d \in Session
           /\ d.id = s.id /\ d.user = u /\ d.encrypted = s.encrypted /\ d.peer = s.peer
           /\ d.mode = s.mode /\ d.builder = s.builder
BY DEF Session

LEMMA BinarySession ==
    ASSUME NEW s \in Session, NEW d, d = [s EXCEPT !.binary = TRUE]
    PROVE  /\ d \in Session
           /\ d.id = s.id /\ d.user = s.user /\ d.encrypted = s.encrypted /\ d.peer = s.peer
           /\ d.mode = s.mode /\ d.builder = s.builder /\ d.binary
BY DEF Session

LEMMA OptionFields ==
    ASSUME NEW o \in OptionSets
    PROVE  o.builder \in BOOLEAN /\ o.mode \in {"passive", "active"} /\ o.secure \in BOOLEAN
BY DEF OptionSets

-----------------------------------------------------------------------------
(* The inductive invariant.                                                *)

(* A builder method sets options to options and leaves the rest alone.      *)
LEMMA ConfigureEffect ==
    ASSUME options \in OptionSets, Configure
    PROVE  /\ pc = "idle"
           /\ options' \in OptionSets
           /\ UNCHANGED <<build, client, call, spoken>>
<1> USE DEF Set, OptionSets
<1>1. CASE Username
  BY <1>1 DEF Username
<1>2. CASE Password
  BY <1>2 DEF Password
<1>3. CASE ActiveMode
  BY <1>3 DEF ActiveMode
<1>4. CASE PassiveMode
  BY <1>4 DEF PassiveMode
<1>5. CASE PassiveStreamBuilder
  BY <1>5 DEF PassiveStreamBuilder
<1>6. CASE Secure
  BY <1>6 DEF Secure
<1> QED
  BY <1>1, <1>2, <1>3, <1>4, <1>5, <1>6 DEF Configure

(* The exchanges of connect() come in order and under the options of its    *)
(* dial; every variable keeps its type.                                    *)
LEMMA DialInvStep ==
    ASSUME TypeOK, DialInv, [Next]_vars
    PROVE  TypeOK' /\ DialInv'
<1> USE ConnectAssumption, SessionIsSomething DEF TypeOK, DialInv, AwaitPoints
<1>1. CASE Configure
  BY <1>1, ConfigureEffect DEF client, call
<1>2. CASE Connect
  BY <1>2 DEF Connect
<1>3. CASE DialSucceeds
  <2>1. sessions + 1 \in 1..MaxSessions
    BY <1>3 DEF DialSucceeds
  <2>2. dialled' \in Session /\ dialled'.id = sessions + 1 /\ dialled'.encrypted = FALSE
    BY <1>3, <2>1, DialledIsASession DEF DialSucceeds
  <2>3. asked' \in [1..MaxSessions -> OptionSets] /\ asked'[sessions + 1] = options
    BY <1>3, <2>1 DEF DialSucceeds
  <2> QED
    BY <1>3, <2>1, <2>2, <2>3 DEF DialSucceeds, client
<1>4. CASE SetUp
  <2>1. dialled \in Session
    BY <1>4 DEF SetUp
  <2>2. /\ dialled' \in Session
        /\ dialled'.id = dialled.id /\ dialled'.encrypted = dialled.encrypted
        /\ dialled'.mode = options.mode /\ dialled'.builder = options.builder
    <3>1. options.builder \in BOOLEAN /\ options.mode \in {"passive", "active"}
      BY OptionFields
    <3>2. dialled' = [dialled EXCEPT !.builder = options.builder, !.mode = options.mode]
      BY <1>4 DEF SetUp
    <3> QED
      BY <2>1, <3>1, <3>2 DEF Session
  <2>3. CASE options.secure = TRUE
    BY <1>4, <2>1, <2>2, <2>3 DEF SetUp, client
  <2>4. CASE options.secure = FALSE
    BY <1>4, <2>1, <2>2, <2>4 DEF SetUp, client
  <2> QED
    BY <2>3, <2>4, OptionFields
<1>5. CASE IntoSecure
  <2>1. dialled \in Session
    BY <1>5 DEF IntoSecure
  <2>2. /\ dialled' \in Session
        /\ dialled'.id = dialled.id /\ dialled'.encrypted = TRUE
        /\ dialled'.mode = dialled.mode /\ dialled'.builder = dialled.builder
    <3>1. PICK peer \in Certificates :
             dialled' = [dialled EXCEPT !.encrypted = TRUE, !.peer = peer]
      BY <1>5 DEF IntoSecure
    <3> QED
      BY <2>1, <3>1 DEF Session
  <2> QED
    BY <1>5, <2>1, <2>2 DEF IntoSecure, client
<1>6. CASE Login
  <2>1. dialled \in Session
    BY <1>6 DEF Login
  <2>2. spoken' \subseteq Utterance
    BY <1>6, <2>1, LoginIsTyped DEF Login, Utterance, Session
  <2>3. CASE dialled' = [dialled EXCEPT !.user = Credentials(options)] /\ pc' = "type"
    <3>1. /\ dialled' \in Session
          /\ dialled'.id = dialled.id /\ dialled'.encrypted = dialled.encrypted
          /\ dialled'.mode = dialled.mode /\ dialled'.builder = dialled.builder
          /\ dialled'.user = Credentials(options)
      BY <2>1, <2>3, LoggedInSession, LoginIsTyped
    <3> QED
      BY <1>6, <2>1, <2>2, <2>3, <3>1 DEF Login, client
  <2>4. CASE Idle
    BY <1>6, <2>2, <2>4 DEF Login, Idle, client
  <2> QED
    BY <1>6, <2>3, <2>4 DEF Login
<1>7. CASE TransferType
  <2>1. dialled \in Session
    BY <1>7 DEF TransferType
  <2>2. /\ dialled' \in Session
        /\ dialled'.id = dialled.id /\ dialled'.encrypted = dialled.encrypted
        /\ dialled'.mode = dialled.mode /\ dialled'.builder = dialled.builder
        /\ dialled'.user = dialled.user /\ dialled'.binary
    BY <1>7, <2>1, BinarySession DEF TransferType
  <2> QED
    BY <1>7, <2>1, <2>2 DEF TransferType, client
<1>8. CASE Store
  <2>1. dialled \in Session /\ dialled.id \in Nat
    BY <1>8 DEF Store
  <2>2. connected' \in BOOLEAN /\ welcome' \in Nat
    BY <1>8, <2>1 DEF Store
  <2> QED
    BY <1>8, <2>1, <2>2 DEF Store, Idle
<1>9. CASE ConnectFails
  BY <1>9 DEF ConnectFails, Idle, client
<1>10. CASE Disconnect
  BY <1>10 DEF Disconnect, NoBanner
<1>11. CASE Quit
  BY <1>11 DEF Quit, Idle
<1>12. CASE Cancel
  <2>1. spoken' \subseteq Utterance
    BY <1>12, LoginIsTyped DEF Cancel, Utterance, Session
  <2> QED
    BY <1>12, <2>1 DEF Cancel, Idle, client
<1>13. CASE Spoil
  BY <1>13 DEF Spoil, call
<1>14. CASE UNCHANGED vars
  BY <1>14 DEF vars, client, call
<1> QED
  BY <1>1, <1>2, <1>3, <1>4, <1>5, <1>6, <1>7, <1>8, <1>9, <1>10, <1>11, <1>12, <1>13,
     <1>14 DEF Next

(* Only a dial writes the history of options, past all there has been.      *)
LEMMA AskedIsKept ==
    ASSUME TypeOK, DialInv, [Next]_vars
    PROVE  /\ sessions' \in Nat /\ sessions <= sessions'
           /\ \A id \in 1..sessions : asked'[id] = asked[id]
<1> USE ConnectAssumption DEF TypeOK
<1>1. CASE DialSucceeds
  BY <1>1 DEF DialSucceeds, DialInv
<1>2. CASE UNCHANGED <<sessions, asked>>
  BY <1>2
<1>3. CASE Configure
  BY <1>2, <1>3, ConfigureEffect DEF call
<1> QED
  BY <1>1, <1>2, <1>3 DEF Next, vars, call, Connect, SetUp, IntoSecure, Login, TransferType,
     Store, ConnectFails, Disconnect, Quit, Cancel, Spoil

LEMMA DialledIsLast ==
    ASSUME TypeOK, DialInv, dialled # NoSession
    PROVE  dialled \in Session /\ dialled.id \in 1..sessions
<1>1. dialled \in Session /\ dialled.id = sessions
  BY DEF TypeOK, DialInv
<1> QED
  BY <1>1, SessionIsSomething

(* A new session is stored only by Store; the others keep it or drop it.    *)
LEMMA StreamEffect ==
    ASSUME TypeOK, DialInv, [Next]_vars
    PROVE  \/ stream' \in {stream, NoSession}
           \/ Store /\ stream' = dialled
<1>1. CASE Configure
  BY <1>1, ConfigureEffect DEF TypeOK, client
<1> QED
  BY <1>1 DEF Next, vars, client, Connect, DialSucceeds, SetUp, IntoSecure, Login,
     TransferType, Store, ConnectFails, Disconnect, Quit, Cancel, Spoil

(* Credentials are sent by Login and, when it is dropped, by Cancel.        *)
LEMMA SpokenEffect ==
    ASSUME TypeOK, DialInv, [Next]_vars
    PROVE  \/ spoken' = spoken
           \/ /\ pc = "login"
              /\ spoken' = spoken \cup {[id |-> dialled.id, user |-> Credentials(options),
                                         encrypted |-> dialled.encrypted]}
<1>1. CASE Configure
  BY <1>1, ConfigureEffect DEF TypeOK
<1> QED
  BY <1>1 DEF Next, vars, client, Connect, DialSucceeds, SetUp, IntoSecure, Login,
     TransferType, Store, ConnectFails, Disconnect, Quit, Cancel, Spoil

LEMMA HistoryInvStep ==
    ASSUME TypeOK, DialInv, HistoryInv, [Next]_vars
    PROVE  HistoryInv'
<1>1. stream' # NoSession => stream'.id <= sessions'
  <2>1. CASE stream' \in {stream, NoSession}
    BY <2>1, AskedIsKept, SessionIsSomething DEF HistoryInv, TypeOK
  <2>2. CASE Store /\ stream' = dialled
    BY <2>2, AskedIsKept, SessionIsSomething DEF Store, DialInv, TypeOK
  <2> QED
    BY <2>1, <2>2, StreamEffect
<1>2. \A s \in spoken' : s.id <= sessions'
  <2> SUFFICES ASSUME NEW s \in spoken' PROVE s.id <= sessions'
    OBVIOUS
  <2>1. CASE s \in spoken
    BY <2>1, AskedIsKept DEF HistoryInv, TypeOK, Utterance
  <2>2. CASE pc = "login" /\ s.id = dialled.id
    BY <2>2, AskedIsKept DEF DialInv, TypeOK
  <2> QED
    BY <2>1, <2>2, SpokenEffect
<1> QED
  BY <1>1, <1>2 DEF HistoryInv

(* Credentials are in clear only for a client that never asked otherwise.   *)
LEMMA CredentialsStep ==
    ASSUME TypeOK, DialInv, HistoryInv, CredentialsStayPrivate, [Next]_vars
    PROVE  CredentialsStayPrivate'
<1> SUFFICES ASSUME NEW s \in spoken', asked'[s.id].secure
             PROVE  s.encrypted
  BY DEF CredentialsStayPrivate
<1>1. CASE s \in spoken
  <2>1. asked'[s.id] = asked[s.id]
    BY <1>1, AskedIsKept DEF HistoryInv, TypeOK, Utterance
  <2> QED
    BY <1>1, <2>1 DEF CredentialsStayPrivate
<1>2. CASE /\ pc = "login"
           /\ s = [id |-> dialled.id, user |-> Credentials(options),
                   encrypted |-> dialled.encrypted]
  <2>1. dialled \in Session /\ dialled.id = sessions /\ asked[sessions] = options
    BY <1>2 DEF DialInv, TypeOK
  <2>2. asked'[s.id] = options
    BY <1>2, <2>1, AskedIsKept, SessionIsSomething
  <2> QED
    BY <1>2, <2>2 DEF DialInv
<1> QED
  BY <1>1, <1>2, SpokenEffect

(* The session that is kept is the one that was asked for.                  *)
LEMMA StoredSessionStep ==
    ASSUME TypeOK, DialInv, HistoryInv, StoredSessionIsReady, [Next]_vars
    PROVE  StoredSessionIsReady'
<1>1. CASE stream' = NoSession
  BY <1>1 DEF StoredSessionIsReady
<1>2. CASE stream' = stream /\ stream # NoSession
  <2>1. asked'[stream.id] = asked[stream.id]
    BY <1>2, AskedIsKept, SessionIsSomething DEF HistoryInv, TypeOK
  <2> QED
    BY <1>2, <2>1 DEF StoredSessionIsReady
<1>3. CASE Store /\ stream' = dialled
  <2>1. dialled \in Session /\ dialled.id = sessions /\ asked[sessions] = options
    BY <1>3 DEF Store, DialInv, TypeOK
  <2>2. asked'[stream'.id] = options
    BY <1>3, <2>1, AskedIsKept, SessionIsSomething
  <2> QED
    BY <1>3, <2>2 DEF Store, DialInv, StoredSessionIsReady
<1> QED
  BY <1>1, <1>2, <1>3, StreamEffect

Accepted(s, o) ==
    s.encrypted =>
        /\ s.peer = "untrusted" => o.accept_invalid_certs
        /\ s.peer = "other_host" => o.accept_invalid_hostnames

(* A peer is accepted once, at IntoSecure, under the options of the dial.   *)
LEMMA DialledIsAccepted ==
    ASSUME TypeOK, DialInv, OnlyAcceptedPeers, [Next]_vars, dialled' # NoSession
    PROVE  Accepted(dialled', asked'[dialled'.id])
<1> USE SessionIsSomething DEF Accepted
<1>1. CASE dialled' = dialled
  <2>1. asked'[dialled.id] = asked[dialled.id]
    BY <1>1, DialledIsLast, AskedIsKept
  <2> QED
    BY <1>1, <2>1 DEF OnlyAcceptedPeers
<1>2. CASE DialSucceeds
  <2>1. dialled'.encrypted = FALSE
    BY <1>2 DEF DialSucceeds, Dialled
  <2> QED
    BY <2>1
<1>3. CASE SetUp
  <2>1. dialled \in Session /\ dialled.encrypted = FALSE
    BY <1>3 DEF SetUp, DialInv, TypeOK
  <2>2. dialled' = [dialled EXCEPT !.builder = options.builder, !.mode = options.mode]
    BY <1>3 DEF SetUp
  <2>3. dialled'.encrypted = FALSE
    BY <2>1, <2>2 DEF Session
  <2> QED
    BY <2>3
<1>4. CASE IntoSecure
  <2>1. dialled \in Session /\ dialled.id = sessions /\ asked[sessions] = options
    BY <1>4 DEF IntoSecure, DialInv, TypeOK
  <2>2. PICK peer \in Certificates :
           Accepts(peer) /\ dialled' = [dialled EXCEPT !.encrypted = TRUE, !.peer = peer]
    BY <1>4 DEF IntoSecure
  <2>3. dialled'.peer = peer /\ dialled'.id = sessions
    BY <2>1, <2>2 DEF Session
  <2>4. asked'[sessions] = options
    BY <2>1, AskedIsKept
  <2> QED
    BY <2>2, <2>3, <2>4 DEF Accepts
<1>5. CASE \/ Login /\ dialled' = [dialled EXCEPT !.user = Credentials(options)]
           \/ TransferType
  <2>1. dialled \in Session
    BY <1>5 DEF Login, TransferType, DialInv, TypeOK
  <2>2. \/ dialled' = [dialled EXCEPT !.user = Credentials(options)]
        \/ dialled' = [dialled EXCEPT !.binary = TRUE]
    BY <1>5 DEF TransferType
  <2>3. /\ dialled'.id = dialled.id /\ dialled'.peer = dialled.peer
        /\ dialled'.encrypted = dialled.encrypted
    BY <2>1, <2>2 DEF Session
  <2>4. asked'[dialled.id] = asked[dialled.id]
    BY <2>1, DialledIsLast, AskedIsKept
  <2> QED
    BY <2>1, <2>3, <2>4 DEF OnlyAcceptedPeers
<1>6. CASE Configure
  BY <1>1, <1>6, ConfigureEffect DEF TypeOK, call
<1>7. CASE Store \/ ConnectFails \/ Quit \/ Cancel
  BY <1>7 DEF Store, ConnectFails, Quit, Cancel, Idle
<1> QED
  BY <1>1, <1>2, <1>3, <1>4, <1>5, <1>6, <1>7
     DEF Next, vars, call, Connect, Login, Idle, Disconnect, Spoil

LEMMA AcceptedPeersStep ==
    ASSUME TypeOK, DialInv, HistoryInv, OnlyAcceptedPeers, [Next]_vars
    PROVE  OnlyAcceptedPeers'
<1>1. stream' # NoSession => Accepted(stream', asked'[stream'.id])
  <2>1. CASE stream' = stream /\ stream # NoSession
    <3>1. asked'[stream.id] = asked[stream.id]
      BY <2>1, AskedIsKept, SessionIsSomething DEF HistoryInv, TypeOK
    <3> QED
      BY <2>1, <3>1 DEF OnlyAcceptedPeers, Accepted
  <2>2. CASE Store /\ stream' = dialled
    <3>1. dialled # NoSession /\ asked'[dialled.id] = asked[dialled.id]
      BY <2>2, AskedIsKept, SessionIsSomething DEF Store, DialInv, TypeOK
    <3> QED
      BY <2>2, <3>1 DEF OnlyAcceptedPeers, Accepted
  <2> QED
    BY <2>1, <2>2, StreamEffect
<1> QED
  BY <1>1, DialledIsAccepted DEF OnlyAcceptedPeers, Accepted

(* The copies change with the stream, and it is absent during a dial.       *)
LEMMA CopiesStep ==
    ASSUME TypeOK, DialInv, CopiesMatchStream, OneSessionAtATime, [Next]_vars
    PROVE  CopiesMatchStream' /\ OneSessionAtATime'
<1> USE DEF CopiesMatchStream, OneSessionAtATime
<1>1. CASE Configure
  BY <1>1, ConfigureEffect DEF TypeOK, client, call
<1>2. CASE Connect
  BY <1>2 DEF Connect, TypeOK
<1>3. CASE Store
  <2>1. dialled # NoSession
    BY <1>3 DEF Store, DialInv
  <2> QED
    BY <1>3, <2>1 DEF Store, Idle
<1>4. CASE Disconnect
  BY <1>4 DEF Disconnect
<1>5. CASE Quit
  BY <1>5 DEF Quit, Idle
<1>6. CASE Spoil
  BY <1>6 DEF Spoil, call
<1>7. CASE DialSucceeds \/ SetUp \/ IntoSecure \/ Login \/ TransferType
  BY <1>7 DEF DialSucceeds, SetUp, IntoSecure, Login, TransferType, Idle, client
<1>8. CASE ConnectFails \/ Cancel
  BY <1>8 DEF ConnectFails, Cancel, Idle, client
<1>9. CASE UNCHANGED vars
  BY <1>9 DEF vars, client, call
<1> QED
  BY <1>1, <1>2, <1>3, <1>4, <1>5, <1>6, <1>7, <1>8, <1>9 DEF Next

-----------------------------------------------------------------------------
(* The theorems.                                                           *)

LEMMA IInvInit == Init => IInv
<1> SUFFICES ASSUME Init PROVE IInv
  OBVIOUS
<1>1. Defaults \in OptionSets
  BY DEF Defaults, OptionSets
<1>2. TypeOK
  <2>1. asked \in [1..MaxSessions -> OptionSets]
    BY <1>1 DEF Init
  <2>2. sessions \in 0..MaxSessions
    BY ConnectAssumption DEF Init
  <2> QED
    BY <1>1, <2>1, <2>2 DEF Init, TypeOK, NoBanner
<1>3. DialInv
  BY SessionIsSomething DEF Init, DialInv
<1> QED
  BY <1>2, <1>3 DEF Init, IInv, HistoryInv, CredentialsStayPrivate, StoredSessionIsReady,
     OnlyAcceptedPeers, CopiesMatchStream, OneSessionAtATime

LEMMA IInvStep == IInv /\ [Next]_vars => IInv'
BY DialInvStep, HistoryInvStep, CredentialsStep, StoredSessionStep, AcceptedPeersStep,
   CopiesStep DEF IInv

LEMMA IInvAlways == Spec => []IInv
BY IInvInit, IInvStep, PTL DEF Spec

(* Every variable keeps its type, whatever order of builder calls, dials    *)
(* and failures.                                                           *)
THEOREM TypeCorrect == Spec => []TypeOK
BY IInvAlways, PTL DEF IInv

(* After any number of failed or abandoned attempts a client asked to be    *)
(* secure has sent no credentials before TLS was there.                    *)
THEOREM NoCredentialsInClear == Spec => []CredentialsStayPrivate
BY IInvAlways, PTL DEF IInv

(* What connect() stores has been through all of its exchanges.            *)
THEOREM OnlyCompleteSessions == Spec => []StoredSessionIsReady
BY IInvAlways, PTL DEF IInv

(* No peer is accepted that the options of the dial did not waive.         *)
THEOREM NoUnwaivedPeer == Spec => []OnlyAcceptedPeers
BY IInvAlways, PTL DEF IInv

(* connected and the banner follow the stream through failures and drops of *)
(* connect() and disconnect().                                             *)
THEOREM CopiesFollowTheStream == Spec => []CopiesMatchStream
BY IInvAlways, PTL DEF IInv

(* No second session is dialled beside one that is kept.                   *)
THEOREM NoSecondSession == Spec => []OneSessionAtATime
BY IInvAlways, PTL DEF IInv
=============================================================================
