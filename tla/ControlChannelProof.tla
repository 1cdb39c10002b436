------------------------- MODULE ControlChannelProof -------------------------
(***************************************************************************)
(* What the two clients rely on about the operators they share.  About     *)
(* ControlChannel: an answer that puts the channel out of step is an error *)
(* that asks for a reconnect or was marked by the builder's hook, an error *)
(* that asks for a reconnect is a fault of the other side, and only REST   *)
(* touches the restart marker while no transfer starts.  About ReadStream: *)
(* the types of its parts.                                                 *)
(***************************************************************************)
EXTENDS ControlChannel, ReadStream, TLAPS

(* The three facts kept about a connection are independent of each other.  *)
LEMMA ChannelFields ==
    ASSUME NEW c \in Channel
    PROVE  c.synced \in BOOLEAN /\ c.marker \in BOOLEAN /\ c.fault \in BOOLEAN
BY DEF Channel

(* ChannelState builds a state with the facts it is given.                 *)
LEMMA StateFields ==
    ASSUME NEW s \in BOOLEAN, NEW m \in BOOLEAN, NEW f \in BOOLEAN
    PROVE  /\ ChannelState(s, m, f) \in Channel
           /\ ChannelState(s, m, f).synced = s
           /\ ChannelState(s, m, f).marker = m
           /\ ChannelState(s, m, f).fault = f
BY DEF Channel, ChannelState

(* A failure that leaves the replies in step changes only the history.     *)
LEMMA FaultyChannel ==
    ASSUME NEW c \in Channel
    PROVE  /\ Faulty(c) \in Channel
           /\ Faulty(c).synced = c.synced
           /\ Faulty(c).marker = c.marker
           /\ Faulty(c).fault
BY ChannelFields, StateFields DEF Faulty

(* Losing step keeps the restart marker where it is.                       *)
LEMMA OutOfStepChannel ==
    ASSUME NEW c \in Channel
    PROVE  /\ OutOfStep(c) \in Channel
           /\ OutOfStep(c).synced = FALSE
           /\ OutOfStep(c).marker = c.marker
           /\ OutOfStep(c).fault
BY ChannelFields, StateFields DEF OutOfStep

(* REST sets or clears the marker and nothing else.                        *)
LEMMA WithMarkerChannel ==
    ASSUME NEW c \in Channel, NEW m \in BOOLEAN
    PROVE  /\ WithMarker(c, m) \in Channel
           /\ WithMarker(c, m).synced = c.synced
           /\ WithMarker(c, m).marker = m
           /\ WithMarker(c, m).fault = c.fault
BY ChannelFields, StateFields DEF WithMarker

(* connect() starts on a connection in step, with no marker.               *)
LEMMA FreshChannel == Fresh \in Channel /\ Fresh.synced = TRUE /\ Fresh.marker = FALSE
BY StateFields DEF Fresh

(* A lost reply puts the channel out of step and says so.                  *)
LEMMA LostAnswers ==
    ASSUME NEW c, NEW a \in Lost(c)
    PROVE  /\ a.chan = OutOfStep(c)
           /\ a.err \in FtpError
           /\ TransferSetupRequiresReconnect(a.err)
           /\ a.hook = FALSE
<1>1. PICK e \in {"ConnectionError", "BadResponse", "r421"} : a = Answer(e, OutOfStep(c))
  BY DEF Lost
<1>2. a.err = e /\ a.chan = OutOfStep(c) /\ a.hook = FALSE
  BY <1>1 DEF Answer
<1>3. e \in FtpError /\ TransferSetupRequiresReconnect(e)
  BY <1>1 DEF FtpError, TransportFailures, LibraryFailures, ReplyCodes,
              TransferSetupRequiresReconnect
<1> QED
  BY <1>2, <1>3

(* Reading somebody else's reply may answer anything, and mends nothing.    *)
LEMMA StrayAnswers ==
    ASSUME NEW c, NEW a \in Stray(c)
    PROVE  /\ a.chan = Faulty(c)
           /\ a.err \in FtpError \cup {Success}
           /\ a.hook = FALSE
<1>1. PICK e \in FtpError \cup {Success} : a = Answer(e, Faulty(c))
  BY DEF Stray
<1>2. a.err = e /\ a.chan = Faulty(c) /\ a.hook = FALSE
  BY <1>1 DEF Answer
<1> QED
  BY <1>1, <1>2

(* transfer_setup_requires_reconnect is asked about errors only.           *)
LEMMA SuccessIsNoError == Success \notin FtpError /\ ~TransferSetupRequiresReconnect(Success)
BY DEF Success, FtpError, TransportFailures, LibraryFailures, ReplyCodes,
       TransferSetupRequiresReconnect

(* A complete refusal other than 421 leaves the channel usable.            *)
LEMMA PlainRefusals ==
    ASSUME NEW e \in ReplyCodes \ {"r421"}
    PROVE  ~TransferSetupRequiresReconnect(e)
BY DEF ReplyCodes, TransferSetupRequiresReconnect, TransportFailures, LibraryFailures

(* The replies and failures the model names are errors of suppaftp.        *)
LEMMA ErrorNames ==
    /\ Refusals \subseteq FtpError
    /\ {"ConnectionError", "SecureError", "InvalidAddress", "BadResponse", "r425",
        "r426", "r451", "r502", "r550"} \subseteq FtpError
    /\ TransferSetupRequiresReconnect("SecureError")
    /\ \A e \in Refusals \cup {"r502"} : ~TransferSetupRequiresReconnect(e)
BY DEF Refusals, FtpError, TransportFailures, LibraryFailures, ReplyCodes,
       TransferSetupRequiresReconnect

(* One command, as run_command sends it: a client that records what        *)
(* transfer_setup_requires_reconnect says has recorded every loss of step. *)
LEMMA CommandAnswers ==
    ASSUME NEW c \in Channel, NEW a \in Command(c)
    PROVE  /\ a.chan \in Channel
           /\ a.err \in FtpError \cup {Success}
           /\ a.chan.marker = c.marker
           /\ c.synced => a.chan.synced \/ TransferSetupRequiresReconnect(a.err)
           /\ c.fault \/ TransferSetupRequiresReconnect(a.err) => a.chan.fault
<1>1. CASE ~c.synced
  BY <1>1, StrayAnswers, FaultyChannel DEF Command
<1>2. CASE c.synced /\ a \in Lost(c)
  BY <1>2, LostAnswers, OutOfStepChannel
<1>3. CASE \E e \in Refusals \cup {Success} : a = Answer(e, c)
  <2>1. PICK e \in Refusals \cup {Success} : a = Answer(e, c)
    BY <1>3
  <2>2. a.err = e /\ a.chan = c
    BY <2>1 DEF Answer
  <2> QED
    BY <2>1, <2>2, ErrorNames, SuccessIsNoError
<1> QED
  BY <1>1, <1>2, <1>3 DEF Command

(* REST n, sent by request_offset: only an accepted one sets the marker.   *)
LEMMA SetMarkerAnswers ==
    ASSUME NEW c \in Channel, NEW a \in SetMarker(c)
    PROVE  /\ a.chan \in Channel
           /\ a.err \in FtpError \cup {Success}
           /\ a.err # Success => a.chan.marker = c.marker
           /\ c.synced /\ a.err = Success => a.chan.marker
           /\ c.fault \/ TransferSetupRequiresReconnect(a.err) => a.chan.fault
           /\ c.synced => a.chan.synced \/ TransferSetupRequiresReconnect(a.err)
<1>1. CASE ~c.synced
  BY <1>1, StrayAnswers, FaultyChannel DEF SetMarker
<1>2. CASE c.synced /\ a \in Lost(c)
  BY ZenonT(60), <1>2, LostAnswers, OutOfStepChannel, SuccessIsNoError
<1>3. CASE a = Answer(Success, WithMarker(c, TRUE))
  <2>1. a.err = Success /\ a.chan = WithMarker(c, TRUE)
    BY <1>3 DEF Answer
  <2> QED
    BY <2>1, WithMarkerChannel, SuccessIsNoError
<1>4. CASE a = Answer("r502", c)
  <2>1. a.err = "r502" /\ a.chan = c
    BY <1>4 DEF Answer
  <2> QED
    BY <2>1, ErrorNames, SuccessIsNoError
<1> QED
  BY <1>1, <1>2, <1>3, <1>4 DEF SetMarker

(* REST 0 succeeds only on a channel in step, and leaves no marker.         *)
LEMMA ClearMarkerAnswers ==
    ASSUME NEW c \in Channel, NEW a \in ClearMarker(c)
    PROVE  /\ a.chan \in Channel
           /\ a.err \in FtpError \cup {Success}
           /\ a.err = Success => a.chan.synced /\ ~a.chan.marker
           /\ a.err # Success => a.chan.marker = c.marker
           /\ c.fault \/ TransferSetupRequiresReconnect(a.err) => a.chan.fault
<1>1. CASE ~c.synced
  <2>1. PICK e \in FtpError : a = Answer(e, Faulty(c))
    BY <1>1 DEF ClearMarker
  <2>2. a.err = e /\ a.chan = Faulty(c)
    BY <2>1 DEF Answer
  <2> QED
    BY <2>1, <2>2, FaultyChannel, SuccessIsNoError
<1>2. CASE c.synced /\ a \in Lost(c)
  BY <1>2, LostAnswers, OutOfStepChannel, SuccessIsNoError
<1>3. CASE c.synced /\ a = Answer(Success, WithMarker(c, FALSE))
  <2>1. a.err = Success /\ a.chan = WithMarker(c, FALSE)
    BY <1>3 DEF Answer
  <2> QED
    BY <1>3, <2>1, WithMarkerChannel, SuccessIsNoError
<1>4. CASE a = Answer("r502", c)
  <2>1. a.err = "r502" /\ a.chan = c
    BY <1>4 DEF Answer
  <2> QED
    BY <2>1, ErrorNames, SuccessIsNoError
<1> QED
  BY <1>1, <1>2, <1>3, <1>4 DEF ClearMarker

(* RETR, STOR, APPE, LIST: the same, but that the hook has to mark the     *)
(* failure of a builder; and an accepted one uses up the restart marker.   *)
LEMMA DataCommandAnswers ==
    ASSUME NEW c \in Channel, NEW a \in DataCommand(c)
    PROVE  /\ a.chan \in Channel
           /\ a.err \in FtpError \cup {Success}
           /\ a.hook \in BOOLEAN
           /\ a.err # Success => a.chan.marker = c.marker
           /\ a.chan.marker => c.marker
           /\ c.fault \/ a.hook \/ TransferSetupRequiresReconnect(a.err) => a.chan.fault
           /\ c.synced => /\ a.chan.synced \/ a.hook \/ TransferSetupRequiresReconnect(a.err)
                          /\ a.err = Success => a.chan.synced /\ ~a.chan.marker
<1>1. CASE ~c.synced
  BY <1>1, StrayAnswers, FaultyChannel DEF DataCommand
<1>2. CASE c.synced /\ a \in Lost(c)
  BY <1>2, LostAnswers, OutOfStepChannel, SuccessIsNoError
<1>3. CASE c.synced /\ a = Answer(Success, WithMarker(c, FALSE))
  <2>1. a.err = Success /\ a.chan = WithMarker(c, FALSE) /\ a.hook = FALSE
    BY <1>3 DEF Answer
  <2> QED
    BY <1>3, <2>1, WithMarkerChannel, SuccessIsNoError
<1>4. CASE \E e \in Refusals : a = Answer(e, c)
  <2>1. PICK e \in Refusals : a = Answer(e, c)
    BY <1>4
  <2>2. a.err = e /\ a.chan = c /\ a.hook = FALSE
    BY <2>1 DEF Answer
  <2> QED
    BY <2>1, <2>2, ErrorNames, SuccessIsNoError
<1>5. CASE \E e \in {"ConnectionError", "InvalidAddress", "BadResponse", "r425"} :
              a = Answer(e, Faulty(c))
  <2>1. PICK e \in {"ConnectionError", "InvalidAddress", "BadResponse", "r425"} :
             a = Answer(e, Faulty(c))
    BY <1>5
  <2>2. a.err = e /\ a.chan = Faulty(c) /\ a.hook = FALSE
    BY <2>1 DEF Answer
  <2>3. e \in FtpError
    BY <2>1, ErrorNames
  <2> QED
    BY <2>2, <2>3, FaultyChannel, SuccessIsNoError
<1>6. CASE \E e \in {"ConnectionError", "r550"} :
              a = BuilderFailed(e, Faulty(c)) \/ a = BuilderFailed(e, OutOfStep(c))
  <2>1. PICK e \in {"ConnectionError", "r550"}, d \in {Faulty(c), OutOfStep(c)} :
             a = BuilderFailed(e, d)
    BY <1>6
  <2>2. a.err = e /\ a.chan = d /\ a.hook = TRUE
    BY <2>1 DEF BuilderFailed
  <2>3. e \in FtpError
    BY <2>1, ErrorNames
  <2>4. d \in Channel /\ d.marker = c.marker /\ d.fault
    BY <2>1, FaultyChannel, OutOfStepChannel
  <2> QED
    BY <2>2, <2>3, <2>4, SuccessIsNoError
<1>7. CASE a = Answer("SecureError", OutOfStep(c))
  <2>1. a.err = "SecureError" /\ a.chan = OutOfStep(c) /\ a.hook = FALSE
    BY <1>7 DEF Answer
  <2> QED
    BY <2>1, ErrorNames, OutOfStepChannel, SuccessIsNoError
<1> QED
  BY <1>1, <1>2, <1>3, <1>4, <1>5, <1>6, <1>7 DEF DataCommand

(* TransferStream::finish: a completion that succeeds leaves the replies   *)
(* in step, so release() after a success needs no invalidation.            *)
LEMMA CompletionAnswers ==
    ASSUME NEW c \in Channel, NEW unread \in BOOLEAN, NEW a \in Completion(c, unread)
    PROVE  /\ a.chan \in Channel
           /\ a.err \in FtpError \cup {Success}
           /\ a.chan.marker = c.marker
           /\ c.synced => a.chan.synced \/ a.err # Success
           /\ c.fault => a.chan.fault
           /\ a.err # Success => a.chan.fault \/ unread
<1> DEFINE Half == ChannelState(FALSE, c.marker, c.fault)
<1>0. Half \in Channel /\ Half.synced = FALSE /\ Half.marker = c.marker /\ Half.fault = c.fault
  BY DEF Channel, ChannelState
<1>1. CASE ~c.synced
  BY <1>1, StrayAnswers, FaultyChannel DEF Completion
<1>2. CASE c.synced /\ a \in Lost(c)
  BY <1>2, LostAnswers, OutOfStepChannel, SuccessIsNoError
<1>3. CASE a = Answer(Success, c)
  <2>1. a.err = Success /\ a.chan = c
    BY <1>3 DEF Answer
  <2> QED
    BY <2>1
<1>4. CASE unread /\ a = Answer("r426", Half)
  <2>1. a.err = "r426" /\ a.chan = Half
    BY <1>4 DEF Answer
  <2> HIDE DEF Half
  <2> QED
    BY <1>4, <2>1, <1>0, ErrorNames, SuccessIsNoError
<1>5. CASE a = Answer("r426", OutOfStep(c))
  <2>1. a.err = "r426" /\ a.chan = OutOfStep(c)
    BY <1>5 DEF Answer
  <2> QED
    BY <2>1, OutOfStepChannel, ErrorNames, SuccessIsNoError
<1>6. CASE \E e \in {"r426", "r451"} : a = Answer(e, Faulty(c))
  <2>1. PICK e \in {"r426", "r451"} : a = Answer(e, Faulty(c))
    BY <1>6
  <2>2. a.err = e /\ a.chan = Faulty(c)
    BY <2>1 DEF Answer
  <2>3. e \in FtpError
    BY <2>1, ErrorNames
  <2> QED
    BY <2>2, <2>3, FaultyChannel, SuccessIsNoError
<1> QED
  BY <1>1, <1>2, <1>3, <1>4, <1>5, <1>6 DEF Completion, ClosedEarly, ReadToTheEnd

(* For an error that ftp_error made, the chain walk of                     *)
(* remote_error_requires_reconnect gives the same verdict as the error.    *)
LEMMA FirstCause ==
    ASSUME NEW e \in FtpError
    PROVE  RemoteErrorRequiresReconnect(FromFtp(e)) <=> TransferSetupRequiresReconnect(e)
<1>1. /\ DOMAIN FromFtp(e).source = {1}
      /\ FromFtp(e).source[1] = e
  BY DEF FromFtp, RemoteError
<1>2. FirstFtpAt(FromFtp(e), 1)
  BY <1>1 DEF FirstFtpAt
<1> QED
  BY <1>1, <1>2 DEF RemoteErrorRequiresReconnect

(* A dropped future leaves the connection as it was or out of step.        *)
LEMMA AbandonedChannel ==
    ASSUME NEW c \in Channel, NEW d \in Abandoned(c)
    PROVE  d \in Channel
<1>1. CASE d = c
  BY <1>1
<1>2. CASE \E m \in BOOLEAN : d = ChannelState(FALSE, m, c.fault)
  <2>1. PICK m \in BOOLEAN : d = ChannelState(FALSE, m, c.fault)
    BY <1>2
  <2>2. c.fault \in BOOLEAN
    BY ChannelFields
  <2>3. ChannelState(FALSE, m, c.fault) \in Channel
    BY <2>2, StateFields
  <2> QED
    BY <2>1, <2>3
<1> QED
  BY <1>1, <1>2 DEF Abandoned

(* A dropped transfer stream costs the step only with data unread.         *)
LEMMA DeferredChannel ==
    ASSUME NEW c \in Channel, NEW unread \in BOOLEAN, NEW d \in Deferred(c, unread)
    PROVE  /\ d \in Channel
           /\ d.marker = c.marker
           /\ d = c \/ unread
<1>1. CASE d = c
  BY <1>1
<1>2. CASE unread /\ d = ChannelState(FALSE, c.marker, c.fault)
  BY <1>2, ChannelFields, StateFields
<1> QED
  BY <1>1, <1>2 DEF Deferred

(* transfer_setup_requires_reconnect decides every error one way.          *)
LEMMA ReconnectVerdict ==
    ASSUME NEW e
    PROVE  TransferSetupRequiresReconnect(e) \in BOOLEAN
BY DEF TransferSetupRequiresReconnect

-----------------------------------------------------------------------------
(* The fields of a transfer stream.                                        *)

(* Info builds a well-typed transfer stream from well-typed parts.         *)
LEMMA InfoType ==
    ASSUME NEW dir \in {"read", "write"}, NEW w \in 0..1, NEW pos \in Nat,
           NEW tail \in 0..1, NEW remaining \in 0..Unlimited, NEW eof \in BOOLEAN
    PROVE  Info(dir, w, pos, tail, remaining, eof) \in HandleInfo
BY DEF Info, HandleInfo, Unlimited

(* A handle that names no stream has a well-typed place for one.           *)
LEMMA NoInfoType == NoInfo \in HandleInfo
BY DEF Info, NoInfo, HandleInfo, Unlimited

(* The parts of a well-typed transfer stream.                              *)
LEMMA InfoFields ==
    ASSUME NEW i \in HandleInfo
    PROVE  /\ i.dir \in {"read", "write"} /\ i.want \in 0..1 /\ i.pos \in Nat
           /\ i.tail \in 0..1 /\ i.remaining \in 0..Unlimited /\ i.eof \in BOOLEAN
BY DEF HandleInfo, Unlimited

(* read_limited subtracts what it read from the budget, and never more.     *)
LEMMA AfterReadType ==
    ASSUME NEW i \in HandleInfo
    PROVE  AfterRead(i) \in HandleInfo
<1>1. i.tail - Readable(i) \in 0..1
  BY InfoFields DEF Readable
<1>2. Spend(i.remaining, Readable(i)) \in 0..Unlimited
  BY InfoFields DEF Readable, Spend, Unlimited
<1> QED
  BY <1>1, <1>2, InfoFields, InfoType DEF AfterRead, AfterReading
=============================================================================
