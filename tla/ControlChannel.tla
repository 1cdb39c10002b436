--------------------------- MODULE ControlChannel ---------------------------
(***************************************************************************)
(* The control connection as the clients see it through suppaftp: the      *)
(* library, the network and the server, none of which is in this           *)
(* repository.  An operator maps the state of the channel to the set of    *)
(* answers a call can return, each with the state it leaves behind.        *)
(*                                                                         *)
(*   synced   the next reply read from the socket belongs to the next      *)
(*            command sent, and the server has not announced its shutdown. *)
(*            Once lost it stays lost: every later reply is off by one.    *)
(*   marker   the server holds a restart marker (REST n, n > 0) that the   *)
(*            next RETR, or any other transfer command, will obey.         *)
(*   fault    history: the server, the network or the passive stream       *)
(*            builder has failed on this connection.  A refusal (550, 502) *)
(*            is not a fault.                                              *)
(***************************************************************************)
EXTENDS FtpErrors

Channel == [synced : BOOLEAN, marker : BOOLEAN, fault : BOOLEAN]

ChannelState(synced, marker, fault) ==
    [synced |-> synced, marker |-> marker, fault |-> fault]

Fresh == ChannelState(TRUE, FALSE, FALSE)

Faulty(c) == ChannelState(c.synced, c.marker, TRUE)

OutOfStep(c) == ChannelState(FALSE, c.marker, TRUE)

WithMarker(c, set) == ChannelState(c.synced, set, c.fault)

(* hook: the passive stream builder was called and failed.                 *)
Answer(err, c) == [err |-> err, chan |-> c, hook |-> FALSE]

BuilderFailed(err, c) == [err |-> err, chan |-> c, hook |-> TRUE]

(* Complete replies by which a healthy server refuses a command.           *)
Refusals == {"r502", "r550", "r553"}

(* The reply never came, came garbled, or announced the end of service.    *)
Lost(c) == {Answer(e, OutOfStep(c)) : e \in {"ConnectionError", "BadResponse", "r421"}}

(* What a command reads from a channel that is out of step: an answer to   *)
(* some other command, or none.                                            *)
Stray(c) == {Answer(e, Faulty(c)) : e \in FtpError \cup {Success}}

(* A command with a single reply: MKD, DELE, RMD, RNFR/RNTO, SITE, QUIT.   *)
Command(c) ==
    IF c.synced
    THEN {Answer(Success, c)} \cup {Answer(e, c) : e \in Refusals} \cup Lost(c)
    ELSE Stray(c)

(* REST n with n > 0.                                                      *)
SetMarker(c) ==
    IF c.synced
    THEN {Answer(Success, WithMarker(c, TRUE)), Answer("r502", c)} \cup Lost(c)
    ELSE Stray(c)

(* REST 0.  The only command a client sends after an error that may have   *)
(* put the channel out of step: it then reads what is left of the transfer *)
(* command before it, which is never the 350 that resume_transfer accepts. *)
(* Assumed: a server that answered the RETR with 421 does not then accept  *)
(* REST 0.  If one did, open() would retry and never record the 421.       *)
ClearMarker(c) ==
    IF c.synced
    THEN {Answer(Success, WithMarker(c, FALSE)), Answer("r502", c)} \cup Lost(c)
    ELSE {Answer(e, Faulty(c)) : e \in FtpError}

(* Negotiating a data connection and sending RETR, STOR, APPE or LIST on   *)
(* it.  A refused transfer command leaves the restart marker in place, and *)
(* so does one whose refusal was read to its end but not understood.  The  *)
(* builder of passive streams fails with an error of its own making, which *)
(* need not ask for a reconnect, before the command is sent or after it:   *)
(* then the command's reply is left unread.                                *)
DataCommand(c) ==
    IF c.synced
    THEN {Answer(Success, WithMarker(c, FALSE))}
         \cup {Answer(e, c) : e \in Refusals}
         \cup {Answer(e, Faulty(c)) :
                  e \in {"ConnectionError", "InvalidAddress", "BadResponse", "r425"}}
         \cup {BuilderFailed(e, Faulty(c)) : e \in {"ConnectionError", "r550"}}
         \cup {BuilderFailed(e, OutOfStep(c)) : e \in {"ConnectionError", "r550"}}
         \cup {Answer("SecureError", OutOfStep(c))}
         \cup Lost(c)
    ELSE Stray(c)

(* TransferStream::finish closes the data socket and reads one reply.      *)
(* Closing it with data still unread makes a healthy server send 426 and   *)
(* then 226 unless everything was already in flight; a failing server may  *)
(* do the same, or send a single error reply.                              *)
ClosedEarly(c) ==
    {Answer(Success, c), Answer("r426", ChannelState(FALSE, c.marker, c.fault))} \cup Lost(c)

ReadToTheEnd(c) ==
    {Answer(Success, c), Answer("r426", OutOfStep(c))}
    \cup {Answer(e, Faulty(c)) : e \in {"r426", "r451"}}
    \cup Lost(c)

Completion(c, unread) ==
    IF c.synced
    THEN IF unread THEN ClosedEarly(c) ELSE ReadToTheEnd(c)
    ELSE Stray(c)

(* The future of a command is dropped: nothing was sent yet, or the reply   *)
(* it would have read is left for the next command to find.                *)
Abandoned(c) == {c} \cup {ChannelState(FALSE, m, c.fault) : m \in BOOLEAN}

(* A transfer stream is dropped without finish: the next command first     *)
(* reads one deferred reply, which is one too few when the server saw the  *)
(* socket close with data unread.                                          *)
Deferred(c, unread) ==
    IF unread THEN {c, ChannelState(FALSE, c.marker, c.fault)} ELSE {c}
=============================================================================
