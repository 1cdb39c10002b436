----------------------------- MODULE FtpErrors -----------------------------
(***************************************************************************)
(* How client/error.rs classifies the failures of suppaftp.                *)
(*                                                                         *)
(* An FtpError is a string: one of the failures of the transport or of the *)
(* library, or "r<code>" for UnexpectedResponse with that reply code.  A   *)
(* RemoteError is a record [kind, source] whose source is the chain that   *)
(* std::error::Error::source walks, outermost first; wrappers that are not *)
(* an FtpError appear in the chain as members of Wrappers.                 *)
(***************************************************************************)
EXTENDS Naturals, Sequences

Success == "Ok"

TransportFailures == {"ConnectionError", "SecureError"}

LibraryFailures == {"InvalidAddress", "BadResponse", "DataConnectionAlreadyOpen"}

(* The reply codes error.rs tells apart, and r451 for every other code. *)
ReplyCodes == {"r421", "r425", "r426", "r451", "r500", "r501", "r502", "r504",
               "r530", "r532", "r550", "r553"}

FtpError == TransportFailures \cup LibraryFailures \cup ReplyCodes

Wrappers == {"RemoteError", "ListCleanupFailure"}

RemoteErrorType == {"ConnectionError", "AuthenticationFailed", "PermissionDenied",
                    "NoSuchFileOrDirectory", "UnsupportedFeature", "BadAddress",
                    "ProtocolError"}

RemoteError(kind, source) == [kind |-> kind, source |-> source]

(* The kind a refusing reply code is reported as. *)
StatusKinds ==
    [code \in ReplyCodes |->
        IF code \in {"r421", "r425", "r426"} THEN "ConnectionError"
        ELSE IF code = "r530" THEN "AuthenticationFailed"
        ELSE IF code \in {"r532", "r553"} THEN "PermissionDenied"
        ELSE IF code = "r550" THEN "NoSuchFileOrDirectory"
        ELSE IF code \in {"r500", "r501", "r502", "r504"} THEN "UnsupportedFeature"
        ELSE "ProtocolError"]

FtpErrorKinds ==
    [err \in FtpError |->
        IF err \in TransportFailures THEN "ConnectionError"
        ELSE IF err = "InvalidAddress" THEN "BadAddress"
        ELSE IF err \in ReplyCodes THEN StatusKinds[err]
        ELSE "ProtocolError"]

FromFtp(err) == RemoteError(FtpErrorKinds[err], <<err>>)

(* Only a refusal the server answered with a complete reply, other than    *)
(* the 421 that closes the service, leaves the channel in step.            *)
TransferSetupRequiresReconnect(err) ==
    err \in TransportFailures \cup LibraryFailures \cup {"r421"}

(* err.source[i] is the first FtpError of the chain. *)
FirstFtpAt(err, i) ==
    /\ i \in DOMAIN err.source
    /\ err.source[i] \in FtpError
    /\ \A j \in DOMAIN err.source : j < i => err.source[j] \notin FtpError

RemoteErrorRequiresReconnect(err) ==
    \/ \E i \in DOMAIN err.source :
          FirstFtpAt(err, i) /\ TransferSetupRequiresReconnect(err.source[i])
    \/ /\ err.kind = "ConnectionError"
       /\ \A i \in DOMAIN err.source : err.source[i] \notin FtpError

IsFileUnavailable(err) == err = "r550"

IsCreationRefusal(err) == err \in {"r550", "r553"}

(* The first UnexpectedResponse of the chain is a 550. *)
IsAmbiguousPathRefusal(err) ==
    \E i \in DOMAIN err.source :
        /\ err.source[i] = "r550"
        /\ \A j \in DOMAIN err.source : j < i => err.source[j] \notin ReplyCodes

AmbiguousPathPermission(err) ==
    RemoteError("PermissionDenied", <<"RemoteError">> \o err.source)

(* Both halves of a LIST failed: the kind is the read's, the chain follows *)
(* the completion reply.                                                   *)
ListCleanupFailure(read, finish) ==
    RemoteError(read.kind, <<"ListCleanupFailure", "RemoteError">> \o finish.source)
=============================================================================
