---------------------------- MODULE TransferEnd ----------------------------
(***************************************************************************)
(* How a transfer ends and what its caller is told: finish_read,           *)
(* finish_write, finish_after_skip and read_list_bytes, the same in both    *)
(* clients.                                                                *)
(*                                                                         *)
(* Up to two things go wrong: something local -- skipping a prefix, the    *)
(* drain of a download, the flush of an upload, reading a listing -- and    *)
(* then the completion reply.  The error returned keeps both; every        *)
(* wrapper's source() is the completion's error, its kind is chosen case by *)
(* case.                                                                   *)
(***************************************************************************)
EXTENDS FtpErrors

VARIABLES
    transfer,           \* what kind of transfer is ending
    pc,
    skip, local,        \* what the prefix skip and the drain, flush or read said
    completion,         \* what TransferStream::finish said
    report,             \* what the caller, or the log, is told
    active, usable      \* transfer_active, connection_usable

vars == <<transfer, pc, skip, local, completion, report, active, usable>>

Transfers == {"read", "read_at_eof", "skip", "write", "list"}

Ok == RemoteError("Ok", <<>>)

(* RemoteError::from(io::Error): no FtpError in the chain, a kind of        *)
(* remotefs' choosing.                                                     *)
IoErrors == {RemoteError(kind, <<"io">>) : kind \in {"ConnectionError", "ProtocolError"}}

(* Of an upload's failures the completion's tells the kind, of a            *)
(* download's or listing's the earlier one.                                *)
Wrap(name, kind, finish) == RemoteError(kind, <<name, "RemoteError">> \o finish.source)

(* Variant: WriteCleanupFailure leads on to the flush.                      *)
CombineFollowsFlush(first, finish) ==
    IF first = Ok THEN finish
    ELSE IF finish = Ok THEN first
    ELSE IF transfer = "list" THEN ListCleanupFailure(first, finish)
    ELSE IF transfer = "write" THEN Wrap("WriteCleanupFailure", finish.kind, first)
    ELSE Wrap("CleanupFailure", first.kind, finish)

(* Variant: the second failure replaces the first.                          *)
CombineLastWins(first, finish) == IF finish = Ok THEN first ELSE finish

Combine(first, finish) ==
    IF first = Ok THEN finish
    ELSE IF finish = Ok THEN first
    ELSE IF transfer = "list" THEN ListCleanupFailure(first, finish)
    ELSE IF transfer = "write" THEN Wrap("WriteCleanupFailure", finish.kind, finish)
    ELSE Wrap("CleanupFailure", first.kind, finish)

CombineSkip(finished) ==
    IF finished = Ok THEN skip ELSE Wrap("SkipCleanupFailure", skip.kind, finished)

-----------------------------------------------------------------------------
Init ==
    /\ transfer \in Transfers
    /\ pc = "local"
    /\ skip \in IF transfer = "skip" THEN IoErrors ELSE {Ok}
    /\ local = Ok /\ completion = Ok /\ report = Ok
    /\ active = TRUE /\ usable = TRUE

(* A download at its end has nothing to drain.  read_to_end of a listing    *)
(* makes an FtpError of what goes wrong.                                   *)
Local ==
    /\ pc = "local"
    /\ local' \in {Ok} \cup CASE transfer = "read_at_eof" -> {}
                              [] transfer = "list" -> {FromFtp("ConnectionError")}
                              [] OTHER -> IoErrors
    /\ pc' = "finish"
    /\ UNCHANGED <<transfer, skip, completion, report, active, usable>>

(* The completion reply is read whatever came before.                       *)
Finish ==
    /\ pc = "finish"
    /\ completion' \in {Ok} \cup {FromFtp(e) : e \in FtpError}
    /\ pc' = "mark"
    /\ UNCHANGED <<transfer, skip, local, report, active, usable>>

(* Variant: only a failure that by itself asks for it costs the connection. *)
MarkByVerdict ==
    /\ pc = "mark"
    /\ usable' = (usable /\ ~RemoteErrorRequiresReconnect(Combine(local, completion)))
    /\ pc' = "report"
    /\ UNCHANGED <<transfer, skip, local, completion, report, active>>

(* invalidate, or list_dir_raw's mark: before the guard falls.              *)
Mark ==
    /\ pc = "mark"
    /\ usable' = (usable /\ Combine(local, completion) = Ok)
    /\ pc' = "report"
    /\ UNCHANGED <<transfer, skip, local, completion, report, active>>

(* with_exclusive_stream looks at a listing's error once more.              *)
Report ==
    /\ pc = "report"
    /\ report' = IF transfer = "skip" THEN CombineSkip(Combine(local, completion))
                 ELSE Combine(local, completion)
    /\ usable' = (usable /\ ~(transfer = "list" /\ RemoteErrorRequiresReconnect(report')))
    /\ active' = FALSE
    /\ pc' = "done"
    /\ UNCHANGED <<transfer, skip, local, completion>>

Next == Local \/ Finish \/ Mark \/ Report

Spec == Init /\ [][Next]_vars

-----------------------------------------------------------------------------
(* Properties.                                                             *)

Done == pc = "done"
Failed == local # Ok \/ completion # Ok

(* Whatever else failed, the reply of the server can be found in the error, *)
(* as its first FtpError, so that a caller can classify it                 *)
(* (sync/stream.rs:91 "Retains both failures").                            *)
CompletionIsTraceable ==
    Done /\ completion # Ok =>
        \E i \in DOMAIN report.source :
            FirstFtpAt(report, i) /\ report.source[i] = completion.source[1]

(* Nothing fails silently: two failures leave a wrapper that tells of both, *)
(* and no error is made up.                                                *)
NothingIsLost ==
    Done =>
        LET failures == {f \in {"skip", "local", "completion"} :
                            CASE f = "skip" -> skip # Ok
                              [] f = "local" -> local # Ok
                              [] f = "completion" -> completion # Ok}
            wrappers == {i \in DOMAIN report.source :
                            report.source[i] \notin FtpError \cup {"io", "RemoteError"}}
        IN  /\ (failures = {}) = (report = Ok)
            /\ local # Ok /\ completion # Ok => wrappers # {}
            /\ skip # Ok => report.kind = skip.kind

(* When the client is free again a drain, flush, read or completion that     *)
(* failed has cost it the connection, and nothing else has: a refusal that   *)
(* would be harmless to a command is not harmless to a transfer.            *)
FailedEndCostsTheConnection == ~active => usable = ~Failed
=============================================================================
