----------------------------- MODULE TokioFtpFs -----------------------------
(***************************************************************************)
(* The asynchronous client, client/tokio.rs with tokio/stream.rs and       *)
(* guard.rs.                                                               *)
(*                                                                         *)
(* Tasks of a multi-threaded runtime share one TokioFtpFs.  It differs     *)
(* from the blocking client in what the code does, not only in its await   *)
(* points: a LIST keeps the mutex, some failures are recorded after the    *)
(* mutex is released, is_connected and welcome_message read copies of      *)
(* their own, and any future may be dropped at an await, which runs the    *)
(* destructors of whatever it holds and nothing else.                      *)
(*                                                                         *)
(* An action is the code between two accesses to shared state.  Only a pc  *)
(* at an await point can be cancelled.                                     *)
(***************************************************************************)
EXTENDS ControlChannel, ReadStream

CONSTANTS
    Tasks,          \* tasks that share the client
    Handles,        \* identities for live TokioReadStream / TokioWriteStream values
    NoTask,         \* lock value of a free mutex
    NoHandle,       \* a task that holds no handle
    Ops,            \* the operations tasks perform, a subset of AllOps
    MaxProbes,      \* LIST probes one operation may add after its own command
    Cancellable     \* which futures may be dropped: "call", "finish"

Commands == {"create_dir", "remove_file", "remove_dir", "rename", "exec"}
Stores == {"create", "append"}
Exclusives == {"connect", "disconnect", "stream"}
AllOps == Commands \cup Stores \cup Exclusives
          \cup {"open", "list_dir", "stat_root", "is_connected", "welcome_message"}

ASSUME TokioFtpFsAssumption ==
    /\ NoTask \notin Tasks
    /\ NoHandle \notin Handles
    /\ Ops \subseteq AllOps
    /\ MaxProbes \in Nat
    /\ Cancellable \subseteq {"call", "finish"}

VARIABLES
    lock,               \* holder of TokioFtpFs::stream's mutex
    stream,             \* whether the Option<AsyncFtpStream> in the mutex is Some
    connected,
    transfer_active,
    connection_usable,
    welcome,            \* whether a banner is cached; every server sends one
    chan,               \* the control connection (ControlChannel)
    pc, op, err, res,   \* per task: next step, operation, last failure, answer
    probes,             \* per task: LIST probes done by this operation
    reconnect,          \* per task: requires_reconnect of read_list_bytes
    want, resumed,      \* per task: ReadOptions::offset (0 or 1), open()'s local
    start,              \* per task: where the server started the RETR
    held,               \* per task: the handle open() has not returned yet
    hstate, hinfo,      \* per handle: stage of its life, its fields
    hfail               \* per handle: cleanup has failed so far

shared == <<lock, stream, connected, transfer_active, connection_usable, welcome, chan>>
flags == <<stream, connected, transfer_active, connection_usable, welcome>>
locals == <<op, err, res, probes, reconnect, want, resumed, start, held>>
handles == <<hstate, hinfo, hfail>>
vars == <<shared, pc, locals, handles>>

-----------------------------------------------------------------------------
(* A live OperationGuard, at an await on the control connection.            *)
Awaiting == {"send", "rest", "retr", "reset", "retry", "list", "list_transfer"}

(* The mutex is held and nothing is awaited.                                *)
Settling == {"check_active", "check_usable", "take", "start", "record", "fail",
             "complete", "unwind"}

(* No mutex: lock and skip are await points, classify awaits in its probes. *)
Unlocked == {"lock", "late_record", "late_unwind", "classify", "skip", "await",
             "deliver", "observe_usable", "observe_connected", "observe_active", "welcome"}

InExclusive == {"connect", "connect_reset", "dial", "disconnect", "hang_up", "quit",
                "accessor", "raw"}

PCs == {"idle", "return"} \cup Awaiting \cup Settling \cup Unlocked \cup InExclusive

Results == {"none", "ok", "failed", "cancelled", "NotConnected", "TransferInProgress",
            "Unusable", "AlreadyConnected", "true", "false", "banner", "no_banner"}

HandleStates == {"free", "held", "open", "drain", "finalize", "invalidate",
                 "abandoned", "dropped", "release"}

Alive(h) == hstate[h] # "free"

(* TokioFtpFs::new.                                                        *)
Init ==
    /\ lock = NoTask
    /\ stream = FALSE
    /\ connected = FALSE
    /\ transfer_active = FALSE
    /\ connection_usable = TRUE
    /\ welcome = FALSE
    /\ chan = Fresh
    /\ pc = [t \in Tasks |-> "idle"]
    /\ op = [t \in Tasks |-> "none"]
    /\ err = [t \in Tasks |-> Success]
    /\ res = [t \in Tasks |-> "none"]
    /\ probes = [t \in Tasks |-> 0]
    /\ reconnect = [t \in Tasks |-> FALSE]
    /\ want = [t \in Tasks |-> 0]
    /\ resumed = [t \in Tasks |-> FALSE]
    /\ start = [t \in Tasks |-> 0]
    /\ held = [t \in Tasks |-> NoHandle]
    /\ hstate = [h \in Handles |-> "free"]
    /\ hinfo = [h \in Handles |-> NoInfo]
    /\ hfail = [h \in Handles |-> FALSE]

-----------------------------------------------------------------------------
Goto(t, label) == pc' = [pc EXCEPT ![t] = label]

ReturnWith(t, answer) ==
    /\ Goto(t, "return")
    /\ res' = [res EXCEPT ![t] = answer]

(* What the caller sees when a step of the operation ends in this answer:   *)
(* the failure of a probe only ends the probing.                            *)
Outcomes(t, answer) ==
    IF probes[t] = 0 THEN {answer}
    ELSE IF op[t] = "list_dir" THEN {"ok", "failed"} ELSE {"failed"}

(* lock_stream returns early, or a completed operation ends: the mutex      *)
(* guard goes.                                                             *)
Unlock(t, answer) ==
    /\ lock' = NoTask
    /\ \E outcome \in Outcomes(t, answer) : ReturnWith(t, outcome)

MarkUnusableIf(condition) == connection_usable' = (connection_usable /\ ~condition)

Listing(t) == op[t] = "list_dir" \/ probes[t] > 0

(* Whether the caller goes on to probe with LIST.                          *)
Probing(t) ==
    \/ Listing(t) /\ err[t] \in {Success, "r550"}
    \/ /\ probes[t] = 0 /\ op[t] \in {"create_dir", "rename"} \cup Stores
       /\ IsCreationRefusal(err[t])
    \/ /\ probes[t] = 0 /\ op[t] \in {"remove_file", "remove_dir", "open"}
       /\ IsFileUnavailable(err[t])

Conclude(t) ==
    IF Probing(t) THEN Goto(t, "classify") /\ UNCHANGED res ELSE ReturnWith(t, "failed")

-----------------------------------------------------------------------------
FirstStep(o) ==
    IF o = "is_connected" THEN "observe_usable"
    ELSE IF o = "welcome_message" THEN "welcome" ELSE "lock"

Begin(t) ==
    /\ pc[t] = "idle"
    /\ \A u \in Tasks : pc[u] \notin InExclusive
    /\ \E o \in Ops \ Exclusives, w \in 0..1 :
          /\ o # "open" => w = 0
          /\ op' = [op EXCEPT ![t] = o]
          /\ want' = [want EXCEPT ![t] = w]
          /\ Goto(t, FirstStep(o))
    /\ UNCHANGED <<shared, err, res, probes, reconnect, resumed, start, held, handles>>

(* &mut self: no other call is in progress.                                *)
BeginExclusive(t) ==
    /\ \A u \in Tasks : pc[u] = "idle"
    /\ \E o \in Ops \cap Exclusives :
          /\ op' = [op EXCEPT ![t] = o]
          /\ Goto(t, IF o = "stream" THEN "accessor" ELSE o)
    /\ UNCHANGED <<shared, err, res, probes, reconnect, want, resumed, start, held, handles>>

Return(t) ==
    /\ pc[t] = "return"
    /\ Goto(t, "idle")
    /\ op' = [op EXCEPT ![t] = "none"]
    /\ err' = [err EXCEPT ![t] = Success]
    /\ res' = [res EXCEPT ![t] = "none"]
    /\ probes' = [probes EXCEPT ![t] = 0]
    /\ reconnect' = [reconnect EXCEPT ![t] = FALSE]
    /\ want' = [want EXCEPT ![t] = 0]
    /\ resumed' = [resumed EXCEPT ![t] = FALSE]
    /\ start' = [start EXCEPT ![t] = 0]
    /\ held' = [held EXCEPT ![t] = NoHandle]
    /\ UNCHANGED <<shared, handles>>

-----------------------------------------------------------------------------
(* lock_stream.                                                            *)

Lock(t) ==
    /\ pc[t] = "lock"
    /\ lock = NoTask
    /\ lock' = t
    /\ Goto(t, "check_active")
    /\ UNCHANGED <<flags, chan, locals, handles>>

CheckOperationState(t) ==
    /\ \/ /\ pc[t] = "check_active"
          /\ IF transfer_active THEN Unlock(t, "TransferInProgress")
             ELSE Goto(t, "check_usable") /\ UNCHANGED <<lock, res>>
       \/ /\ pc[t] = "check_usable"
          /\ IF connection_usable THEN Goto(t, "take") /\ UNCHANGED <<lock, res>>
             ELSE Unlock(t, "Unusable")
    /\ UNCHANGED <<flags, chan,
                   op, err, probes, reconnect, want, resumed, start, held, handles>>

(* The Option is Some; from here the OperationGuard watches.  stat("/")     *)
(* completes at once.                                                      *)
Take(t) ==
    /\ pc[t] = "take"
    /\ \/ ~stream /\ Unlock(t, "NotConnected")
       \/ stream /\ op[t] = "stat_root" /\ Unlock(t, "ok")
       \/ /\ stream /\ op[t] # "stat_root"
          /\ Goto(t, IF Listing(t) THEN "list"
                     ELSE IF op[t] # "open" THEN "send"
                     ELSE IF want[t] > 0 THEN "rest" ELSE "retr")
          /\ UNCHANGED <<lock, res>>
    /\ UNCHANGED <<flags, chan,
                   op, err, probes, reconnect, want, resumed, start, held, handles>>

-----------------------------------------------------------------------------
(* Exchanges on the control connection, under the mutex.                   *)

(* run_command and exec.                                                   *)
SendCommand(t) ==
    /\ pc[t] = "send"
    /\ op[t] \in Commands
    /\ \E a \in Command(chan) :
          /\ chan' = a.chan
          /\ err' = [err EXCEPT ![t] = a.err]
    /\ Goto(t, "complete")
    /\ UNCHANGED <<lock, flags,
                   op, res, probes, reconnect, want, resumed, start, held, handles>>

(* Variant: the failure of the passive stream builder is not marked.        *)
SendStoreUnhooked(t) ==
    /\ pc[t] = "send"
    /\ op[t] \in Stores
    /\ \E a \in DataCommand(chan) :
          /\ chan' = a.chan
          /\ err' = [err EXCEPT ![t] = a.err]
          /\ Goto(t, IF a.err = Success THEN "start" ELSE "record")
    /\ UNCHANGED <<lock, flags,
                   op, res, probes, reconnect, want, resumed, start, held, handles>>

(* STOR or APPE; the passive stream builder marks its own failure.         *)
SendStore(t) ==
    /\ pc[t] = "send"
    /\ op[t] \in Stores
    /\ \E a \in DataCommand(chan) :
          /\ chan' = a.chan
          /\ MarkUnusableIf(a.hook)
          /\ err' = [err EXCEPT ![t] = a.err]
          /\ Goto(t, IF a.err = Success THEN "start" ELSE "record")
    /\ UNCHANGED <<lock, stream, connected, transfer_active, welcome,
                   op, res, probes, reconnect, want, resumed, start, held, handles>>

RequestOffset(t) ==
    /\ pc[t] = "rest"
    /\ \/ /\ Goto(t, "retr")
          /\ UNCHANGED <<chan, err, resumed>>
       \/ \E a \in SetMarker(chan) :
             /\ chan' = a.chan
             /\ \/ /\ a.err = Success
                   /\ resumed' = [resumed EXCEPT ![t] = TRUE]
                   /\ Goto(t, "retr")
                   /\ UNCHANGED err
                \/ /\ a.err \in ReplyCodes \ {"r421"}
                   /\ Goto(t, "retr")
                   /\ UNCHANGED <<resumed, err>>
                \/ /\ a.err \in FtpError \ (ReplyCodes \ {"r421"})
                   /\ err' = [err EXCEPT ![t] = a.err]
                   /\ Goto(t, "fail")
                   /\ UNCHANGED resumed
    /\ UNCHANGED <<lock, flags,
                   op, res, probes, reconnect, want, start, held, handles>>

(* retr_as_stream, at first and again after REST 0.                         *)
Retr(t) ==
    /\ pc[t] \in {"retr", "retry"}
    /\ \E a \in DataCommand(chan) :
          /\ chan' = a.chan
          /\ MarkUnusableIf(a.hook)
          /\ err' = [err EXCEPT ![t] = a.err]
          /\ start' = [start EXCEPT ![t] = IF chan.marker THEN 1 ELSE 0]
          /\ Goto(t, IF a.err = Success THEN "start"
                     ELSE IF pc[t] = "retr" /\ resumed[t] THEN "reset" ELSE "record")
    /\ UNCHANGED <<lock, stream, connected, transfer_active, welcome,
                   op, res, probes, reconnect, want, resumed, held, handles>>

(* Variant: the download is asked for again, and skipped locally, with the *)
(* marker still set.                                                       *)
ResetMarkerForgotten(t) ==
    /\ pc[t] = "reset"
    /\ resumed' = [resumed EXCEPT ![t] = FALSE]
    /\ Goto(t, "retry")
    /\ UNCHANGED <<lock, flags, chan,
                   op, err, res, probes, reconnect, want, start, held, handles>>

ResetMarker(t) ==
    /\ pc[t] = "reset"
    /\ \E a \in ClearMarker(chan) :
          /\ chan' = a.chan
          /\ err' = [err EXCEPT ![t] = a.err]
          /\ MarkUnusableIf(a.err # Success)
          /\ resumed' = [resumed EXCEPT ![t] = @ /\ a.err # Success]
          /\ Goto(t, IF a.err = Success THEN "retry" ELSE "fail")
    /\ UNCHANGED <<lock, stream, connected, transfer_active, welcome,
                   op, res, probes, reconnect, want, start, held, handles>>

(* read_list_bytes, both halves of it under the mutex.                     *)
ListCommand(t) ==
    /\ pc[t] = "list"
    /\ \E a \in DataCommand(chan) :
          /\ chan' = a.chan
          /\ MarkUnusableIf(a.hook)
          /\ err' = [err EXCEPT ![t] = a.err]
          /\ reconnect' = [reconnect EXCEPT ![t] = TransferSetupRequiresReconnect(a.err)]
          /\ Goto(t, IF a.err = Success THEN "list_transfer" ELSE "complete")
    /\ UNCHANGED <<lock, stream, connected, transfer_active, welcome,
                   op, res, probes, want, resumed, start, held, handles>>

ListTransfer(t) ==
    /\ pc[t] = "list_transfer"
    /\ \E readFails \in BOOLEAN :
       \E a \in Completion(IF readFails THEN Faulty(chan) ELSE chan, readFails) :
          /\ chan' = a.chan
          /\ err' = [err EXCEPT ![t] = IF a.err = Success /\ readFails
                                       THEN "ConnectionError" ELSE a.err]
          /\ reconnect' = [reconnect EXCEPT ![t] = readFails \/ a.err # Success]
    /\ Goto(t, "complete")
    /\ UNCHANGED <<lock, flags,
                   op, res, probes, want, resumed, start, held, handles>>

(* start_transfer, before the operation completes.                         *)
StartTransfer(t) ==
    /\ pc[t] = "start"
    /\ transfer_active' = TRUE
    /\ \E h \in Handles, tail \in 0..1, length \in 0..Unlimited :
          /\ hstate[h] = "free"
          /\ op[t] \in Stores => tail = 0 /\ length = Unlimited
          /\ hstate' = [hstate EXCEPT ![h] = "held"]
          /\ hinfo' = [hinfo EXCEPT ![h] =
                Info(IF op[t] = "open" THEN "read" ELSE "write",
                     want[t], start[t], tail, length, FALSE)]
          /\ held' = [held EXCEPT ![t] = h]
    /\ Goto(t, "complete")
    /\ UNCHANGED <<lock, stream, connected, connection_usable, welcome, chan,
                   op, err, res, probes, reconnect, want, resumed, start, hfail>>

(* open, create and append record a refused transfer under the mutex.       *)
Record(t) ==
    /\ pc[t] = "record"
    /\ MarkUnusableIf(TransferSetupRequiresReconnect(err[t]))
    /\ Goto(t, "complete")
    /\ UNCHANGED <<lock, stream, connected, transfer_active, welcome, chan, locals, handles>>

(* open() gives up on REST: record, complete, return the error unclassified.*)
Fail(t) ==
    /\ pc[t] = "fail"
    /\ MarkUnusableIf(RemoteErrorRequiresReconnect(FromFtp(err[t])))
    /\ Unlock(t, "failed")
    /\ UNCHANGED <<stream, connected, transfer_active, welcome, chan,
                   op, err, probes, reconnect, want, resumed, start, held, handles>>

(* StreamGuard::complete disarms the OperationGuard, then unlocks.          *)
Complete(t) ==
    /\ pc[t] = "complete"
    /\ lock' = NoTask
    /\ \/ /\ Listing(t) \/ op[t] \in Commands
          /\ Goto(t, "late_record")
          /\ UNCHANGED res
       \/ /\ ~Listing(t) /\ held[t] # NoHandle
          /\ Goto(t, IF op[t] = "open" /\ want[t] > 0 /\ ~resumed[t] THEN "skip" ELSE "deliver")
          /\ UNCHANGED res
       \/ /\ ~Listing(t) /\ op[t] \notin Commands /\ held[t] = NoHandle
          /\ Conclude(t)
    /\ UNCHANGED <<flags, chan,
                   op, err, probes, reconnect, want, resumed, start, held, handles>>

(* Variant: the failure of a LIST's completion is not recorded.             *)
LateRecordOwnErrorOnly(t) ==
    /\ pc[t] = "late_record"
    /\ MarkUnusableIf(~Listing(t) /\ TransferSetupRequiresReconnect(err[t]))
    /\ IF err[t] = Success /\ ~Listing(t) THEN ReturnWith(t, "ok") ELSE Conclude(t)
    /\ UNCHANGED <<lock, stream, connected, transfer_active, welcome, chan,
                   op, err, probes, reconnect, want, resumed, start, held, handles>>

(* list_dir_raw, run_command and exec record after the mutex is released.   *)
LateRecord(t) ==
    /\ pc[t] = "late_record"
    /\ MarkUnusableIf(IF Listing(t) THEN reconnect[t]
                      ELSE TransferSetupRequiresReconnect(err[t]))
    /\ IF err[t] = Success /\ ~Listing(t) THEN ReturnWith(t, "ok") ELSE Conclude(t)
    /\ UNCHANGED <<lock, stream, connected, transfer_active, welcome, chan,
                   op, err, probes, reconnect, want, resumed, start, held, handles>>

Classify(t) ==
    /\ pc[t] = "classify"
    /\ \/ /\ probes[t] < MaxProbes
          /\ probes' = [probes EXCEPT ![t] = @ + 1]
          /\ err' = [err EXCEPT ![t] = Success]
          /\ reconnect' = [reconnect EXCEPT ![t] = FALSE]
          /\ Goto(t, "lock")
          /\ UNCHANGED res
       \/ /\ \E outcome \in {"failed"} \cup Outcomes(t, IF err[t] = Success THEN "ok" ELSE "failed") :
                ReturnWith(t, outcome)
          /\ UNCHANGED <<probes, err, reconnect>>
    /\ UNCHANGED <<shared, op, want, resumed, start, held, handles>>

-----------------------------------------------------------------------------
(* open() after its mutex is released.                                     *)

(* skip_prefix: offset bytes are discarded from wherever the server began; *)
(* skipped < offset sets at_eof.                                           *)
SkipPrefix(t) ==
    /\ pc[t] = "skip"
    /\ \E tail \in 0..1, short \in BOOLEAN :
          /\ short => tail = 0
          /\ hinfo' = [hinfo EXCEPT ![held[t]] =
                Info(@.dir, @.want, @.pos + want[t], tail, @.remaining, short)]
    /\ Goto(t, "deliver")
    /\ UNCHANGED <<shared, locals, hstate, hfail>>

SkipFails(t) ==
    /\ pc[t] = "skip"
    /\ chan' = Faulty(chan)
    /\ hstate' = [hstate EXCEPT ![held[t]] = "drain"]
    /\ Goto(t, "await")
    /\ UNCHANGED <<lock, flags, locals, hinfo, hfail>>

AwaitCleanup(t) ==
    /\ pc[t] = "await"
    /\ hstate[held[t]] = "free"
    /\ ReturnWith(t, "failed")
    /\ UNCHANGED <<shared, op, err, probes, reconnect, want, resumed, start, held, handles>>

Deliver(t) ==
    /\ pc[t] = "deliver"
    /\ hstate' = [hstate EXCEPT ![held[t]] = "open"]
    /\ ReturnWith(t, "ok")
    /\ UNCHANGED <<shared, op, err, probes, reconnect, want, resumed, start, held, hinfo, hfail>>

-----------------------------------------------------------------------------
(* Cancellation of a call.                                                 *)

(* Waiting for the mutex: nothing was sent.                                *)
CancelWaiting(t) ==
    /\ "call" \in Cancellable
    /\ pc[t] = "lock"
    /\ ReturnWith(t, "cancelled")
    /\ UNCHANGED <<shared, op, err, probes, reconnect, want, resumed, start, held, handles>>

(* In an exchange: suppaftp's future goes first.                           *)
CancelExchange(t) ==
    /\ "call" \in Cancellable
    /\ pc[t] \in Awaiting
    /\ chan' \in Abandoned(chan)
    /\ Goto(t, "unwind")
    /\ UNCHANGED <<lock, flags, locals, handles>>

(* Variant: a cancelled call leaks its mutex guard.                        *)
MutexGuardLeaked(t) ==
    /\ pc[t] = "unwind"
    /\ Goto(t, "late_unwind")
    /\ UNCHANGED <<shared, locals, handles>>

(* Then StreamGuard, field by field: the mutex guard ...                    *)
DropMutexGuard(t) ==
    /\ pc[t] = "unwind"
    /\ lock' = NoTask
    /\ Goto(t, "late_unwind")
    /\ UNCHANGED <<flags, chan, locals, handles>>

(* Variant: the guard takes every operation for completed.                 *)
OperationGuardDisarmed(t) ==
    /\ pc[t] = "late_unwind"
    /\ ReturnWith(t, "cancelled")
    /\ UNCHANGED <<shared, op, err, probes, reconnect, want, resumed, start, held, handles>>

(* ... and OperationGuard::drop after it.                                  *)
DropOperationGuard(t) ==
    /\ pc[t] = "late_unwind"
    /\ connection_usable' = FALSE
    /\ ReturnWith(t, "cancelled")
    /\ UNCHANGED <<lock, stream, connected, transfer_active, welcome, chan,
                   op, err, probes, reconnect, want, resumed, start, held, handles>>

(* In skip_prefix: the reader is dropped before its end of file.            *)
CancelSkip(t) ==
    /\ "call" \in Cancellable
    /\ pc[t] = "skip"
    /\ hstate' = [hstate EXCEPT ![held[t]] = "abandoned"]
    /\ ReturnWith(t, "cancelled")
    /\ UNCHANGED <<shared, op, err, probes, reconnect, want, resumed, start, held, hinfo, hfail>>

(* connect and disconnect drop a stream that is not in the client.          *)
CancelExclusive(t) ==
    /\ "call" \in Cancellable
    /\ pc[t] \in {"dial", "quit"}
    /\ chan' = Fresh
    /\ ReturnWith(t, "cancelled")
    /\ UNCHANGED <<lock, flags,
                   op, err, probes, reconnect, want, resumed, start, held, handles>>

-----------------------------------------------------------------------------
(* Owned transfer streams.                                                 *)

Read(h) ==
    /\ hstate[h] = "open"
    /\ hinfo[h].dir = "read"
    /\ hinfo' = [hinfo EXCEPT ![h] = AfterRead(@)]
    /\ UNCHANGED <<shared, pc, locals, hstate, hfail>>

AtEof(h) == hinfo[h].dir = "read" /\ hinfo[h].eof

(* Variant: the guard goes before the transfer is cleaned up.              *)
FinishGuardFirst(h) ==
    /\ hstate[h] = "open"
    /\ transfer_active' = FALSE
    /\ hstate' = [hstate EXCEPT ![h] = IF AtEof(h) THEN "finalize" ELSE "drain"]
    /\ UNCHANGED <<lock, stream, connected, connection_usable, welcome, chan,
                   pc, locals, hinfo, hfail>>

Finish(h) ==
    /\ hstate[h] = "open"
    /\ hstate' = [hstate EXCEPT ![h] = IF AtEof(h) THEN "finalize" ELSE "drain"]
    /\ UNCHANGED <<shared, pc, locals, hinfo, hfail>>

Drain(h) ==
    /\ hstate[h] = "drain"
    /\ \/ /\ hinfo' = [hinfo EXCEPT ![h] =
                Info(@.dir, @.want, @.pos, 0, @.remaining, @.eof)]
          /\ UNCHANGED <<hfail, chan>>
       \/ /\ hfail' = [hfail EXCEPT ![h] = TRUE]
          /\ chan' = Faulty(chan)
          /\ UNCHANGED hinfo
    /\ hstate' = [hstate EXCEPT ![h] = "finalize"]
    /\ UNCHANGED <<lock, flags, pc, locals>>

Finalize(h) ==
    /\ hstate[h] = "finalize"
    /\ \E a \in Completion(chan, hinfo[h].tail > 0) :
          /\ chan' = a.chan
          /\ hfail' = [hfail EXCEPT ![h] = @ \/ a.err # Success]
          /\ hstate' = [hstate EXCEPT ![h] =
                IF hfail[h] \/ a.err # Success THEN "invalidate" ELSE "release"]
    /\ UNCHANGED <<lock, flags, pc, locals, hinfo>>

(* The finish() future, or that of finish_after_skip, is dropped: inner is  *)
(* already taken, so the stream's own drop does nothing.                   *)
CancelFinish(h) ==
    /\ "finish" \in Cancellable
    /\ hstate[h] \in {"drain", "finalize"}
    /\ hstate' = [hstate EXCEPT ![h] = "dropped"]
    /\ UNCHANGED <<shared, pc, locals, hinfo, hfail>>

(* Variant: every dropped stream counts on the deferred reply.             *)
DropStreamDefers(h) ==
    /\ hstate[h] = "open"
    /\ hstate' = [hstate EXCEPT ![h] = "dropped"]
    /\ UNCHANGED <<shared, pc, locals, hinfo, hfail>>

(* Drop of an unfinished stream: a download before EOF invalidates first.   *)
DropStream(h) ==
    /\ hstate[h] = "open"
    /\ hstate' = [hstate EXCEPT ![h] =
          IF hinfo[h].dir = "read" /\ ~hinfo[h].eof THEN "abandoned" ELSE "dropped"]
    /\ UNCHANGED <<shared, pc, locals, hinfo, hfail>>

(* TransferGuard::invalidate.                                              *)
Invalidate(h) ==
    /\ hstate[h] \in {"invalidate", "abandoned"}
    /\ connection_usable' = FALSE
    /\ hstate' = [hstate EXCEPT ![h] = IF @ = "invalidate" THEN "release" ELSE "dropped"]
    /\ UNCHANGED <<lock, stream, connected, transfer_active, welcome, chan,
                   pc, locals, hinfo, hfail>>

(* suppaftp's TransferStream goes; its reply is left to the next command.   *)
DropInner(h) ==
    /\ hstate[h] = "dropped"
    /\ chan' \in Deferred(chan, hinfo[h].tail > 0)
    /\ hstate' = [hstate EXCEPT ![h] = "release"]
    /\ UNCHANGED <<lock, flags, pc, locals, hinfo, hfail>>

(* Variant: the flag is never lowered.                                     *)
ReleaseForgotten(h) ==
    /\ hstate[h] = "release"
    /\ hstate' = [hstate EXCEPT ![h] = "free"]
    /\ hinfo' = [hinfo EXCEPT ![h] = NoInfo]
    /\ hfail' = [hfail EXCEPT ![h] = FALSE]
    /\ UNCHANGED <<shared, pc, locals>>

(* TransferGuard::drop.                                                    *)
Release(h) ==
    /\ hstate[h] = "release"
    /\ transfer_active' = FALSE
    /\ hstate' = [hstate EXCEPT ![h] = "free"]
    /\ hinfo' = [hinfo EXCEPT ![h] = NoInfo]
    /\ hfail' = [hfail EXCEPT ![h] = FALSE]
    /\ UNCHANGED <<lock, stream, connected, connection_usable, welcome, chan, pc, locals>>

-----------------------------------------------------------------------------
(* Observers: three loads for is_connected, a mutex of its own for the     *)
(* banner.                                                                 *)

IsConnected(t) ==
    /\ \/ /\ pc[t] = "observe_usable"
          /\ IF connection_usable THEN Goto(t, "observe_connected") /\ UNCHANGED res
             ELSE ReturnWith(t, "false")
       \/ /\ pc[t] = "observe_connected"
          /\ IF connected THEN ReturnWith(t, "true")
             ELSE Goto(t, "observe_active") /\ UNCHANGED res
       \/ /\ pc[t] = "observe_active"
          /\ ReturnWith(t, IF transfer_active THEN "true" ELSE "false")
    /\ UNCHANGED <<shared, op, err, probes, reconnect, want, resumed, start, held, handles>>

WelcomeMessage(t) ==
    /\ pc[t] = "welcome"
    /\ ReturnWith(t, IF welcome THEN "banner" ELSE "no_banner")
    /\ UNCHANGED <<shared, op, err, probes, reconnect, want, resumed, start, held, handles>>

-----------------------------------------------------------------------------
(* &mut self.                                                              *)

ConnectCheckActive(t) ==
    /\ pc[t] = "connect"
    /\ IF transfer_active THEN ReturnWith(t, "TransferInProgress")
       ELSE Goto(t, "connect_reset") /\ UNCHANGED res
    /\ UNCHANGED <<shared, op, err, probes, reconnect, want, resumed, start, held, handles>>

(* The cached banner of the stream that is forgotten stays.                 *)
ConnectReset(t) ==
    /\ pc[t] = "connect_reset"
    /\ \/ /\ connection_usable /\ stream
          /\ ReturnWith(t, "AlreadyConnected")
          /\ UNCHANGED <<stream, connected, connection_usable, chan>>
       \/ /\ connection_usable /\ ~stream
          /\ Goto(t, "dial")
          /\ UNCHANGED <<stream, connected, connection_usable, chan, res>>
       \/ /\ ~connection_usable
          /\ stream' = FALSE
          /\ connected' = FALSE
          /\ connection_usable' = TRUE
          /\ chan' = Fresh
          /\ Goto(t, "dial")
          /\ UNCHANGED res
    /\ UNCHANGED <<lock, transfer_active, welcome,
                   op, err, probes, reconnect, want, resumed, start, held, handles>>

Dial(t) ==
    /\ pc[t] = "dial"
    /\ \/ /\ welcome' = TRUE
          /\ stream' = TRUE
          /\ connected' = TRUE
          /\ chan' = Fresh
          /\ ReturnWith(t, "ok")
       \/ /\ ReturnWith(t, "failed")
          /\ UNCHANGED <<welcome, stream, connected, chan>>
    /\ UNCHANGED <<lock, transfer_active, connection_usable,
                   op, err, probes, reconnect, want, resumed, start, held, handles>>

(* Variant: the flag is not looked at.                                     *)
DisconnectUnchecked(t) ==
    /\ pc[t] = "disconnect"
    /\ Goto(t, "hang_up")
    /\ UNCHANGED <<shared, locals, handles>>

DisconnectCheckActive(t) ==
    /\ pc[t] = "disconnect"
    /\ IF transfer_active THEN ReturnWith(t, "TransferInProgress")
       ELSE Goto(t, "hang_up") /\ UNCHANGED res
    /\ UNCHANGED <<shared, op, err, probes, reconnect, want, resumed, start, held, handles>>

(* Variant: the copy that is_connected reads is left behind.               *)
HangUpKeepsConnected(t) ==
    /\ pc[t] = "hang_up"
    /\ stream' = FALSE
    /\ welcome' = FALSE
    /\ connection_usable' = TRUE
    /\ chan' = Fresh
    /\ ReturnWith(t, "ok")
    /\ UNCHANGED <<lock, connected, transfer_active,
                   op, err, probes, reconnect, want, resumed, start, held, handles>>

HangUp(t) ==
    /\ pc[t] = "hang_up"
    /\ \/ /\ ~stream
          /\ ReturnWith(t, "NotConnected")
          /\ UNCHANGED <<stream, connected, welcome, connection_usable, chan>>
       \/ /\ stream
          /\ stream' = FALSE
          /\ connected' = FALSE
          /\ welcome' = FALSE
          /\ connection_usable' = TRUE
          /\ IF connection_usable
             THEN Goto(t, "quit") /\ UNCHANGED <<chan, res>>
             ELSE chan' = Fresh /\ ReturnWith(t, "Unusable")
    /\ UNCHANGED <<lock, transfer_active,
                   op, err, probes, reconnect, want, resumed, start, held, handles>>

Quit(t) ==
    /\ pc[t] = "quit"
    /\ \E a \in Command(chan) :
          /\ MarkUnusableIf(a.err # Success /\ RemoteErrorRequiresReconnect(FromFtp(a.err)))
          /\ ReturnWith(t, IF a.err = Success THEN "ok" ELSE "failed")
    /\ chan' = Fresh
    /\ UNCHANGED <<lock, stream, connected, transfer_active, welcome,
                   op, err, probes, reconnect, want, resumed, start, held, handles>>

Accessor(t) ==
    /\ pc[t] = "accessor"
    /\ IF ~transfer_active /\ connection_usable /\ stream
       THEN Goto(t, "raw") /\ UNCHANGED res
       ELSE ReturnWith(t, "failed")
    /\ UNCHANGED <<shared, op, err, probes, reconnect, want, resumed, start, held, handles>>

(* The caller's own commands leave the connection as they found it.        *)
RawCommands(t) ==
    /\ pc[t] = "raw"
    /\ ReturnWith(t, "ok")
    /\ UNCHANGED <<shared, op, err, probes, reconnect, want, resumed, start, held, handles>>

-----------------------------------------------------------------------------
TaskStep(t) ==
    \/ Return(t)
    \/ Lock(t) \/ CheckOperationState(t) \/ Take(t)
    \/ SendCommand(t) \/ SendStore(t) \/ RequestOffset(t) \/ Retr(t) \/ ResetMarker(t)
    \/ ListCommand(t) \/ ListTransfer(t)
    \/ StartTransfer(t) \/ Record(t) \/ Fail(t) \/ Complete(t) \/ LateRecord(t) \/ Classify(t)
    \/ SkipPrefix(t) \/ SkipFails(t) \/ AwaitCleanup(t) \/ Deliver(t)
    \/ DropMutexGuard(t) \/ DropOperationGuard(t)
    \/ IsConnected(t) \/ WelcomeMessage(t)
    \/ ConnectCheckActive(t) \/ ConnectReset(t) \/ Dial(t)
    \/ DisconnectCheckActive(t) \/ HangUp(t) \/ Quit(t)
    \/ Accessor(t) \/ RawCommands(t)

Cancel(t) == CancelWaiting(t) \/ CancelExchange(t) \/ CancelSkip(t) \/ CancelExclusive(t)

CleanupStep(h) == Drain(h) \/ Finalize(h) \/ Invalidate(h) \/ DropInner(h) \/ Release(h)

Next ==
    \/ \E t \in Tasks : Begin(t) \/ BeginExclusive(t) \/ TaskStep(t) \/ Cancel(t)
    \/ \E h \in Handles : Read(h) \/ Finish(h) \/ DropStream(h) \/ CancelFinish(h)
                          \/ CleanupStep(h)

Spec == Init /\ [][Next]_vars

(* The runtime polls a future that can make progress; destructors run to    *)
(* their end.  Nothing makes the application start, read, finish or cancel.*)
Fairness ==
    /\ \A t \in Tasks : WF_vars(TaskStep(t))
    /\ \A h \in Handles : WF_vars(CleanupStep(h))

FairSpec == Spec /\ Fairness

-----------------------------------------------------------------------------
(* Properties.                                                             *)

(* Every variable keeps its type.                                          *)
TypeOK ==
    /\ lock \in Tasks \cup {NoTask}
    /\ stream \in BOOLEAN
    /\ connected \in BOOLEAN
    /\ transfer_active \in BOOLEAN
    /\ connection_usable \in BOOLEAN
    /\ welcome \in BOOLEAN
    /\ chan \in Channel
    /\ pc \in [Tasks -> PCs]
    /\ op \in [Tasks -> AllOps \cup {"none"}]
    /\ err \in [Tasks -> FtpError \cup {Success}]
    /\ res \in [Tasks -> Results]
    /\ probes \in [Tasks -> 0..MaxProbes]
    /\ reconnect \in [Tasks -> BOOLEAN]
    /\ want \in [Tasks -> 0..1]
    /\ resumed \in [Tasks -> BOOLEAN]
    /\ start \in [Tasks -> 0..1]
    /\ held \in [Tasks -> Handles \cup {NoHandle}]
    /\ hstate \in [Handles -> HandleStates]
    /\ hinfo \in [Handles -> HandleInfo]
    /\ hfail \in [Handles -> BOOLEAN]

BeginsExchange == {"send", "rest", "retr", "list", "quit", "raw"}
InExchange == Awaiting \cup {"quit", "raw"}

(* No managed operation sends its first command on a connection whose      *)
(* replies are out of step.  True of a client used by one task at a time   *)
(* that lets finish() run to its end; see the runs that refute it.          *)
CommandsOnSyncedChannel ==
    \A t \in Tasks : pc[t] \in BeginsExchange => chan.synced

(* One user of the control connection at a time: the task under the mutex, *)
(* or a transfer stream from start_transfer until its guard is dropped.     *)
ControlChannelExclusive ==
    /\ \A t, u \in Tasks :
          pc[t] \in InExchange /\ pc[u] \in InExchange => t = u
    /\ \A h, k \in Handles : Alive(h) /\ Alive(k) => h = k
    /\ \A t \in Tasks, h \in Handles : pc[t] \in InExchange => ~Alive(h)

(* A connection that is out of step is marked unusable, at the latest by a  *)
(* step that the task that broke it is about to take.                      *)
OutOfStepIsMarked ==
    \/ chan.synced \/ ~connection_usable
    \/ \E t \in Tasks : pc[t] \in {"reset", "record", "fail", "complete", "late_record",
                                   "unwind", "late_unwind"}
    \/ \E h \in Handles : hstate[h] = "invalidate"

(* The stream open() returns begins at the requested offset.               *)
ReadStartsAtOffset ==
    \A h \in Handles : hstate[h] = "open" => hinfo[h].pos = hinfo[h].want

(* A live transfer stream keeps its session.                               *)
HandleKeepsSession ==
    \A h \in Handles : Alive(h) => stream /\ transfer_active

(* is_connected, which reads copies, answers true only while there is a    *)
(* stream.                                                                 *)
ConnectedAnswerIsTrue ==
    \A t \in Tasks : res[t] = "true" => stream

(* Cleanup that has begun, by finish or by a drop, lowers transfer_active   *)
(* even if its future is cancelled.                                        *)
CleanupFreesTheClient ==
    \A h \in Handles :
        hstate[h] \in {"drain", "finalize", "abandoned", "dropped"} ~> ~transfer_active

(* A task that holds the mutex lets go of it, cancelled or not.             *)
LockIsReleased == \A t \in Tasks : lock = t ~> lock # t
=============================================================================
