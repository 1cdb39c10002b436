------------------------------- MODULE FtpFs -------------------------------
(***************************************************************************)
(* The blocking client, client/sync.rs with sync/stream.rs and guard.rs.   *)
(*                                                                         *)
(* Threads share one FtpFs through &self operations, whose steps interleave*)
(* with each other and with the owned transfer streams ("handles"), which  *)
(* outlive the call that made them and are finished or dropped by any      *)
(* thread.  connect, disconnect and stream() take &mut self: the borrow    *)
(* checker keeps them apart from every &self operation, but not from the   *)
(* handles.                                                                *)
(*                                                                         *)
(* One action is one access to the state shared between threads: the       *)
(* mutex, the Option<FtpStream> in it, the two atomic flags, the control   *)
(* connection.                                                             *)
(***************************************************************************)
EXTENDS ControlChannel, ReadStream

CONSTANTS
    Threads,        \* threads that share the client
    Handles,        \* identities for live FtpReadStream / FtpWriteStream values
    NoThread,       \* lock value of a free mutex
    NoHandle,       \* a thread that holds no handle
    Ops,            \* the operations threads perform, a subset of AllOps
    MaxProbes       \* LIST probes one operation may add after its own command

Commands == {"create_dir", "remove_file", "remove_dir", "rename"}
Stores == {"create", "append"}
Observers == {"is_connected", "welcome_message"}
Exclusives == {"connect", "disconnect", "stream"}
StreamOps == Commands \cup Stores \cup {"exec", "open", "list_dir", "stat_root"}
AllOps == StreamOps \cup Observers \cup Exclusives

ASSUME FtpFsAssumption ==
    /\ NoThread \notin Threads
    /\ NoHandle \notin Handles
    /\ Ops \subseteq AllOps
    /\ MaxProbes \in Nat

VARIABLES
    lock,               \* holder of FtpFs::stream's mutex
    stream,             \* whether the Option<FtpStream> in the mutex is Some
    transfer_active,
    connection_usable,
    chan,               \* the control connection (ControlChannel)
    pc, op, err, res,   \* per thread: next step, operation, last failure, answer
    probes,             \* per thread: LIST probes done by this operation
    reconnect,          \* per thread: requires_reconnect of read_list_bytes
    want,               \* per thread: ReadOptions::offset, 0 or 1
    resumed,            \* per thread: open()'s local of that name
    start,              \* per thread: where the server started the RETR
    held,               \* per thread: the handle open() has not returned yet
    hstate, hinfo,      \* per handle: stage of its life, its fields
    hfail               \* per handle: cleanup has failed so far

shared == <<lock, stream, transfer_active, connection_usable, chan>>
locals == <<op, err, res, probes, reconnect, want, resumed, start, held>>
handles == <<hstate, hinfo, hfail>>
vars == <<shared, pc, locals, handles>>

-----------------------------------------------------------------------------
(* Program counters.                                                       *)

UnderLock == {"check_active", "check_usable", "take", "raise", "send", "rest",
              "retr", "reset", "retry", "start", "record", "fail", "unlock"}

(* with_exclusive_stream after drop(guard), until ExclusiveStream::drop.    *)
OwnsStream == {"list", "list_transfer", "list_record", "give_back"}

(* No mutex held, the stream in its place.                                 *)
Unlocked == {"lock", "lower", "rerecord", "classify", "skip", "await", "deliver",
             "observe_usable", "observe_stream", "observe_active", "welcome"}

InExclusive == {"connect", "connect_reset", "dial", "disconnect", "hang_up", "quit",
                "accessor", "raw"}

PCs == {"idle", "return"} \cup UnderLock \cup OwnsStream \cup Unlocked \cup InExclusive

Results == {"none", "ok", "failed", "NotConnected", "TransferInProgress", "Unusable",
            "AlreadyConnected", "true", "false", "banner", "no_banner"}

HandleStates == {"free", "held", "open", "drain", "finalize", "invalidate", "release"}

Alive(h) == hstate[h] # "free"

SessionExists == stream \/ \E t \in Threads : pc[t] \in OwnsStream \cup {"raise"}

-----------------------------------------------------------------------------
(* FtpFs::new: nothing connected, nothing running, usable.                 *)
Init ==
    /\ lock = NoThread
    /\ stream = FALSE
    /\ transfer_active = FALSE
    /\ connection_usable = TRUE
    /\ chan = Fresh
    /\ pc = [t \in Threads |-> "idle"]
    /\ op = [t \in Threads |-> "none"]
    /\ err = [t \in Threads |-> Success]
    /\ res = [t \in Threads |-> "none"]
    /\ probes = [t \in Threads |-> 0]
    /\ reconnect = [t \in Threads |-> FALSE]
    /\ want = [t \in Threads |-> 0]
    /\ resumed = [t \in Threads |-> FALSE]
    /\ start = [t \in Threads |-> 0]
    /\ held = [t \in Threads |-> NoHandle]
    /\ hstate = [h \in Handles |-> "free"]
    /\ hinfo = [h \in Handles |-> NoInfo]
    /\ hfail = [h \in Handles |-> FALSE]

-----------------------------------------------------------------------------
(* Step helpers.                                                           *)

Goto(t, label) == pc' = [pc EXCEPT ![t] = label]

ReturnWith(t, answer) ==
    /\ Goto(t, "return")
    /\ res' = [res EXCEPT ![t] = answer]

(* What the caller sees when a step of the operation ends in this answer:   *)
(* the failure of a probe only ends the probing.                            *)
Outcomes(t, answer) ==
    IF probes[t] = 0 THEN {answer}
    ELSE IF op[t] = "list_dir" THEN {"ok", "failed"} ELSE {"failed"}

(* Leaves with_stream or with_exclusive_stream early; the guard unlocks.    *)
Refuse(t, answer) ==
    /\ lock' = NoThread
    /\ \E outcome \in Outcomes(t, answer) : ReturnWith(t, outcome)

MarkUnusableIf(condition) == connection_usable' = (connection_usable /\ ~condition)

(* Whether the caller goes on to probe with LIST: the classify_* functions *)
(* after a refusal, list_dir and stat after their own listing.             *)
Probing(t) ==
    \/ /\ probes[t] > 0 \/ op[t] = "list_dir"
       /\ err[t] \in {Success, "r550"}
    \/ /\ probes[t] = 0 /\ op[t] \in {"create_dir", "rename"} \cup Stores
       /\ IsCreationRefusal(err[t])
    \/ /\ probes[t] = 0 /\ op[t] \in {"remove_file", "remove_dir", "open"}
       /\ IsFileUnavailable(err[t])

-----------------------------------------------------------------------------
FirstStep(o) ==
    IF o = "is_connected" THEN "observe_usable"
    ELSE IF o = "welcome_message" THEN "welcome" ELSE "lock"

(* A &self call, after its path was accepted.  want only matters to open.   *)
Begin(t) ==
    /\ pc[t] = "idle"
    /\ \A u \in Threads : pc[u] \notin InExclusive
    /\ \E o \in Ops \ Exclusives, w \in 0..1 :
          /\ o # "open" => w = 0
          /\ op' = [op EXCEPT ![t] = o]
          /\ want' = [want EXCEPT ![t] = w]
          /\ Goto(t, FirstStep(o))
    /\ UNCHANGED <<shared, err, res, probes, reconnect, resumed, start, held, handles>>

(* A &mut self call: the borrow checker lets no other call be in progress.  *)
BeginExclusive(t) ==
    /\ \A u \in Threads : pc[u] = "idle"
    /\ \E o \in Ops \cap Exclusives :
          /\ op' = [op EXCEPT ![t] = o]
          /\ Goto(t, IF o = "stream" THEN "accessor" ELSE o)
    /\ UNCHANGED <<shared, err, res, probes, reconnect, want, resumed, start, held, handles>>

Return(t) ==
    /\ pc[t] = "return"
    /\ Goto(t, "idle")
    /\ op' = [op EXCEPT ![t] = "none"]
    /\ err' = [err EXCEPT ![t] = Success]
    /\ res' = [res EXCEPT ![t] = "none"]
    /\ probes' = [probes EXCEPT ![t] = 0]
    /\ reconnect' = [reconnect EXCEPT ![t] = FALSE]
    /\ want' = [want EXCEPT ![t] = 0]
    /\ resumed' = [resumed EXCEPT ![t] = FALSE]
    /\ start' = [start EXCEPT ![t] = 0]
    /\ held' = [held EXCEPT ![t] = NoHandle]
    /\ UNCHANGED <<shared, handles>>

-----------------------------------------------------------------------------
(* with_stream and with_exclusive_stream up to the call of their closure.  *)

Lock(t) ==
    /\ pc[t] = "lock"
    /\ lock = NoThread
    /\ lock' = t
    /\ Goto(t, "check_active")
    /\ UNCHANGED <<stream, transfer_active, connection_usable, chan, locals, handles>>

(* check_operation_state, first load.                                      *)
CheckActive(t) ==
    /\ pc[t] = "check_active"
    /\ \/ /\ transfer_active
          /\ Refuse(t, "TransferInProgress")
       \/ /\ ~transfer_active
          /\ Goto(t, "check_usable")
          /\ UNCHANGED <<lock, res>>
    /\ UNCHANGED <<stream, transfer_active, connection_usable, chan,
                   op, err, probes, reconnect, want, resumed, start, held, handles>>

(* check_operation_state, second load.                                     *)
CheckUsable(t) ==
    /\ pc[t] = "check_usable"
    /\ \/ /\ ~connection_usable
          /\ Refuse(t, "Unusable")
       \/ /\ connection_usable
          /\ Goto(t, "take")
          /\ UNCHANGED <<lock, res>>
    /\ UNCHANGED <<stream, transfer_active, connection_usable, chan,
                   op, err, probes, reconnect, want, resumed, start, held, handles>>

(* Variant: the two loads in the other order.                              *)
CheckOperationStateSwapped(t) ==
    /\ \/ /\ pc[t] = "check_active"
          /\ \/ ~connection_usable /\ Refuse(t, "Unusable")
             \/ connection_usable /\ Goto(t, "check_usable") /\ UNCHANGED <<lock, res>>
       \/ /\ pc[t] = "check_usable"
          /\ \/ transfer_active /\ Refuse(t, "TransferInProgress")
             \/ ~transfer_active /\ Goto(t, "take") /\ UNCHANGED <<lock, res>>
    /\ UNCHANGED <<stream, transfer_active, connection_usable, chan,
                   op, err, probes, reconnect, want, resumed, start, held, handles>>

CheckOperationState(t) == CheckActive(t) \/ CheckUsable(t)

(* guard.as_mut() or guard.take().  stat("/") runs an empty closure.        *)
Take(t) ==
    /\ pc[t] = "take"
    /\ \/ /\ ~stream
          /\ Refuse(t, "NotConnected")
          /\ UNCHANGED stream
       \/ /\ stream
          /\ op[t] = "stat_root"
          /\ Refuse(t, "ok")
          /\ UNCHANGED stream
       \/ /\ stream
          /\ op[t] = "list_dir" \/ probes[t] > 0
          /\ stream' = FALSE
          /\ Goto(t, "raise")
          /\ UNCHANGED <<lock, res>>
       \/ /\ stream
          /\ op[t] \notin {"list_dir", "stat_root"} /\ probes[t] = 0
          /\ Goto(t, IF op[t] # "open" THEN "send" ELSE IF want[t] > 0 THEN "rest" ELSE "retr")
          /\ UNCHANGED <<stream, lock, res>>
    /\ UNCHANGED <<transfer_active, connection_usable, chan,
                   op, err, probes, reconnect, want, resumed, start, held, handles>>

-----------------------------------------------------------------------------
(* Closures that run under the mutex.                                      *)

(* One command: MKD, DELE, RMD, RNFR and RNTO; SITE reports its failure as *)
(* the closure's error, the others as the value of an Ok.                  *)
SendCommand(t) ==
    /\ pc[t] = "send"
    /\ op[t] \in Commands \cup {"exec"}
    /\ \E a \in Command(chan) :
          /\ chan' = a.chan
          /\ err' = [err EXCEPT ![t] = a.err]
          /\ Goto(t, IF a.err = Success THEN "unlock"
                     ELSE IF op[t] = "exec" THEN "fail" ELSE "record")
    /\ UNCHANGED <<lock, stream, transfer_active, connection_usable,
                   op, res, probes, reconnect, want, resumed, start, held, handles>>

(* Variant: the failure of the passive stream builder is not marked.        *)
SendStoreUnhooked(t) ==
    /\ pc[t] = "send"
    /\ op[t] \in Stores
    /\ \E a \in DataCommand(chan) :
          /\ chan' = a.chan
          /\ err' = [err EXCEPT ![t] = a.err]
          /\ Goto(t, IF a.err = Success THEN "start" ELSE "record")
    /\ UNCHANGED <<lock, stream, transfer_active, connection_usable,
                   op, res, probes, reconnect, want, resumed, start, held, handles>>

(* STOR or APPE; the passive stream builder marks its own failure.         *)
SendStore(t) ==
    /\ pc[t] = "send"
    /\ op[t] \in Stores
    /\ \E a \in DataCommand(chan) :
          /\ chan' = a.chan
          /\ MarkUnusableIf(a.hook)
          /\ err' = [err EXCEPT ![t] = a.err]
          /\ Goto(t, IF a.err = Success THEN "start" ELSE "record")
    /\ UNCHANGED <<lock, stream, transfer_active,
                   op, res, probes, reconnect, want, resumed, start, held, handles>>

(* request_offset: the offset may not fit the command; a refusal other     *)
(* than 421 falls back to a local skip.                                    *)
RequestOffset(t) ==
    /\ pc[t] = "rest"
    /\ \/ /\ Goto(t, "retr")
          /\ UNCHANGED <<chan, err, resumed>>
       \/ \E a \in SetMarker(chan) :
             /\ chan' = a.chan
             /\ \/ /\ a.err = Success
                   /\ resumed' = [resumed EXCEPT ![t] = TRUE]
                   /\ Goto(t, "retr")
                   /\ UNCHANGED err
                \/ /\ a.err \in ReplyCodes \ {"r421"}
                   /\ Goto(t, "retr")
                   /\ UNCHANGED <<resumed, err>>
                \/ /\ a.err \in FtpError \ (ReplyCodes \ {"r421"})
                   /\ err' = [err EXCEPT ![t] = a.err]
                   /\ Goto(t, "fail")
                   /\ UNCHANGED resumed
    /\ UNCHANGED <<lock, stream, transfer_active, connection_usable,
                   op, res, probes, reconnect, want, start, held, handles>>

(* retr_as_stream; after a native resume every failure goes through REST 0.*)
Retr(t) ==
    /\ pc[t] = "retr"
    /\ \E a \in DataCommand(chan) :
          /\ chan' = a.chan
          /\ MarkUnusableIf(a.hook)
          /\ err' = [err EXCEPT ![t] = a.err]
          /\ start' = [start EXCEPT ![t] = IF chan.marker THEN 1 ELSE 0]
          /\ Goto(t, IF a.err = Success THEN "start"
                     ELSE IF resumed[t] THEN "reset" ELSE "record")
    /\ UNCHANGED <<lock, stream, transfer_active,
                   op, res, probes, reconnect, want, resumed, held, handles>>

(* Variants: resumed survives a successful REST 0; a refused REST 0 is      *)
(* treated like a refused command.                                         *)
ResetMarkerKeepsResumed(t) ==
    /\ pc[t] = "reset"
    /\ \E a \in ClearMarker(chan) :
          /\ chan' = a.chan
          /\ err' = [err EXCEPT ![t] = a.err]
          /\ MarkUnusableIf(a.err # Success)
          /\ Goto(t, IF a.err = Success THEN "retry" ELSE "fail")
    /\ UNCHANGED <<lock, stream, transfer_active,
                   op, res, probes, reconnect, want, resumed, start, held, handles>>

ResetMarkerUnrecorded(t) ==
    /\ pc[t] = "reset"
    /\ \E a \in ClearMarker(chan) :
          /\ chan' = a.chan
          /\ err' = [err EXCEPT ![t] = a.err]
          /\ resumed' = [resumed EXCEPT ![t] = @ /\ a.err # Success]
          /\ Goto(t, IF a.err = Success THEN "retry" ELSE "fail")
    /\ UNCHANGED <<lock, stream, transfer_active, connection_usable,
                   op, res, probes, reconnect, want, start, held, handles>>

(* resume_transfer(0) after a failed RETR.                                 *)
ResetMarker(t) ==
    /\ pc[t] = "reset"
    /\ \E a \in ClearMarker(chan) :
          /\ chan' = a.chan
          /\ \/ /\ a.err = Success
                /\ resumed' = [resumed EXCEPT ![t] = FALSE]
                /\ Goto(t, "retry")
                /\ UNCHANGED <<connection_usable, err>>
             \/ /\ a.err # Success
                /\ connection_usable' = FALSE
                /\ err' = [err EXCEPT ![t] = a.err]
                /\ Goto(t, "fail")
                /\ UNCHANGED resumed
    /\ UNCHANGED <<lock, stream, transfer_active,
                   op, res, probes, reconnect, want, start, held, handles>>

(* The second retr_as_stream, from the start of the file.                  *)
RetryRetr(t) ==
    /\ pc[t] = "retry"
    /\ \E a \in DataCommand(chan) :
          /\ chan' = a.chan
          /\ MarkUnusableIf(a.hook)
          /\ err' = [err EXCEPT ![t] = a.err]
          /\ start' = [start EXCEPT ![t] = IF chan.marker THEN 1 ELSE 0]
          /\ Goto(t, IF a.err = Success THEN "start" ELSE "record")
    /\ UNCHANGED <<lock, stream, transfer_active,
                   op, res, probes, reconnect, want, resumed, held, handles>>

(* start_transfer, under the lock: the flag goes up, the guard exists.      *)
StartTransfer(t) ==
    /\ pc[t] = "start"
    /\ transfer_active' = TRUE
    /\ \E h \in Handles, tail \in 0..1, length \in 0..Unlimited :
          /\ hstate[h] = "free"
          /\ op[t] \in Stores => tail = 0 /\ length = Unlimited
          /\ hstate' = [hstate EXCEPT ![h] = "held"]
          /\ hinfo' = [hinfo EXCEPT ![h] =
                Info(IF op[t] = "open" THEN "read" ELSE "write",
                     want[t], start[t], tail, length, FALSE)]
          /\ held' = [held EXCEPT ![t] = h]
    /\ Goto(t, "unlock")
    /\ UNCHANGED <<lock, stream, connection_usable, chan,
                   op, err, res, probes, reconnect, want, resumed, start, hfail>>

(* record_ftp_error inside the closure.                                    *)
Record(t) ==
    /\ pc[t] = "record"
    /\ MarkUnusableIf(TransferSetupRequiresReconnect(err[t]))
    /\ Goto(t, "unlock")
    /\ UNCHANGED <<lock, stream, transfer_active, chan, locals, handles>>

(* with_stream's record_remote_error when the closure itself failed.        *)
Fail(t) ==
    /\ pc[t] = "fail"
    /\ MarkUnusableIf(RemoteErrorRequiresReconnect(FromFtp(err[t])))
    /\ Refuse(t, "failed")
    /\ UNCHANGED <<stream, transfer_active, chan,
                   op, err, probes, reconnect, want, resumed, start, held, handles>>

(* The end of with_stream, and what the operation does next.               *)
Unlock(t) ==
    /\ pc[t] = "unlock"
    /\ lock' = NoThread
    /\ \/ /\ err[t] = Success /\ held[t] = NoHandle
          /\ ReturnWith(t, "ok")
       \/ /\ err[t] = Success /\ held[t] # NoHandle
          /\ Goto(t, IF op[t] = "open" /\ want[t] > 0 /\ ~resumed[t] THEN "skip" ELSE "deliver")
          /\ UNCHANGED res
       \/ /\ err[t] # Success /\ op[t] = "remove_dir"
          /\ Goto(t, "rerecord")
          /\ UNCHANGED res
       \/ /\ err[t] # Success /\ op[t] # "remove_dir" /\ Probing(t)
          /\ Goto(t, "classify")
          /\ UNCHANGED res
       \/ /\ err[t] # Success /\ op[t] # "remove_dir" /\ ~Probing(t)
          /\ ReturnWith(t, "failed")
    /\ UNCHANGED <<stream, transfer_active, connection_usable, chan,
                   op, err, probes, reconnect, want, resumed, start, held, handles>>

(* remove_dir records the same error again, without the lock.              *)
ReRecord(t) ==
    /\ pc[t] = "rerecord"
    /\ MarkUnusableIf(TransferSetupRequiresReconnect(err[t]))
    /\ \/ /\ Probing(t)
          /\ Goto(t, "classify")
          /\ UNCHANGED res
       \/ /\ ~Probing(t)
          /\ ReturnWith(t, "failed")
    /\ UNCHANGED <<lock, stream, transfer_active, chan,
                   op, err, probes, reconnect, want, resumed, start, held, handles>>

(* classify_* and the metadata lookups: another LIST, or enough evidence;  *)
(* a listing that was read may still fail to parse.                        *)
Classify(t) ==
    /\ pc[t] = "classify"
    /\ \/ /\ probes[t] < MaxProbes
          /\ probes' = [probes EXCEPT ![t] = @ + 1]
          /\ err' = [err EXCEPT ![t] = Success]
          /\ reconnect' = [reconnect EXCEPT ![t] = FALSE]
          /\ Goto(t, "lock")
          /\ UNCHANGED res
       \/ /\ \E outcome \in {"failed"} \cup Outcomes(t, IF err[t] = Success THEN "ok" ELSE "failed") :
                ReturnWith(t, outcome)
          /\ UNCHANGED <<probes, err, reconnect>>
    /\ UNCHANGED <<shared, op, want, resumed, start, held, handles>>

-----------------------------------------------------------------------------
(* with_exclusive_stream: list_dir_raw without the mutex.                  *)

(* Variant: the guard lives to the end of the function.                    *)
RaiseWithoutUnlock(t) ==
    /\ pc[t] = "raise"
    /\ transfer_active' = TRUE
    /\ Goto(t, "list")
    /\ UNCHANGED <<lock, stream, connection_usable, chan, locals, handles>>

Raise(t) ==
    /\ pc[t] = "raise"
    /\ transfer_active' = TRUE
    /\ lock' = NoThread
    /\ Goto(t, "list")
    /\ UNCHANGED <<stream, connection_usable, chan, locals, handles>>

(* read_list_bytes: the data command.                                      *)
ListCommand(t) ==
    /\ pc[t] = "list"
    /\ \E a \in DataCommand(chan) :
          /\ chan' = a.chan
          /\ MarkUnusableIf(a.hook)
          /\ err' = [err EXCEPT ![t] = a.err]
          /\ \/ /\ a.err = Success
                /\ Goto(t, "list_transfer")
                /\ UNCHANGED reconnect
             \/ /\ a.err # Success
                /\ reconnect' = [reconnect EXCEPT ![t] = TransferSetupRequiresReconnect(a.err)]
                /\ Goto(t, "list_record")
    /\ UNCHANGED <<lock, stream, transfer_active,
                   op, res, probes, want, resumed, start, held, handles>>

(* read_list_bytes: read to the end, then the completion reply; either     *)
(* failure asks for a reconnect, and the completion's decides the error.    *)
ListTransfer(t) ==
    /\ pc[t] = "list_transfer"
    /\ \E readFails \in BOOLEAN :
       \E a \in Completion(IF readFails THEN Faulty(chan) ELSE chan, readFails) :
          /\ chan' = a.chan
          /\ err' = [err EXCEPT ![t] = IF a.err = Success /\ readFails
                                       THEN "ConnectionError" ELSE a.err]
          /\ reconnect' = [reconnect EXCEPT ![t] = readFails \/ a.err # Success]
    /\ Goto(t, "list_record")
    /\ UNCHANGED <<lock, stream, transfer_active, connection_usable,
                   op, res, probes, want, resumed, start, held, handles>>

(* list_dir_raw's mark, then with_exclusive_stream's record_remote_error.   *)
ListRecord(t) ==
    /\ pc[t] = "list_record"
    /\ MarkUnusableIf(\/ reconnect[t]
                      \/ err[t] # Success /\ RemoteErrorRequiresReconnect(FromFtp(err[t])))
    /\ Goto(t, "give_back")
    /\ UNCHANGED <<lock, stream, transfer_active, chan, locals, handles>>

(* ExclusiveStream::drop: the stream goes back under the lock ...           *)
GiveBack(t) ==
    /\ pc[t] = "give_back"
    /\ lock = NoThread
    /\ stream' = TRUE
    /\ Goto(t, "lower")
    /\ UNCHANGED <<lock, transfer_active, connection_usable, chan, locals, handles>>

(* ... and only then the flag comes down.                                  *)
Lower(t) ==
    /\ pc[t] = "lower"
    /\ transfer_active' = FALSE
    /\ \/ /\ Probing(t)
          /\ Goto(t, "classify")
          /\ UNCHANGED res
       \/ /\ ~Probing(t)
          /\ ReturnWith(t, "failed")
    /\ UNCHANGED <<lock, stream, connection_usable, chan,
                   op, err, probes, reconnect, want, resumed, start, held, handles>>

(* Variant: the flag comes down first, and the stream goes back after it.  *)
DropExclusiveStreamSwapped(t) ==
    \/ /\ pc[t] = "give_back"
       /\ transfer_active
       /\ transfer_active' = FALSE
       /\ UNCHANGED <<lock, stream, connection_usable, chan, pc, locals, handles>>
    \/ /\ pc[t] = "give_back"
       /\ ~transfer_active
       /\ lock = NoThread
       /\ stream' = TRUE
       /\ \/ Probing(t) /\ Goto(t, "classify") /\ UNCHANGED res
          \/ ~Probing(t) /\ ReturnWith(t, "failed")
       /\ UNCHANGED <<lock, transfer_active, connection_usable, chan,
                      op, err, probes, reconnect, want, resumed, start, held, handles>>

DropExclusiveStream(t) == GiveBack(t) \/ Lower(t)

-----------------------------------------------------------------------------
(* open() after its lock is released, and the handles.                     *)

(* skip_prefix: offset bytes are discarded from wherever the server began; *)
(* skipped < offset sets at_eof.                                           *)
SkipPrefix(t) ==
    /\ pc[t] = "skip"
    /\ \E tail \in 0..1, short \in BOOLEAN :
          /\ short => tail = 0
          /\ hinfo' = [hinfo EXCEPT ![held[t]] =
                Info(@.dir, @.want, @.pos + want[t], tail, @.remaining, short)]
    /\ Goto(t, "deliver")
    /\ UNCHANGED <<shared, locals, hstate, hfail>>

(* skip_prefix failed: finish_after_skip cleans up before open() returns.   *)
SkipFails(t) ==
    /\ pc[t] = "skip"
    /\ chan' = Faulty(chan)
    /\ hstate' = [hstate EXCEPT ![held[t]] = "drain"]
    /\ Goto(t, "await")
    /\ UNCHANGED <<lock, stream, transfer_active, connection_usable, locals, hinfo, hfail>>

AwaitCleanup(t) ==
    /\ pc[t] = "await"
    /\ hstate[held[t]] = "free"
    /\ ReturnWith(t, "failed")
    /\ UNCHANGED <<shared, op, err, probes, reconnect, want, resumed, start, held, handles>>

(* The call returns its ReadStream or WriteStream: any thread may use it.   *)
Deliver(t) ==
    /\ pc[t] = "deliver"
    /\ hstate' = [hstate EXCEPT ![held[t]] = "open"]
    /\ ReturnWith(t, "ok")
    /\ UNCHANGED <<shared, op, err, probes, reconnect, want, resumed, start, held, hinfo, hfail>>

(* FtpReadStream::read.                                                    *)
Read(h) ==
    /\ hstate[h] = "open"
    /\ hinfo[h].dir = "read"
    /\ hinfo' = [hinfo EXCEPT ![h] = AfterRead(@)]
    /\ UNCHANGED <<shared, pc, locals, hstate, hfail>>

(* Variant: the guard goes before the transfer is cleaned up.              *)
FinishGuardFirst(h) ==
    /\ hstate[h] = "open"
    /\ transfer_active' = FALSE
    /\ hstate' = [hstate EXCEPT ![h] =
          IF hinfo[h].dir = "read" /\ hinfo[h].eof THEN "finalize" ELSE "drain"]
    /\ UNCHANGED <<lock, stream, connection_usable, chan, pc, locals, hinfo, hfail>>

(* finish() or drop: at EOF nothing is left to drain; an upload flushes.   *)
Finish(h) ==
    /\ hstate[h] = "open"
    /\ hstate' = [hstate EXCEPT ![h] =
          IF hinfo[h].dir = "read" /\ hinfo[h].eof THEN "finalize" ELSE "drain"]
    /\ UNCHANGED <<shared, pc, locals, hinfo, hfail>>

(* io::copy to the sink, or the flush of an upload.                        *)
Drain(h) ==
    /\ hstate[h] = "drain"
    /\ \/ /\ hinfo' = [hinfo EXCEPT ![h] =
                Info(@.dir, @.want, @.pos, 0, @.remaining, @.eof)]
          /\ UNCHANGED <<hfail, chan>>
       \/ /\ hfail' = [hfail EXCEPT ![h] = TRUE]
          /\ chan' = Faulty(chan)
          /\ UNCHANGED hinfo
    /\ hstate' = [hstate EXCEPT ![h] = "finalize"]
    /\ UNCHANGED <<lock, stream, transfer_active, connection_usable, pc, locals>>

(* TransferStream::finish, whatever the drain did.                         *)
Finalize(h) ==
    /\ hstate[h] = "finalize"
    /\ \E a \in Completion(chan, hinfo[h].tail > 0) :
          /\ chan' = a.chan
          /\ hfail' = [hfail EXCEPT ![h] = @ \/ a.err # Success]
          /\ hstate' = [hstate EXCEPT ![h] =
                IF hfail[h] \/ a.err # Success THEN "invalidate" ELSE "release"]
    /\ UNCHANGED <<lock, stream, transfer_active, connection_usable, pc, locals, hinfo>>

(* TransferGuard::invalidate.                                              *)
Invalidate(h) ==
    /\ hstate[h] = "invalidate"
    /\ connection_usable' = FALSE
    /\ hstate' = [hstate EXCEPT ![h] = "release"]
    /\ UNCHANGED <<lock, stream, transfer_active, chan, pc, locals, hinfo, hfail>>

(* Variant: the flag is never lowered.                                     *)
ReleaseForgotten(h) ==
    /\ hstate[h] = "release"
    /\ hstate' = [hstate EXCEPT ![h] = "free"]
    /\ hinfo' = [hinfo EXCEPT ![h] = NoInfo]
    /\ hfail' = [hfail EXCEPT ![h] = FALSE]
    /\ UNCHANGED <<shared, pc, locals>>

(* TransferGuard::drop, the last field of the stream to go.                *)
Release(h) ==
    /\ hstate[h] = "release"
    /\ transfer_active' = FALSE
    /\ hstate' = [hstate EXCEPT ![h] = "free"]
    /\ hinfo' = [hinfo EXCEPT ![h] = NoInfo]
    /\ hfail' = [hfail EXCEPT ![h] = FALSE]
    /\ UNCHANGED <<lock, stream, connection_usable, chan, pc, locals>>

-----------------------------------------------------------------------------
(* Observers: is_connected loads usable, then locks, then loads active.    *)

ObserveUsable(t) ==
    /\ pc[t] = "observe_usable"
    /\ \/ /\ connection_usable
          /\ Goto(t, "observe_stream")
          /\ UNCHANGED res
       \/ /\ ~connection_usable
          /\ ReturnWith(t, "false")
    /\ UNCHANGED <<shared, op, err, probes, reconnect, want, resumed, start, held, handles>>

ObserveStream(t) ==
    /\ pc[t] = "observe_stream"
    /\ lock = NoThread
    /\ \/ /\ stream
          /\ ReturnWith(t, "true")
       \/ /\ ~stream
          /\ Goto(t, "observe_active")
          /\ UNCHANGED res
    /\ UNCHANGED <<shared, op, err, probes, reconnect, want, resumed, start, held, handles>>

ObserveActive(t) ==
    /\ pc[t] = "observe_active"
    /\ ReturnWith(t, IF transfer_active THEN "true" ELSE "false")
    /\ UNCHANGED <<shared, op, err, probes, reconnect, want, resumed, start, held, handles>>

(* welcome_message, for a server that sent a banner.                       *)
WelcomeMessage(t) ==
    /\ pc[t] = "welcome"
    /\ lock = NoThread
    /\ ReturnWith(t, IF stream THEN "banner" ELSE "no_banner")
    /\ UNCHANGED <<shared, op, err, probes, reconnect, want, resumed, start, held, handles>>

-----------------------------------------------------------------------------
(* &mut self.                                                              *)

ConnectCheckActive(t) ==
    /\ pc[t] = "connect"
    /\ \/ /\ transfer_active
          /\ ReturnWith(t, "TransferInProgress")
       \/ /\ ~transfer_active
          /\ Goto(t, "connect_reset")
          /\ UNCHANGED res
    /\ UNCHANGED <<shared, op, err, probes, reconnect, want, resumed, start, held, handles>>

(* Variant: only an unusable stream is forgotten, not the flag that a      *)
(* failed QUIT left behind without a stream.                               *)
ConnectResetNeedsStream(t) ==
    /\ pc[t] = "connect_reset"
    /\ \/ /\ connection_usable /\ stream
          /\ ReturnWith(t, "AlreadyConnected")
          /\ UNCHANGED <<stream, connection_usable, chan>>
       \/ /\ ~stream
          /\ Goto(t, "dial")
          /\ UNCHANGED <<stream, connection_usable, chan, res>>
       \/ /\ ~connection_usable /\ stream
          /\ stream' = FALSE
          /\ connection_usable' = TRUE
          /\ chan' = Fresh
          /\ Goto(t, "dial")
          /\ UNCHANGED res
    /\ UNCHANGED <<lock, transfer_active,
                   op, err, probes, reconnect, want, resumed, start, held, handles>>

(* AlreadyConnected, or forget an unusable stream before dialling.         *)
ConnectReset(t) ==
    /\ pc[t] = "connect_reset"
    /\ \/ /\ connection_usable /\ stream
          /\ ReturnWith(t, "AlreadyConnected")
          /\ UNCHANGED <<stream, connection_usable, chan>>
       \/ /\ connection_usable /\ ~stream
          /\ Goto(t, "dial")
          /\ UNCHANGED <<stream, connection_usable, chan, res>>
       \/ /\ ~connection_usable
          /\ stream' = FALSE
          /\ connection_usable' = TRUE
          /\ chan' = Fresh
          /\ Goto(t, "dial")
          /\ UNCHANGED res
    /\ UNCHANGED <<lock, transfer_active,
                   op, err, probes, reconnect, want, resumed, start, held, handles>>

(* TCP, TLS, login and TYPE I on a stream local to connect().               *)
Dial(t) ==
    /\ pc[t] = "dial"
    /\ \/ /\ stream' = TRUE
          /\ chan' = Fresh
          /\ ReturnWith(t, "ok")
       \/ /\ ReturnWith(t, "failed")
          /\ UNCHANGED <<stream, chan>>
    /\ UNCHANGED <<lock, transfer_active, connection_usable,
                   op, err, probes, reconnect, want, resumed, start, held, handles>>

(* Variant: the flag is not looked at.                                     *)
DisconnectUnchecked(t) ==
    /\ pc[t] = "disconnect"
    /\ Goto(t, "hang_up")
    /\ UNCHANGED <<shared, locals, handles>>

DisconnectCheckActive(t) ==
    /\ pc[t] = "disconnect"
    /\ \/ /\ transfer_active
          /\ ReturnWith(t, "TransferInProgress")
       \/ /\ ~transfer_active
          /\ Goto(t, "hang_up")
          /\ UNCHANGED res
    /\ UNCHANGED <<shared, op, err, probes, reconnect, want, resumed, start, held, handles>>

(* The stream is taken and the flag reset whether or not QUIT will be sent. *)
HangUp(t) ==
    /\ pc[t] = "hang_up"
    /\ \/ /\ ~stream
          /\ ReturnWith(t, "NotConnected")
          /\ UNCHANGED <<stream, connection_usable, chan>>
       \/ /\ stream
          /\ stream' = FALSE
          /\ connection_usable' = TRUE
          /\ \/ /\ connection_usable
                /\ Goto(t, "quit")
                /\ UNCHANGED <<chan, res>>
             \/ /\ ~connection_usable
                /\ chan' = Fresh
                /\ ReturnWith(t, "Unusable")
    /\ UNCHANGED <<lock, transfer_active,
                   op, err, probes, reconnect, want, resumed, start, held, handles>>

(* QUIT on a stream that is dropped afterwards either way.                 *)
Quit(t) ==
    /\ pc[t] = "quit"
    /\ \E a \in Command(chan) :
          /\ MarkUnusableIf(a.err # Success /\ RemoteErrorRequiresReconnect(FromFtp(a.err)))
          /\ ReturnWith(t, IF a.err = Success THEN "ok" ELSE "failed")
    /\ chan' = Fresh
    /\ UNCHANGED <<lock, stream, transfer_active,
                   op, err, probes, reconnect, want, resumed, start, held, handles>>

(* stream(): two loads, then the Option.                                   *)
Accessor(t) ==
    /\ pc[t] = "accessor"
    /\ \/ /\ ~transfer_active /\ connection_usable /\ stream
          /\ Goto(t, "raw")
          /\ UNCHANGED res
       \/ /\ transfer_active \/ ~connection_usable \/ ~stream
          /\ ReturnWith(t, "failed")
    /\ UNCHANGED <<shared, op, err, probes, reconnect, want, resumed, start, held, handles>>

(* The caller's own commands leave the connection as they found it.        *)
RawCommands(t) ==
    /\ pc[t] = "raw"
    /\ ReturnWith(t, "ok")
    /\ UNCHANGED <<shared, op, err, probes, reconnect, want, resumed, start, held, handles>>

-----------------------------------------------------------------------------
ThreadStep(t) ==
    \/ Return(t)
    \/ Lock(t) \/ CheckOperationState(t) \/ Take(t)
    \/ SendCommand(t) \/ SendStore(t)
    \/ RequestOffset(t) \/ Retr(t) \/ ResetMarker(t) \/ RetryRetr(t)
    \/ StartTransfer(t) \/ Record(t) \/ Fail(t) \/ Unlock(t) \/ ReRecord(t) \/ Classify(t)
    \/ Raise(t) \/ ListCommand(t) \/ ListTransfer(t) \/ ListRecord(t)
    \/ DropExclusiveStream(t)
    \/ SkipPrefix(t) \/ SkipFails(t) \/ AwaitCleanup(t) \/ Deliver(t)
    \/ ObserveUsable(t) \/ ObserveStream(t) \/ ObserveActive(t) \/ WelcomeMessage(t)
    \/ ConnectCheckActive(t) \/ ConnectReset(t) \/ Dial(t)
    \/ DisconnectCheckActive(t) \/ HangUp(t) \/ Quit(t)
    \/ Accessor(t) \/ RawCommands(t)

CleanupStep(h) == Drain(h) \/ Finalize(h) \/ Invalidate(h) \/ Release(h)

Next ==
    \/ \E t \in Threads : Begin(t) \/ BeginExclusive(t) \/ ThreadStep(t)
    \/ \E h \in Handles : Read(h) \/ Finish(h) \/ CleanupStep(h)

Spec == Init /\ [][Next]_vars

(* A thread inside a call runs on; a cleanup that has begun runs on.        *)
(* Nothing makes the application start a call, read, or finish a stream.   *)
Fairness ==
    /\ \A t \in Threads : WF_vars(ThreadStep(t))
    /\ \A h \in Handles : WF_vars(CleanupStep(h))

FairSpec == Spec /\ Fairness

-----------------------------------------------------------------------------
(* Properties.                                                             *)

(* Every variable keeps its type; in particular the byte budget of a       *)
(* limited read never underflows.                                          *)
TypeOK ==
    /\ lock \in Threads \cup {NoThread}
    /\ stream \in BOOLEAN
    /\ transfer_active \in BOOLEAN
    /\ connection_usable \in BOOLEAN
    /\ chan \in Channel
    /\ pc \in [Threads -> PCs]
    /\ op \in [Threads -> AllOps \cup {"none"}]
    /\ err \in [Threads -> FtpError \cup {Success}]
    /\ res \in [Threads -> Results]
    /\ probes \in [Threads -> 0..MaxProbes]
    /\ reconnect \in [Threads -> BOOLEAN]
    /\ want \in [Threads -> 0..1]
    /\ resumed \in [Threads -> BOOLEAN]
    /\ start \in [Threads -> 0..1]
    /\ held \in [Threads -> Handles \cup {NoHandle}]
    /\ hstate \in [Handles -> HandleStates]
    /\ hinfo \in [Handles -> HandleInfo]
    /\ hfail \in [Handles -> BOOLEAN]

(* Where a thread is about to send, or is in the middle of, an exchange on *)
(* the control connection; and where that exchange begins.                 *)
BeginsExchange == {"send", "rest", "retr", "list", "quit", "raw"}
InExchange == BeginsExchange \cup {"reset", "retry", "start", "list_transfer"}

(* A managed operation never sends its first command on a connection whose *)
(* replies are out of step or whose server announced its shutdown: every   *)
(* such failure is recorded (record_ftp_error, mark_connection_unusable,   *)
(* TransferGuard::invalidate) before anybody else passes                   *)
(* check_operation_state.                                                  *)
CommandsOnSyncedChannel ==
    \A t \in Threads : pc[t] \in BeginsExchange => chan.synced

(* One user of the control connection at a time: a thread under the mutex, *)
(* a LIST that carried the stream off, or a handle from start_transfer     *)
(* until its guard is dropped.                                             *)
ControlChannelExclusive ==
    /\ \A t, u \in Threads :
          pc[t] \in InExchange /\ pc[u] \in InExchange => t = u
    /\ \A h, k \in Handles : Alive(h) /\ Alive(k) => h = k
    /\ \A t \in Threads, h \in Handles : pc[t] \in InExchange => ~Alive(h)

(* The stream open() returns begins at the requested offset, whether the   *)
(* server honoured REST, refused it, or accepted it and then refused the   *)
(* RETR that open() retries from zero.                                     *)
ReadStartsAtOffset ==
    \A h \in Handles : hstate[h] = "open" => hinfo[h].pos = hinfo[h].want

(* No operation begins while the server still holds a restart marker left  *)
(* by an earlier open(): it would cut the head off the next transfer.      *)
NoStrayRestartMarker ==
    \A t \in Threads : pc[t] \in BeginsExchange \ {"retr"} => ~chan.marker

(* A connection is given up only for a reason: something failed on it, or  *)
(* a restart marker could not be cleared.  Refusals, partly read downloads *)
(* and exhausted byte budgets do not cost the connection.                  *)
UnusableForAReason ==
    SessionExists /\ ~connection_usable => chan.fault \/ chan.marker

(* A live transfer stream keeps its session: connect and disconnect cannot *)
(* replace or drop the control stream under it, and LIST cannot take it.   *)
HandleKeepsSession ==
    \A h \in Handles : Alive(h) => stream /\ transfer_active

(* What a caller is told of the session was so: is_connected answers true  *)
(* only while there is one, an operation NotConnected only while there is  *)
(* none.  A LIST leaves the Option in the mutex empty for as long as it    *)
(* runs; the flag raised under the lock that took the stream, and lowered  *)
(* only after the stream is back, keeps everybody else from taking that    *)
(* for a closed client.                                                    *)
SessionAnswersAreTrue ==
    \A t \in Threads :
        /\ res[t] = "true" => SessionExists
        /\ res[t] = "NotConnected" => ~SessionExists

(* connect() never reports success, or AlreadyConnected, over a session    *)
(* that check_operation_state would refuse or whose replies are out of     *)
(* step: whatever an earlier QUIT, cleanup or failed dial left in the flag *)
(* and in the Option, the caller holds a session it can use.               *)
ConnectLeavesItUsable ==
    [][\A t \in Threads :
          pc[t] \in {"connect", "connect_reset", "dial"}
          /\ pc'[t] = "return" /\ res'[t] \in {"ok", "AlreadyConnected"}
          => stream' /\ connection_usable' /\ ~transfer_active' /\ chan'.synced]_vars

(* An unusable connection becomes usable again only by losing the stream   *)
(* whose replies were out of step: no path clears the flag in place.       *)
UsableAgainOnlyWithoutStream ==
    [][~connection_usable /\ connection_usable' => ~stream']_vars

(* A thread that holds the mutex lets go of it: no closure waits for the    *)
(* lock, for a transfer stream or for another thread.                      *)
LockIsReleased == \A t \in Threads : lock = t ~> lock # t

(* Cleanup, once begun by finish or drop, lowers transfer_active whatever  *)
(* fails on the way, and needs no lock to do so.                           *)
CleanupFreesTheClient ==
    \A h \in Handles : hstate[h] \in {"drain", "finalize"} ~> ~transfer_active
=============================================================================
