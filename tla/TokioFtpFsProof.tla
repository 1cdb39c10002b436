-------------------------- MODULE TokioFtpFsProof --------------------------
(***************************************************************************)
(* Proofs about TokioFtpFs.  Whatever is cancelled: its types, the         *)
(* exclusive use of the control connection, the session under a live       *)
(* transfer stream, and the truth of is_connected.  If finish() is polled  *)
(* to its end: a connection out of step is marked.  If moreover a single   *)
(* task uses the client: no command on a connection out of step, the       *)
(* offset of open(), and ManagedControl.  The runs tokio_cancelled_finish and tokio_late_record *)
(* drop one hypothesis each and find a command on a connection out of step. *)
(***************************************************************************)
EXTENDS TokioFtpFsManaged, ControlChannelProof

UnderMutex == Awaiting \cup Settling

(* The mutex and the program counters agree.                               *)
LockInv ==
    \A t \in Tasks : pc[t] \in UnderMutex <=> lock = t

(* The borrow checker: while a &mut self call runs, nobody else does.      *)
BorrowInv ==
    \A t, u \in Tasks : pc[t] \in InExclusive /\ u # t => pc[u] = "idle"

(* Steps reached only after transfer_active was seen to be false.          *)
SawInactive ==
    Awaiting \cup {"check_usable", "take", "start", "record", "fail", "unwind",
                   "connect_reset", "dial", "hang_up", "quit", "raw"}

(* Steps reached only after the Option was found to be Some.               *)
SawStream == Awaiting \cup {"start", "record", "fail", "unwind", "complete", "raw"}

ActiveInv ==
    /\ connected = stream
    /\ transfer_active => stream
    /\ \A t \in Tasks : pc[t] \in SawInactive => ~transfer_active
    /\ \A t \in Tasks : pc[t] \in SawStream => stream

(* A task whose open(), create() or append() has not handed its stream to  *)
(* the caller yet.                                                         *)
Holding(t) == pc[t] \in {"skip", "deliver"} \/ (pc[t] = "complete" /\ held[t] # NoHandle)

HandleInv ==
    /\ \A h \in Handles : Alive(h) => transfer_active
    /\ \A h, k \in Handles : Alive(h) /\ Alive(k) => h = k
    /\ \A t \in Tasks : Holding(t) => held[t] \in Handles /\ hstate[held[t]] = "held"
    /\ \A t, u \in Tasks : Holding(t) /\ Holding(u) => t = u
    /\ \A t \in Tasks : held[t] # NoHandle =>
          pc[t] \in {"complete", "skip", "deliver", "await", "return"}
    /\ \A t \in Tasks : pc[t] = "complete" /\ held[t] = NoHandle => ~transfer_active

(* Which operation reaches which step.                                     *)
PhaseInv ==
    /\ \A t \in Tasks :
          \/ pc[t] \in {"send", "rest", "retr", "reset", "retry", "start", "record", "fail"}
          \/ Holding(t)
          => ~Listing(t)
    /\ \A t \in Tasks : pc[t] \in {"list", "list_transfer"} => Listing(t)
    /\ \A t \in Tasks : pc[t] \in {"rest", "retr", "reset", "retry"} => op[t] = "open"
    /\ \A t \in Tasks :
          pc[t] \in {"start", "record"} \/ Holding(t) => op[t] \in Stores \cup {"open"}

(* An answer lives until its call has returned.                            *)
AnswerInv ==
    /\ \A t \in Tasks : res[t] # "none" => pc[t] = "return"
    /\ ConnectedAnswerIsTrue

IInv == TypeOK /\ LockInv /\ BorrowInv /\ ActiveInv /\ HandleInv /\ PhaseInv /\ AnswerInv

(* The failures that this task has yet to record.                          *)
WillRecord(t) ==
    IF Listing(t) THEN reconnect[t]
    ELSE op[t] \in Commands /\ TransferSetupRequiresReconnect(err[t])

(* A task that is bound to mark the connection unusable.                   *)
Marks(t) ==
    \/ pc[t] \in {"reset", "unwind", "late_unwind"}
    \/ pc[t] \in {"record", "fail"} /\ TransferSetupRequiresReconnect(err[t])
    \/ pc[t] \in {"complete", "late_record"} /\ WillRecord(t)

MarkedInv ==
    /\ \/ chan.synced \/ ~connection_usable
       \/ \E t \in Tasks : Marks(t)
       \/ \E h \in Handles : hstate[h] = "invalidate"
    /\ \A t \in Tasks : pc[t] = "fail" => err[t] \in FtpError
    /\ \A t \in Tasks : pc[t] = "skip" => op[t] = "open"
    /\ \A t \in Tasks : Holding(t) /\ op[t] = "open" => hinfo[held[t]].dir = "read"
    /\ \A h \in Handles : hinfo[h].eof \/ hinfo[h].dir = "write" => hinfo[h].tail = 0
    /\ \A h \in Handles : hstate[h] = "dropped" /\ hinfo[h].tail > 0 => ~connection_usable

Clean == chan.synced /\ ~chan.marker

(* What a client used by one task at a time knows about its connection.    *)
CleanInv ==
    /\ \/ Clean \/ ~connection_usable
       \/ \E t \in Tasks : Marks(t) \/ pc[t] = "retr"
       \/ \E h \in Handles : hstate[h] = "invalidate"
    /\ \A t \in Tasks : pc[t] \in {"take", "send", "rest", "list", "raw"} =>
          connection_usable /\ Clean
    /\ \A t \in Tasks : pc[t] \in {"retry", "start", "list_transfer", "quit"} => Clean
    /\ \A t \in Tasks : pc[t] = "retr" =>
          connection_usable /\ chan.synced /\ (chan.marker => resumed[t])
    /\ \A t \in Tasks : pc[t] \in {"record", "complete", "late_record"} =>
          \/ Clean \/ ~connection_usable \/ Marks(t)
    /\ \A t \in Tasks : pc[t] \in {"late_record", "late_unwind"} => ~transfer_active
    /\ \A h \in Handles : hstate[h] \in {"held", "open", "drain", "finalize"} => Clean
    /\ \A h \in Handles : hstate[h] = "release" => Clean \/ ~connection_usable

(* Where a RETR of this task starts, as far as REST has told.              *)
ServedFrom(t) == IF resumed[t] THEN want[t] ELSE 0

OffsetInv ==
    /\ \A t \in Tasks : pc[t] = "idle" =>
          want[t] = 0 /\ ~resumed[t] /\ start[t] = 0 /\ probes[t] = 0
    /\ \A t \in Tasks : want[t] = 0 \/ op[t] = "open"
    /\ \A t \in Tasks :
          \/ pc[t] \in {"lock", "check_active", "check_usable", "take"} /\ probes[t] = 0
          \/ pc[t] \in {"send", "rest"}
          => ~resumed[t] /\ start[t] = 0
    /\ \A t \in Tasks : pc[t] = "rest" => want[t] = 1
    /\ \A t \in Tasks : pc[t] = "retr" =>
          (resumed[t] <=> chan.marker) /\ (resumed[t] => want[t] = 1)
    /\ \A t \in Tasks : pc[t] = "retry" => ~resumed[t]
    /\ \A t \in Tasks : pc[t] = "start" => start[t] = ServedFrom(t)
    /\ \A t \in Tasks : Holding(t) => hinfo[held[t]].want = want[t]
    /\ \A t \in Tasks :
          Holding(t) /\ pc[t] # "deliver" => hinfo[held[t]].pos = ServedFrom(t)
    /\ \A t \in Tasks : pc[t] = "skip" => ~resumed[t]
    /\ \A t \in Tasks : pc[t] = "deliver" => hinfo[held[t]].pos = want[t]
    /\ ReadStartsAtOffset

(* No finish() future is dropped before it is done.                        *)
FinishRunsToItsEnd == "finish" \notin Cancellable

(* The client is not shared.                                               *)
OneTask == \A t, u \in Tasks : t = u

-----------------------------------------------------------------------------
(* Types and helpers.                                                      *)

(* lock_stream's early returns, and the end of an operation, let go of the *)
(* mutex and answer the caller.                                            *)
LEMMA UnlockEffect ==
    ASSUME NEW t \in Tasks, NEW answer, Unlock(t, answer)
    PROVE  /\ lock' = NoTask
           /\ pc' = [pc EXCEPT ![t] = "return"]
           /\ \E outcome \in {answer, "ok", "failed"} : res' = [res EXCEPT ![t] = outcome]
BY DEF Unlock, ReturnWith, Goto, Outcomes

(* A read meets the end of the file only when the socket has no more.      *)
LEMMA EofIsEmpty ==
    ASSUME NEW i \in HandleInfo, i.eof \/ i.dir = "write" => i.tail = 0
    PROVE  /\ AfterRead(i).eof \/ AfterRead(i).dir = "write" => AfterRead(i).tail = 0
           /\ AfterRead(i).dir = i.dir
BY InfoFields DEF AfterRead, AfterReading, Readable, Info

(* The client TokioFtpFs::new builds is well typed.                        *)
LEMMA TypeInit == Init => TypeOK
<1> SUFFICES ASSUME Init PROVE TypeOK
  OBVIOUS
<1>1. chan \in Channel /\ hinfo \in [Handles -> HandleInfo]
  BY FreshChannel, NoInfoType DEF Init
<1>2. pc \in [Tasks -> PCs] /\ res \in [Tasks -> Results]
  BY DEF Init, PCs, Results
<1>3. hstate \in [Handles -> HandleStates] /\ hfail \in [Handles -> BOOLEAN]
  BY DEF Init, HandleStates
<1>4. probes \in [Tasks -> 0..MaxProbes]
  BY TokioFtpFsAssumption DEF Init
<1>5. /\ reconnect \in [Tasks -> BOOLEAN] /\ resumed \in [Tasks -> BOOLEAN]
      /\ want \in [Tasks -> 0..1] /\ start \in [Tasks -> 0..1]
  BY DEF Init
<1>6. /\ op \in [Tasks -> AllOps \cup {"none"}]
      /\ err \in [Tasks -> FtpError \cup {Success}]
      /\ held \in [Tasks -> Handles \cup {NoHandle}]
  BY DEF Init
<1> QED
  BY <1>1, <1>2, <1>3, <1>4, <1>5, <1>6 DEF Init, TypeOK

(* No step of a task, a stream or a cancellation leaves the types.         *)
LEMMA TypeStep ==
    ASSUME TypeOK, [Next]_vars
    PROVE  TypeOK'
<1> USE TokioFtpFsAssumption
        DEF PCs, Awaiting, Settling, Unlocked, InExclusive, Results
<1>1. ASSUME NEW t \in Tasks, Begin(t) PROVE TypeOK'
  BY <1>1 DEF Begin, TypeOK, shared, handles, Goto, FirstStep, AllOps,
     Exclusives, Commands, Stores
<1>2. ASSUME NEW t \in Tasks, BeginExclusive(t) PROVE TypeOK'
  BY <1>2 DEF BeginExclusive, TypeOK, shared, handles, Goto, AllOps,
     Exclusives, Commands, Stores
<1>3. ASSUME NEW t \in Tasks, Return(t) PROVE TypeOK'
  BY <1>3 DEF Return, TypeOK, shared, handles, Goto, AllOps, Success
<1>4. ASSUME NEW t \in Tasks, Lock(t) PROVE TypeOK'
  BY <1>4 DEF Lock, TypeOK, flags, locals, handles, Goto
<1>5. ASSUME NEW t \in Tasks, CheckOperationState(t) PROVE TypeOK'
  BY <1>5, UnlockEffect DEF CheckOperationState, TypeOK, flags, handles, Goto
<1>6. ASSUME NEW t \in Tasks, Take(t) PROVE TypeOK'
  BY <1>6, UnlockEffect DEF Take, TypeOK, flags, handles, Goto
<1>7. ASSUME NEW t \in Tasks, SendCommand(t) PROVE TypeOK'
  BY <1>7, CommandAnswers DEF SendCommand, TypeOK, flags, handles, Goto
<1>8. ASSUME NEW t \in Tasks, SendStore(t) PROVE TypeOK'
  BY <1>8, DataCommandAnswers DEF SendStore, TypeOK, handles, Goto,
     MarkUnusableIf
<1>9. ASSUME NEW t \in Tasks, RequestOffset(t) PROVE TypeOK'
  <2>1. CASE UNCHANGED <<chan, err, resumed>> /\ Goto(t, "retr")
    BY <1>9, <2>1 DEF RequestOffset, TypeOK, Goto, flags, handles
  <2>2. CASE \E a \in SetMarker(chan) :
                /\ chan' = a.chan
                /\ err' = [err EXCEPT ![t] = a.err] \/ UNCHANGED err
                /\ resumed' = [resumed EXCEPT ![t] = TRUE] \/ UNCHANGED resumed
                /\ Goto(t, "retr") \/ Goto(t, "fail")
    <3>1. chan' \in Channel /\ err' \in [Tasks -> FtpError \cup {Success}]
      BY <2>2, SetMarkerAnswers DEF TypeOK
    <3>2. resumed' \in [Tasks -> BOOLEAN] /\ pc' \in [Tasks -> PCs]
      BY ZenonT(60), <2>2 DEF TypeOK, Goto
    <3> QED
      BY <1>9, <3>1, <3>2 DEF RequestOffset, TypeOK, flags, handles
  <2> QED
    BY <1>9, <2>1, <2>2 DEF RequestOffset
<1>10. ASSUME NEW t \in Tasks, Retr(t) PROVE TypeOK'
  BY <1>10, DataCommandAnswers DEF Retr, TypeOK, handles, Goto, MarkUnusableIf
<1>11. ASSUME NEW t \in Tasks, ResetMarker(t) PROVE TypeOK'
  BY <1>11, ClearMarkerAnswers DEF ResetMarker, TypeOK, handles, Goto,
     MarkUnusableIf
<1>12. ASSUME NEW t \in Tasks, ListCommand(t) PROVE TypeOK'
  BY <1>12, DataCommandAnswers, ReconnectVerdict DEF ListCommand, TypeOK,
     handles, Goto, MarkUnusableIf
<1>13. ASSUME NEW t \in Tasks, ListTransfer(t) PROVE TypeOK'
  BY <1>13, CompletionAnswers, FaultyChannel, ErrorNames DEF ListTransfer,
     TypeOK, flags, handles, Goto, Success
<1>14. ASSUME NEW t \in Tasks, StartTransfer(t) PROVE TypeOK'
  <2>1. PICK h \in Handles, tail \in 0..1, length \in 0..Unlimited :
           /\ hstate' = [hstate EXCEPT ![h] = "held"]
           /\ hinfo' = [hinfo EXCEPT ![h] = Info(IF op[t] = "open" THEN "read" ELSE "write",
                                                want[t], start[t], tail, length, FALSE)]
           /\ held' = [held EXCEPT ![t] = h]
    BY <1>14 DEF StartTransfer
  <2>2. hinfo' \in [Handles -> HandleInfo]
    <3>1. want[t] \in 0..1 /\ start[t] \in Nat /\ hinfo \in [Handles -> HandleInfo]
      BY DEF TypeOK
    <3> QED
      BY <2>1, <3>1, InfoType
  <2>3. hstate' \in [Handles -> HandleStates] /\ held' \in [Tasks -> Handles \cup {NoHandle}]
    BY <2>1 DEF TypeOK, HandleStates
  <2> QED
    BY <1>14, <2>2, <2>3 DEF StartTransfer, TypeOK, Goto
<1>15. ASSUME NEW t \in Tasks, Record(t) PROVE TypeOK'
  BY <1>15 DEF Record, TypeOK, locals, handles, Goto, MarkUnusableIf
<1>16. ASSUME NEW t \in Tasks, Fail(t) PROVE TypeOK'
  BY <1>16, UnlockEffect DEF Fail, TypeOK, handles, MarkUnusableIf
<1>17. ASSUME NEW t \in Tasks, Complete(t) PROVE TypeOK'
  BY <1>17 DEF Complete, TypeOK, flags, handles, Goto, Conclude, ReturnWith
<1>18. ASSUME NEW t \in Tasks, LateRecord(t) PROVE TypeOK'
  BY <1>18 DEF LateRecord, TypeOK, handles, ReturnWith, MarkUnusableIf,
     Conclude, Goto
<1>19. ASSUME NEW t \in Tasks, Classify(t) PROVE TypeOK'
  <2>1. CASE UNCHANGED <<probes, err, reconnect>>
    <3>1. \E outcome \in {"ok", "failed"} : ReturnWith(t, outcome)
      BY <1>19, <2>1 DEF Classify, Outcomes, TypeOK
    <3>2. pc' \in [Tasks -> PCs] /\ res' \in [Tasks -> Results]
      BY <3>1 DEF ReturnWith, Goto, TypeOK
    <3> QED
      BY <1>19, <2>1, <3>2 DEF Classify, TypeOK, shared, handles
  <2>2. CASE /\ probes[t] < MaxProbes
             /\ probes' = [probes EXCEPT ![t] = @ + 1]
             /\ err' = [err EXCEPT ![t] = Success]
             /\ reconnect' = [reconnect EXCEPT ![t] = FALSE]
             /\ Goto(t, "lock")
             /\ UNCHANGED res
    <3>1. probes' \in [Tasks -> 0..MaxProbes]
      BY <2>2 DEF TypeOK
    <3>2. /\ err' \in [Tasks -> FtpError \cup {Success}]
          /\ reconnect' \in [Tasks -> BOOLEAN]
          /\ pc' \in [Tasks -> PCs]
      BY <2>2 DEF TypeOK, Goto
    <3> QED
      BY <1>19, <2>2, <3>1, <3>2 DEF Classify, TypeOK, shared, handles
  <2> QED
    BY <1>19, <2>1, <2>2 DEF Classify
<1>20. ASSUME NEW t \in Tasks, SkipPrefix(t) PROVE TypeOK'
  <2>1. PICK tail \in 0..1, short \in BOOLEAN :
           hinfo' = [hinfo EXCEPT ![held[t]] =
                        Info(@.dir, @.want, @.pos + want[t], tail, @.remaining, short)]
    BY <1>20 DEF SkipPrefix
  <2>2. hinfo' \in [Handles -> HandleInfo]
    <3>1. want[t] \in 0..1 /\ hinfo \in [Handles -> HandleInfo]
      BY DEF TypeOK
    <3>2. \A i \in HandleInfo : i.pos + want[t] \in Nat
      BY <3>1, InfoFields
    <3> QED
      BY <2>1, <3>1, <3>2, InfoType, InfoFields
  <2> QED
    BY <1>20, <2>2 DEF SkipPrefix, TypeOK, Goto, shared, locals
<1>21. ASSUME NEW t \in Tasks, SkipFails(t) PROVE TypeOK'
  BY <1>21, FaultyChannel DEF SkipFails, TypeOK, flags, locals, Goto,
     HandleStates
<1>22. ASSUME NEW t \in Tasks, AwaitCleanup(t) PROVE TypeOK'
  BY <1>22 DEF AwaitCleanup, TypeOK, shared, handles, ReturnWith, Goto
<1>23. ASSUME NEW t \in Tasks, Deliver(t) PROVE TypeOK'
  BY <1>23 DEF Deliver, TypeOK, shared, ReturnWith, Goto, HandleStates
<1>24. ASSUME NEW t \in Tasks, IsConnected(t) PROVE TypeOK'
  BY <1>24 DEF IsConnected, TypeOK, shared, handles, Goto, ReturnWith
<1>25. ASSUME NEW t \in Tasks, WelcomeMessage(t) PROVE TypeOK'
  BY <1>25 DEF WelcomeMessage, TypeOK, shared, handles, ReturnWith, Goto
<1>26. ASSUME NEW t \in Tasks, ConnectCheckActive(t) PROVE TypeOK'
  BY <1>26 DEF ConnectCheckActive, TypeOK, shared, handles, Goto, ReturnWith
<1>27. ASSUME NEW t \in Tasks, ConnectReset(t) PROVE TypeOK'
  BY ZenonT(60), <1>27, FreshChannel DEF ConnectReset, TypeOK, handles, Goto, ReturnWith
<1>28. ASSUME NEW t \in Tasks, Dial(t) PROVE TypeOK'
  BY ZenonT(60), <1>28, FreshChannel DEF Dial, TypeOK, handles, ReturnWith, Goto
<1>29. ASSUME NEW t \in Tasks, DisconnectCheckActive(t) PROVE TypeOK'
  BY <1>29 DEF DisconnectCheckActive, TypeOK, shared, handles, Goto,
     ReturnWith
<1>30. ASSUME NEW t \in Tasks, HangUp(t) PROVE TypeOK'
  <2>1. chan' \in Channel /\ stream' \in BOOLEAN /\ connected' \in BOOLEAN
        /\ welcome' \in BOOLEAN /\ connection_usable' \in BOOLEAN
    BY <1>30, FreshChannel DEF HangUp, TypeOK
  <2>2. pc' \in [Tasks -> PCs] /\ res' \in [Tasks -> Results]
    BY <1>30 DEF HangUp, TypeOK, Goto, ReturnWith
  <2> QED
    BY <1>30, <2>1, <2>2 DEF HangUp, TypeOK, handles
<1>31. ASSUME NEW t \in Tasks, Quit(t) PROVE TypeOK'
  BY <1>31, FreshChannel DEF Quit, TypeOK, handles, ReturnWith,
     MarkUnusableIf, Goto
<1>32. ASSUME NEW t \in Tasks, Accessor(t) PROVE TypeOK'
  BY <1>32 DEF Accessor, TypeOK, shared, handles, Goto, ReturnWith
<1>33. ASSUME NEW t \in Tasks, RawCommands(t) PROVE TypeOK'
  BY <1>33 DEF RawCommands, TypeOK, shared, handles, ReturnWith, Goto
<1>34. ASSUME NEW t \in Tasks, CancelWaiting(t) PROVE TypeOK'
  BY <1>34 DEF CancelWaiting, TypeOK, shared, handles, ReturnWith, Goto
<1>35. ASSUME NEW t \in Tasks, CancelExchange(t) PROVE TypeOK'
  BY <1>35, AbandonedChannel DEF CancelExchange, TypeOK, flags, locals,
     handles, Goto
<1>36. ASSUME NEW t \in Tasks, DropMutexGuard(t) PROVE TypeOK'
  BY <1>36 DEF DropMutexGuard, TypeOK, flags, locals, handles, Goto
<1>37. ASSUME NEW t \in Tasks, DropOperationGuard(t) PROVE TypeOK'
  BY <1>37 DEF DropOperationGuard, TypeOK, handles, ReturnWith, Goto
<1>38. ASSUME NEW t \in Tasks, CancelSkip(t) PROVE TypeOK'
  BY <1>38 DEF CancelSkip, TypeOK, shared, ReturnWith, Goto, HandleStates
<1>39. ASSUME NEW t \in Tasks, CancelExclusive(t) PROVE TypeOK'
  BY <1>39, FreshChannel DEF CancelExclusive, TypeOK, flags, handles,
     ReturnWith, Goto
<1>40. ASSUME NEW h \in Handles, Read(h) PROVE TypeOK'
  BY <1>40, AfterReadType DEF Read, TypeOK, shared, locals
<1>41. ASSUME NEW h \in Handles, Finish(h) PROVE TypeOK'
  BY <1>41 DEF Finish, TypeOK, shared, locals, AtEof, HandleStates
<1>42. ASSUME NEW h \in Handles, DropStream(h) PROVE TypeOK'
  BY <1>42 DEF DropStream, TypeOK, shared, locals, HandleStates
<1>43. ASSUME NEW h \in Handles, CancelFinish(h) PROVE TypeOK'
  BY <1>43 DEF CancelFinish, TypeOK, shared, locals, HandleStates
<1>44. ASSUME NEW h \in Handles, Drain(h) PROVE TypeOK'
  <2>1. CASE /\ UNCHANGED <<hfail, chan>>
             /\ hinfo' = [hinfo EXCEPT ![h] =
                            Info(@.dir, @.want, @.pos, 0, @.remaining, @.eof)]
    <3> DEFINE i == hinfo[h]
               j == Info(i.dir, i.want, i.pos, 0, i.remaining, i.eof)
    <3>1. i \in HandleInfo
      BY DEF TypeOK
    <3>2. j \in HandleInfo
      <4>1. 0 \in 0..1
        OBVIOUS
      <4> HIDE DEF i
      <4> QED
        BY <3>1, <4>1, InfoType, InfoFields
    <3>3. hinfo' = [hinfo EXCEPT ![h] = j]
      BY <2>1
    <3> HIDE DEF i, j
    <3> QED
      BY <1>44, <2>1, <3>2, <3>3 DEF Drain, TypeOK, HandleStates, flags,
         locals
  <2>2. CASE /\ hfail' = [hfail EXCEPT ![h] = TRUE]
             /\ chan' = Faulty(chan)
             /\ UNCHANGED hinfo
    <3>1. chan' \in Channel
      BY <2>2, FaultyChannel DEF TypeOK
    <3> QED
      BY <1>44, <2>2, <3>1 DEF Drain, TypeOK, HandleStates, flags, locals
  <2> QED
    BY <1>44, <2>1, <2>2 DEF Drain
<1>45. ASSUME NEW h \in Handles, Finalize(h) PROVE TypeOK'
  <2>1. PICK a \in Completion(chan, hinfo[h].tail > 0) :
           /\ chan' = a.chan
           /\ hfail' = [hfail EXCEPT ![h] = @ \/ a.err # Success]
           /\ hstate' = [hstate EXCEPT ![h] =
                 IF hfail[h] \/ a.err # Success THEN "invalidate" ELSE "release"]
    BY <1>45 DEF Finalize
  <2>2. chan' \in Channel
    <3>1. chan \in Channel /\ (hinfo[h].tail > 0) \in BOOLEAN
      BY DEF TypeOK
    <3> QED
      BY <2>1, <3>1, CompletionAnswers
  <2>3. hfail' \in [Handles -> BOOLEAN] /\ hstate' \in [Handles -> HandleStates]
    BY <2>1 DEF TypeOK, HandleStates
  <2> QED
    BY <1>45, <2>2, <2>3 DEF Finalize, TypeOK, flags, locals
<1>46. ASSUME NEW h \in Handles, Invalidate(h) PROVE TypeOK'
  BY <1>46 DEF Invalidate, TypeOK, locals, HandleStates
<1>47. ASSUME NEW h \in Handles, DropInner(h) PROVE TypeOK'
  <2>1. chan' \in Channel
    <3>1. chan \in Channel /\ (hinfo[h].tail > 0) \in BOOLEAN
      BY DEF TypeOK
    <3>2. chan' \in Deferred(chan, hinfo[h].tail > 0)
      BY <1>47 DEF DropInner
    <3> QED
      BY <3>1, <3>2, DeferredChannel
  <2> QED
    BY <1>47, <2>1 DEF DropInner, TypeOK, flags, locals, HandleStates
<1>48. ASSUME NEW h \in Handles, Release(h) PROVE TypeOK'
  BY <1>48, NoInfoType DEF Release, TypeOK, locals, NoInfo, Info, HandleStates
<1>u. CASE UNCHANGED vars
  BY <1>u DEF TypeOK, vars, shared, flags, locals, handles
<1> QED
  BY <1>1, <1>2, <1>3, <1>4, <1>5, <1>6, <1>7, <1>8, <1>9, <1>10, <1>11,
     <1>12, <1>13, <1>14, <1>15, <1>16, <1>17, <1>18, <1>19, <1>20, <1>21,
     <1>22, <1>23, <1>24, <1>25, <1>26, <1>27, <1>28, <1>29, <1>30, <1>31,
     <1>32, <1>33, <1>34, <1>35, <1>36, <1>37, <1>38, <1>39, <1>40, <1>41,
     <1>42, <1>43, <1>44, <1>45, <1>46, <1>47, <1>48, <1>u
  DEF Next, TaskStep, Cancel, CleanupStep

(* Every reachable state is well typed, for every value of the constants.   *)
THEOREM TypeCorrect == Spec => []TypeOK
<1>1. Init => TypeOK
  BY TypeInit
<1>2. TypeOK /\ [Next]_vars => TypeOK'
  BY TypeStep
<1> QED
  BY <1>1, <1>2, PTL DEF Spec

-----------------------------------------------------------------------------
(* The parts of the inductive invariant, step by step.                     *)

(* lock_stream, StreamGuard::complete and the drop of a cancelled call's   *)
(* mutex guard are the only steps that move the mutex.                     *)
LEMMA LockInvStep ==
    ASSUME TypeOK, LockInv, [Next]_vars
    PROVE  LockInv'
<1> USE TokioFtpFsAssumption
        DEF PCs, Awaiting, Settling, Unlocked, InExclusive
<1>1. ASSUME NEW t \in Tasks, Begin(t) PROVE LockInv'
  BY <1>1 DEF Begin, TypeOK, shared, handles, Goto, FirstStep, LockInv,
     UnderMutex
<1>2. ASSUME NEW t \in Tasks, BeginExclusive(t) PROVE LockInv'
  BY <1>2 DEF BeginExclusive, TypeOK, shared, handles, Goto, Exclusives,
     LockInv, UnderMutex
<1>3. ASSUME NEW t \in Tasks, Return(t) PROVE LockInv'
  BY <1>3 DEF Return, TypeOK, shared, handles, Goto, LockInv, UnderMutex
<1>4. ASSUME NEW t \in Tasks, Lock(t) PROVE LockInv'
  BY <1>4 DEF Lock, TypeOK, flags, locals, handles, Goto, LockInv, UnderMutex
<1>5. ASSUME NEW t \in Tasks, CheckOperationState(t) PROVE LockInv'
  BY <1>5, UnlockEffect DEF CheckOperationState, TypeOK, flags, handles, Goto,
     LockInv, UnderMutex
<1>6. ASSUME NEW t \in Tasks, Take(t) PROVE LockInv'
  BY <1>6, UnlockEffect DEF Take, TypeOK, flags, handles, Goto, LockInv,
     UnderMutex
<1>7. ASSUME NEW t \in Tasks, SendCommand(t) PROVE LockInv'
  BY <1>7 DEF SendCommand, TypeOK, flags, handles, Goto, LockInv, UnderMutex
<1>8. ASSUME NEW t \in Tasks, SendStore(t) PROVE LockInv'
  BY <1>8 DEF SendStore, TypeOK, handles, Goto, MarkUnusableIf, LockInv,
     UnderMutex
<1>9. ASSUME NEW t \in Tasks, RequestOffset(t) PROVE LockInv'
  BY <1>9 DEF RequestOffset, TypeOK, flags, handles, Goto, LockInv, UnderMutex
<1>10. ASSUME NEW t \in Tasks, Retr(t) PROVE LockInv'
  BY <1>10 DEF Retr, TypeOK, handles, Goto, MarkUnusableIf, LockInv,
     UnderMutex
<1>11. ASSUME NEW t \in Tasks, ResetMarker(t) PROVE LockInv'
  BY <1>11 DEF ResetMarker, TypeOK, handles, Goto, MarkUnusableIf, LockInv,
     UnderMutex
<1>12. ASSUME NEW t \in Tasks, ListCommand(t) PROVE LockInv'
  BY <1>12 DEF ListCommand, TypeOK, handles, Goto, MarkUnusableIf, LockInv,
     UnderMutex
<1>13. ASSUME NEW t \in Tasks, ListTransfer(t) PROVE LockInv'
  BY <1>13 DEF ListTransfer, TypeOK, flags, handles, Goto, LockInv, UnderMutex
<1>14. ASSUME NEW t \in Tasks, StartTransfer(t) PROVE LockInv'
  BY <1>14 DEF StartTransfer, TypeOK, Goto, Info, LockInv, UnderMutex
<1>15. ASSUME NEW t \in Tasks, Record(t) PROVE LockInv'
  BY <1>15 DEF Record, TypeOK, locals, handles, Goto, MarkUnusableIf, LockInv,
     UnderMutex
<1>16. ASSUME NEW t \in Tasks, Fail(t) PROVE LockInv'
  BY <1>16, UnlockEffect DEF Fail, TypeOK, handles, MarkUnusableIf, LockInv,
     UnderMutex
<1>17. ASSUME NEW t \in Tasks, Complete(t) PROVE LockInv'
  BY <1>17 DEF Complete, TypeOK, flags, handles, Goto, Conclude, ReturnWith,
     LockInv, UnderMutex
<1>18. ASSUME NEW t \in Tasks, LateRecord(t) PROVE LockInv'
  BY <1>18 DEF LateRecord, TypeOK, handles, ReturnWith, MarkUnusableIf,
     Conclude, Goto, LockInv, UnderMutex
<1>19. ASSUME NEW t \in Tasks, Classify(t) PROVE LockInv'
  BY <1>19 DEF Classify, TypeOK, shared, handles, Goto, ReturnWith, LockInv,
     UnderMutex
<1>20. ASSUME NEW t \in Tasks, SkipPrefix(t) PROVE LockInv'
  BY <1>20 DEF SkipPrefix, TypeOK, shared, locals, Goto, Info, LockInv,
     UnderMutex
<1>21. ASSUME NEW t \in Tasks, SkipFails(t) PROVE LockInv'
  BY <1>21 DEF SkipFails, TypeOK, flags, locals, Goto, LockInv, UnderMutex
<1>22. ASSUME NEW t \in Tasks, AwaitCleanup(t) PROVE LockInv'
  BY <1>22 DEF AwaitCleanup, TypeOK, shared, handles, ReturnWith, Goto,
     LockInv, UnderMutex
<1>23. ASSUME NEW t \in Tasks, Deliver(t) PROVE LockInv'
  BY <1>23 DEF Deliver, TypeOK, shared, ReturnWith, Goto, LockInv, UnderMutex
<1>24. ASSUME NEW t \in Tasks, IsConnected(t) PROVE LockInv'
  BY <1>24 DEF IsConnected, TypeOK, shared, handles, Goto, ReturnWith,
     LockInv, UnderMutex
<1>25. ASSUME NEW t \in Tasks, WelcomeMessage(t) PROVE LockInv'
  BY <1>25 DEF WelcomeMessage, TypeOK, shared, handles, ReturnWith, Goto,
     LockInv, UnderMutex
<1>26. ASSUME NEW t \in Tasks, ConnectCheckActive(t) PROVE LockInv'
  BY <1>26 DEF ConnectCheckActive, TypeOK, shared, handles, Goto, ReturnWith,
     LockInv, UnderMutex
<1>27. ASSUME NEW t \in Tasks, ConnectReset(t) PROVE LockInv'
  BY <1>27 DEF ConnectReset, TypeOK, handles, Goto, ReturnWith, LockInv,
     UnderMutex
<1>28. ASSUME NEW t \in Tasks, Dial(t) PROVE LockInv'
  BY <1>28 DEF Dial, TypeOK, handles, ReturnWith, Goto, LockInv, UnderMutex
<1>29. ASSUME NEW t \in Tasks, DisconnectCheckActive(t) PROVE LockInv'
  BY <1>29 DEF DisconnectCheckActive, TypeOK, shared, handles, Goto,
     ReturnWith, LockInv, UnderMutex
<1>30. ASSUME NEW t \in Tasks, HangUp(t) PROVE LockInv'
  BY <1>30 DEF HangUp, TypeOK, handles, Goto, ReturnWith, LockInv, UnderMutex
<1>31. ASSUME NEW t \in Tasks, Quit(t) PROVE LockInv'
  BY <1>31 DEF Quit, TypeOK, handles, ReturnWith, MarkUnusableIf, Goto,
     LockInv, UnderMutex
<1>32. ASSUME NEW t \in Tasks, Accessor(t) PROVE LockInv'
  BY <1>32 DEF Accessor, TypeOK, shared, handles, Goto, ReturnWith, LockInv,
     UnderMutex
<1>33. ASSUME NEW t \in Tasks, RawCommands(t) PROVE LockInv'
  BY <1>33 DEF RawCommands, TypeOK, shared, handles, ReturnWith, Goto,
     LockInv, UnderMutex
<1>34. ASSUME NEW t \in Tasks, CancelWaiting(t) PROVE LockInv'
  BY <1>34 DEF CancelWaiting, TypeOK, shared, handles, ReturnWith, Goto,
     LockInv, UnderMutex
<1>35. ASSUME NEW t \in Tasks, CancelExchange(t) PROVE LockInv'
  BY <1>35 DEF CancelExchange, TypeOK, flags, locals, handles, Goto, LockInv,
     UnderMutex
<1>36. ASSUME NEW t \in Tasks, DropMutexGuard(t) PROVE LockInv'
  BY <1>36 DEF DropMutexGuard, TypeOK, flags, locals, handles, Goto, LockInv,
     UnderMutex
<1>37. ASSUME NEW t \in Tasks, DropOperationGuard(t) PROVE LockInv'
  BY <1>37 DEF DropOperationGuard, TypeOK, handles, ReturnWith, Goto, LockInv,
     UnderMutex
<1>38. ASSUME NEW t \in Tasks, CancelSkip(t) PROVE LockInv'
  BY <1>38 DEF CancelSkip, TypeOK, shared, ReturnWith, Goto, LockInv,
     UnderMutex
<1>39. ASSUME NEW t \in Tasks, CancelExclusive(t) PROVE LockInv'
  BY <1>39 DEF CancelExclusive, TypeOK, flags, handles, ReturnWith, Goto,
     LockInv, UnderMutex
<1>40. ASSUME NEW h \in Handles, Read(h) PROVE LockInv'
  BY <1>40 DEF Read, TypeOK, shared, locals, LockInv
<1>41. ASSUME NEW h \in Handles, Finish(h) PROVE LockInv'
  BY <1>41 DEF Finish, TypeOK, shared, LockInv
<1>42. ASSUME NEW h \in Handles, DropStream(h) PROVE LockInv'
  BY <1>42 DEF DropStream, TypeOK, shared, locals, LockInv
<1>43. ASSUME NEW h \in Handles, CancelFinish(h) PROVE LockInv'
  BY <1>43 DEF CancelFinish, TypeOK, shared, locals, LockInv
<1>44. ASSUME NEW h \in Handles, Drain(h) PROVE LockInv'
  BY <1>44 DEF Drain, TypeOK, flags, LockInv
<1>45. ASSUME NEW h \in Handles, Finalize(h) PROVE LockInv'
  BY <1>45 DEF Finalize, TypeOK, LockInv
<1>46. ASSUME NEW h \in Handles, Invalidate(h) PROVE LockInv'
  BY <1>46 DEF Invalidate, TypeOK, LockInv
<1>47. ASSUME NEW h \in Handles, DropInner(h) PROVE LockInv'
  BY <1>47 DEF DropInner, TypeOK, LockInv
<1>48. ASSUME NEW h \in Handles, Release(h) PROVE LockInv'
  BY <1>48 DEF Release, TypeOK, locals, LockInv
<1>u. CASE UNCHANGED vars
  BY <1>u DEF vars, shared, LockInv
<1> QED
  BY <1>1, <1>2, <1>3, <1>4, <1>5, <1>6, <1>7, <1>8, <1>9, <1>10, <1>11,
     <1>12, <1>13, <1>14, <1>15, <1>16, <1>17, <1>18, <1>19, <1>20, <1>21,
     <1>22, <1>23, <1>24, <1>25, <1>26, <1>27, <1>28, <1>29, <1>30, <1>31,
     <1>32, <1>33, <1>34, <1>35, <1>36, <1>37, <1>38, <1>39, <1>40, <1>41,
     <1>42, <1>43, <1>44, <1>45, <1>46, <1>47, <1>48, <1>u
  DEF Next, TaskStep, Cancel, CleanupStep

(* &mut self begins when nobody uses the client, and lets nobody begin.    *)
LEMMA BorrowInvStep ==
    ASSUME TypeOK, BorrowInv, [Next]_vars
    PROVE  BorrowInv'
<1> USE TokioFtpFsAssumption
        DEF PCs, Awaiting, Settling, Unlocked, InExclusive
<1>1. ASSUME NEW t \in Tasks, Begin(t) PROVE BorrowInv'
  BY <1>1 DEF Begin, TypeOK, shared, handles, Goto, FirstStep, BorrowInv
<1>2. ASSUME NEW t \in Tasks, BeginExclusive(t) PROVE BorrowInv'
  BY <1>2 DEF BeginExclusive, TypeOK, shared, handles, Goto, BorrowInv
<1>3. ASSUME NEW t \in Tasks, Return(t) PROVE BorrowInv'
  BY <1>3 DEF Return, TypeOK, shared, handles, Goto, BorrowInv
<1>4. ASSUME NEW t \in Tasks, Lock(t) PROVE BorrowInv'
  BY <1>4 DEF Lock, TypeOK, flags, locals, handles, Goto, BorrowInv
<1>5. ASSUME NEW t \in Tasks, CheckOperationState(t) PROVE BorrowInv'
  BY <1>5, UnlockEffect DEF CheckOperationState, TypeOK, flags, handles, Goto,
     BorrowInv
<1>6. ASSUME NEW t \in Tasks, Take(t) PROVE BorrowInv'
  BY <1>6, UnlockEffect DEF Take, TypeOK, flags, handles, Goto, BorrowInv
<1>7. ASSUME NEW t \in Tasks, SendCommand(t) PROVE BorrowInv'
  BY <1>7 DEF SendCommand, TypeOK, flags, handles, Goto, BorrowInv
<1>8. ASSUME NEW t \in Tasks, SendStore(t) PROVE BorrowInv'
  BY <1>8 DEF SendStore, TypeOK, handles, Goto, MarkUnusableIf, BorrowInv
<1>9. ASSUME NEW t \in Tasks, RequestOffset(t) PROVE BorrowInv'
  BY <1>9 DEF RequestOffset, TypeOK, flags, handles, Goto, BorrowInv
<1>10. ASSUME NEW t \in Tasks, Retr(t) PROVE BorrowInv'
  BY <1>10 DEF Retr, TypeOK, handles, Goto, MarkUnusableIf, BorrowInv
<1>11. ASSUME NEW t \in Tasks, ResetMarker(t) PROVE BorrowInv'
  BY <1>11 DEF ResetMarker, TypeOK, handles, Goto, MarkUnusableIf, BorrowInv
<1>12. ASSUME NEW t \in Tasks, ListCommand(t) PROVE BorrowInv'
  BY <1>12 DEF ListCommand, TypeOK, handles, Goto, MarkUnusableIf, BorrowInv
<1>13. ASSUME NEW t \in Tasks, ListTransfer(t) PROVE BorrowInv'
  BY <1>13 DEF ListTransfer, TypeOK, flags, handles, Goto, BorrowInv
<1>14. ASSUME NEW t \in Tasks, StartTransfer(t) PROVE BorrowInv'
  BY <1>14 DEF StartTransfer, TypeOK, Goto, Info, BorrowInv
<1>15. ASSUME NEW t \in Tasks, Record(t) PROVE BorrowInv'
  BY <1>15 DEF Record, TypeOK, locals, handles, Goto, MarkUnusableIf,
     BorrowInv
<1>16. ASSUME NEW t \in Tasks, Fail(t) PROVE BorrowInv'
  BY <1>16, UnlockEffect DEF Fail, TypeOK, BorrowInv
<1>17. ASSUME NEW t \in Tasks, Complete(t) PROVE BorrowInv'
  BY <1>17 DEF Complete, TypeOK, flags, handles, Goto, Conclude, ReturnWith,
     BorrowInv
<1>18. ASSUME NEW t \in Tasks, LateRecord(t) PROVE BorrowInv'
  BY <1>18 DEF LateRecord, TypeOK, handles, ReturnWith, MarkUnusableIf,
     Conclude, Goto, BorrowInv
<1>19. ASSUME NEW t \in Tasks, Classify(t) PROVE BorrowInv'
  BY <1>19 DEF Classify, TypeOK, shared, handles, Goto, ReturnWith, BorrowInv
<1>20. ASSUME NEW t \in Tasks, SkipPrefix(t) PROVE BorrowInv'
  BY <1>20 DEF SkipPrefix, TypeOK, shared, locals, Goto, Info, BorrowInv
<1>21. ASSUME NEW t \in Tasks, SkipFails(t) PROVE BorrowInv'
  BY <1>21 DEF SkipFails, TypeOK, flags, locals, Goto, BorrowInv
<1>22. ASSUME NEW t \in Tasks, AwaitCleanup(t) PROVE BorrowInv'
  BY <1>22 DEF AwaitCleanup, TypeOK, shared, handles, ReturnWith, Goto,
     BorrowInv
<1>23. ASSUME NEW t \in Tasks, Deliver(t) PROVE BorrowInv'
  BY <1>23 DEF Deliver, TypeOK, shared, ReturnWith, Goto, BorrowInv
<1>24. ASSUME NEW t \in Tasks, IsConnected(t) PROVE BorrowInv'
  BY <1>24 DEF IsConnected, TypeOK, shared, handles, Goto, ReturnWith,
     BorrowInv
<1>25. ASSUME NEW t \in Tasks, WelcomeMessage(t) PROVE BorrowInv'
  BY <1>25 DEF WelcomeMessage, TypeOK, shared, handles, ReturnWith, Goto,
     BorrowInv
<1>26. ASSUME NEW t \in Tasks, ConnectCheckActive(t) PROVE BorrowInv'
  BY <1>26 DEF ConnectCheckActive, TypeOK, shared, handles, Goto, ReturnWith,
     BorrowInv
<1>27. ASSUME NEW t \in Tasks, ConnectReset(t) PROVE BorrowInv'
  BY <1>27 DEF ConnectReset, TypeOK, handles, Goto, ReturnWith, BorrowInv
<1>28. ASSUME NEW t \in Tasks, Dial(t) PROVE BorrowInv'
  BY <1>28 DEF Dial, TypeOK, handles, ReturnWith, Goto, BorrowInv
<1>29. ASSUME NEW t \in Tasks, DisconnectCheckActive(t) PROVE BorrowInv'
  BY <1>29 DEF DisconnectCheckActive, TypeOK, shared, handles, Goto,
     ReturnWith, BorrowInv
<1>30. ASSUME NEW t \in Tasks, HangUp(t) PROVE BorrowInv'
  BY <1>30 DEF HangUp, TypeOK, handles, Goto, ReturnWith, BorrowInv
<1>31. ASSUME NEW t \in Tasks, Quit(t) PROVE BorrowInv'
  BY <1>31 DEF Quit, TypeOK, handles, ReturnWith, MarkUnusableIf, Goto,
     BorrowInv
<1>32. ASSUME NEW t \in Tasks, Accessor(t) PROVE BorrowInv'
  BY <1>32 DEF Accessor, TypeOK, shared, handles, Goto, ReturnWith, BorrowInv
<1>33. ASSUME NEW t \in Tasks, RawCommands(t) PROVE BorrowInv'
  BY <1>33 DEF RawCommands, TypeOK, shared, handles, ReturnWith, Goto,
     BorrowInv
<1>34. ASSUME NEW t \in Tasks, CancelWaiting(t) PROVE BorrowInv'
  BY <1>34 DEF CancelWaiting, TypeOK, shared, handles, ReturnWith, Goto,
     BorrowInv
<1>35. ASSUME NEW t \in Tasks, CancelExchange(t) PROVE BorrowInv'
  BY <1>35 DEF CancelExchange, TypeOK, flags, locals, handles, Goto, BorrowInv
<1>36. ASSUME NEW t \in Tasks, DropMutexGuard(t) PROVE BorrowInv'
  BY <1>36 DEF DropMutexGuard, TypeOK, flags, locals, handles, Goto, BorrowInv
<1>37. ASSUME NEW t \in Tasks, DropOperationGuard(t) PROVE BorrowInv'
  BY <1>37 DEF DropOperationGuard, TypeOK, handles, ReturnWith, Goto,
     BorrowInv
<1>38. ASSUME NEW t \in Tasks, CancelSkip(t) PROVE BorrowInv'
  BY <1>38 DEF CancelSkip, TypeOK, shared, ReturnWith, Goto, BorrowInv
<1>39. ASSUME NEW t \in Tasks, CancelExclusive(t) PROVE BorrowInv'
  BY <1>39 DEF CancelExclusive, TypeOK, flags, handles, ReturnWith, Goto,
     BorrowInv
<1>40. ASSUME NEW h \in Handles, Read(h) PROVE BorrowInv'
  BY <1>40 DEF Read, TypeOK, shared, BorrowInv
<1>41. ASSUME NEW h \in Handles, Finish(h) PROVE BorrowInv'
  BY <1>41 DEF Finish, TypeOK, BorrowInv
<1>42. ASSUME NEW h \in Handles, DropStream(h) PROVE BorrowInv'
  BY <1>42 DEF DropStream, TypeOK, BorrowInv
<1>43. ASSUME NEW h \in Handles, CancelFinish(h) PROVE BorrowInv'
  BY <1>43 DEF CancelFinish, TypeOK, BorrowInv
<1>44. ASSUME NEW h \in Handles, Drain(h) PROVE BorrowInv'
  BY <1>44 DEF Drain, TypeOK, BorrowInv
<1>45. ASSUME NEW h \in Handles, Finalize(h) PROVE BorrowInv'
  BY <1>45 DEF Finalize, TypeOK, BorrowInv
<1>46. ASSUME NEW h \in Handles, Invalidate(h) PROVE BorrowInv'
  BY <1>46 DEF Invalidate, BorrowInv
<1>47. ASSUME NEW h \in Handles, DropInner(h) PROVE BorrowInv'
  BY <1>47 DEF DropInner, TypeOK, BorrowInv
<1>48. ASSUME NEW h \in Handles, Release(h) PROVE BorrowInv'
  BY <1>48 DEF Release, TypeOK, BorrowInv
<1>u. CASE UNCHANGED vars
  BY <1>u DEF vars, shared, BorrowInv
<1> QED
  BY <1>1, <1>2, <1>3, <1>4, <1>5, <1>6, <1>7, <1>8, <1>9, <1>10, <1>11,
     <1>12, <1>13, <1>14, <1>15, <1>16, <1>17, <1>18, <1>19, <1>20, <1>21,
     <1>22, <1>23, <1>24, <1>25, <1>26, <1>27, <1>28, <1>29, <1>30, <1>31,
     <1>32, <1>33, <1>34, <1>35, <1>36, <1>37, <1>38, <1>39, <1>40, <1>41,
     <1>42, <1>43, <1>44, <1>45, <1>46, <1>47, <1>48, <1>u
  DEF Next, TaskStep, Cancel, CleanupStep

(* The Option is taken out or filled only by &mut self; transfer_active is *)
(* raised under the mutex by a task that found it lowered.                 *)
LEMMA ActiveInvStep ==
    ASSUME TypeOK, LockInv, BorrowInv, HandleInv, ActiveInv, [Next]_vars
    PROVE  ActiveInv'
<1> USE TokioFtpFsAssumption
        DEF PCs, Awaiting, Settling, Unlocked, InExclusive
<1>1. ASSUME NEW t \in Tasks, Begin(t) PROVE ActiveInv'
  BY <1>1 DEF Begin, TypeOK, shared, handles, Goto, FirstStep, ActiveInv,
     SawInactive, SawStream
<1>2. ASSUME NEW t \in Tasks, BeginExclusive(t) PROVE ActiveInv'
  BY <1>2 DEF BeginExclusive, TypeOK, shared, handles, Goto, Exclusives,
     ActiveInv, SawInactive, SawStream
<1>3. ASSUME NEW t \in Tasks, Return(t) PROVE ActiveInv'
  BY <1>3 DEF Return, TypeOK, shared, handles, Goto, ActiveInv, SawInactive,
     SawStream
<1>4. ASSUME NEW t \in Tasks, Lock(t) PROVE ActiveInv'
  BY <1>4 DEF Lock, TypeOK, flags, locals, handles, Goto, ActiveInv,
     SawInactive, SawStream
<1>5. ASSUME NEW t \in Tasks, CheckOperationState(t) PROVE ActiveInv'
  BY <1>5, UnlockEffect DEF CheckOperationState, TypeOK, flags, handles, Goto,
     ActiveInv, SawInactive, SawStream
<1>6. ASSUME NEW t \in Tasks, Take(t) PROVE ActiveInv'
  BY <1>6, UnlockEffect DEF Take, TypeOK, flags, handles, Goto, ActiveInv,
     SawInactive, SawStream
<1>7. ASSUME NEW t \in Tasks, SendCommand(t) PROVE ActiveInv'
  BY <1>7 DEF SendCommand, TypeOK, flags, handles, Goto, ActiveInv,
     SawInactive, SawStream
<1>8. ASSUME NEW t \in Tasks, SendStore(t) PROVE ActiveInv'
  BY <1>8 DEF SendStore, TypeOK, handles, Goto, MarkUnusableIf, ActiveInv,
     SawInactive, SawStream
<1>9. ASSUME NEW t \in Tasks, RequestOffset(t) PROVE ActiveInv'
  BY <1>9 DEF RequestOffset, TypeOK, flags, handles, Goto, ActiveInv,
     SawInactive, SawStream
<1>10. ASSUME NEW t \in Tasks, Retr(t) PROVE ActiveInv'
  BY <1>10 DEF Retr, TypeOK, handles, Goto, MarkUnusableIf, ActiveInv,
     SawInactive, SawStream
<1>11. ASSUME NEW t \in Tasks, ResetMarker(t) PROVE ActiveInv'
  BY <1>11 DEF ResetMarker, TypeOK, handles, Goto, MarkUnusableIf, ActiveInv,
     SawInactive, SawStream
<1>12. ASSUME NEW t \in Tasks, ListCommand(t) PROVE ActiveInv'
  BY <1>12 DEF ListCommand, TypeOK, handles, Goto, MarkUnusableIf, ActiveInv,
     SawInactive, SawStream
<1>13. ASSUME NEW t \in Tasks, ListTransfer(t) PROVE ActiveInv'
  BY <1>13 DEF ListTransfer, TypeOK, flags, handles, Goto, ActiveInv,
     SawInactive, SawStream
<1>14. ASSUME NEW t \in Tasks, StartTransfer(t) PROVE ActiveInv'
  BY <1>14 DEF StartTransfer, TypeOK, Goto, Info, ActiveInv, SawInactive,
     SawStream, LockInv, UnderMutex, BorrowInv
<1>15. ASSUME NEW t \in Tasks, Record(t) PROVE ActiveInv'
  BY <1>15 DEF Record, TypeOK, locals, handles, Goto, MarkUnusableIf,
     ActiveInv, SawInactive, SawStream
<1>16. ASSUME NEW t \in Tasks, Fail(t) PROVE ActiveInv'
  BY <1>16, UnlockEffect DEF Fail, TypeOK, handles, MarkUnusableIf, ActiveInv,
     SawInactive, SawStream
<1>17. ASSUME NEW t \in Tasks, Complete(t) PROVE ActiveInv'
  BY <1>17 DEF Complete, TypeOK, flags, handles, Goto, Conclude, ReturnWith,
     ActiveInv, SawInactive, SawStream
<1>18. ASSUME NEW t \in Tasks, LateRecord(t) PROVE ActiveInv'
  BY <1>18 DEF LateRecord, TypeOK, handles, ReturnWith, MarkUnusableIf,
     Conclude, Goto, ActiveInv, SawInactive, SawStream
<1>19. ASSUME NEW t \in Tasks, Classify(t) PROVE ActiveInv'
  BY <1>19 DEF Classify, TypeOK, shared, handles, Goto, ReturnWith, ActiveInv,
     SawInactive, SawStream
<1>20. ASSUME NEW t \in Tasks, SkipPrefix(t) PROVE ActiveInv'
  BY <1>20 DEF SkipPrefix, TypeOK, shared, locals, Goto, Info, ActiveInv,
     SawInactive, SawStream
<1>21. ASSUME NEW t \in Tasks, SkipFails(t) PROVE ActiveInv'
  BY <1>21 DEF SkipFails, TypeOK, flags, locals, Goto, ActiveInv, SawInactive,
     SawStream
<1>22. ASSUME NEW t \in Tasks, AwaitCleanup(t) PROVE ActiveInv'
  BY <1>22 DEF AwaitCleanup, TypeOK, shared, handles, ReturnWith, Goto,
     ActiveInv, SawInactive, SawStream
<1>23. ASSUME NEW t \in Tasks, Deliver(t) PROVE ActiveInv'
  BY <1>23 DEF Deliver, TypeOK, shared, ReturnWith, Goto, ActiveInv,
     SawInactive, SawStream
<1>24. ASSUME NEW t \in Tasks, IsConnected(t) PROVE ActiveInv'
  BY <1>24 DEF IsConnected, TypeOK, shared, handles, Goto, ReturnWith,
     ActiveInv, SawInactive, SawStream
<1>25. ASSUME NEW t \in Tasks, WelcomeMessage(t) PROVE ActiveInv'
  BY <1>25 DEF WelcomeMessage, TypeOK, shared, handles, ReturnWith, Goto,
     ActiveInv, SawInactive, SawStream
<1>26. ASSUME NEW t \in Tasks, ConnectCheckActive(t) PROVE ActiveInv'
  BY <1>26 DEF ConnectCheckActive, TypeOK, shared, handles, Goto, ReturnWith,
     ActiveInv, SawInactive, SawStream
<1>27. ASSUME NEW t \in Tasks, ConnectReset(t) PROVE ActiveInv'
  <2>1. pc[t] \in SawInactive /\ \A u \in Tasks \ {t} : pc[u] = "idle"
    BY <1>27 DEF ConnectReset, BorrowInv, SawInactive
  <2>2. ~transfer_active
    BY <2>1 DEF ActiveInv
  <2> QED
    BY ZenonT(60), <1>27, <2>1, <2>2 DEF ConnectReset, TypeOK, handles, Goto, ReturnWith,
       ActiveInv, SawInactive, SawStream
<1>28. ASSUME NEW t \in Tasks, Dial(t) PROVE ActiveInv'
  <2>1. pc[t] \in SawInactive /\ \A u \in Tasks \ {t} : pc[u] = "idle"
    BY <1>28 DEF Dial, BorrowInv, SawInactive
  <2>2. ~transfer_active
    BY <2>1 DEF ActiveInv
  <2> QED
    BY ZenonT(60), <1>28, <2>1, <2>2 DEF Dial, TypeOK, handles, Goto, ReturnWith,
       ActiveInv, SawInactive, SawStream
<1>29. ASSUME NEW t \in Tasks, DisconnectCheckActive(t) PROVE ActiveInv'
  BY <1>29 DEF DisconnectCheckActive, TypeOK, shared, handles, Goto,
     ReturnWith, ActiveInv, SawInactive, SawStream
<1>30. ASSUME NEW t \in Tasks, HangUp(t) PROVE ActiveInv'
  <2>1. \A u \in Tasks \ {t} : pc[u] = "idle"
    BY <1>30 DEF HangUp, BorrowInv
  <2>2. ~transfer_active /\ ~transfer_active'
    BY <1>30 DEF HangUp, ActiveInv, SawInactive
  <2>3. PICK label \in {"return", "quit"} : pc' = [pc EXCEPT ![t] = label]
    BY <1>30 DEF HangUp, ReturnWith, Goto
  <2>4. connected' = stream'
    <3>1. CASE stream' = stream /\ connected' = connected
      BY <3>1 DEF ActiveInv
    <3>2. CASE stream' = FALSE /\ connected' = FALSE
      BY <3>2
    <3> QED
      BY <1>30, <3>1, <3>2 DEF HangUp
  <2> QED
    BY <2>1, <2>2, <2>3, <2>4 DEF TypeOK, ActiveInv, SawStream
<1>31. ASSUME NEW t \in Tasks, Quit(t) PROVE ActiveInv'
  BY <1>31 DEF Quit, TypeOK, handles, ReturnWith, MarkUnusableIf, Goto,
     ActiveInv, SawInactive, SawStream
<1>32. ASSUME NEW t \in Tasks, Accessor(t) PROVE ActiveInv'
  BY <1>32 DEF Accessor, TypeOK, shared, handles, Goto, ReturnWith, ActiveInv,
     SawInactive, SawStream
<1>33. ASSUME NEW t \in Tasks, RawCommands(t) PROVE ActiveInv'
  BY <1>33 DEF RawCommands, TypeOK, shared, handles, ReturnWith, Goto,
     ActiveInv, SawInactive, SawStream
<1>34. ASSUME NEW t \in Tasks, CancelWaiting(t) PROVE ActiveInv'
  BY <1>34 DEF CancelWaiting, TypeOK, shared, handles, ReturnWith, Goto,
     ActiveInv, SawInactive, SawStream
<1>35. ASSUME NEW t \in Tasks, CancelExchange(t) PROVE ActiveInv'
  BY <1>35 DEF CancelExchange, TypeOK, flags, locals, handles, Goto,
     ActiveInv, SawInactive, SawStream
<1>36. ASSUME NEW t \in Tasks, DropMutexGuard(t) PROVE ActiveInv'
  BY <1>36 DEF DropMutexGuard, TypeOK, flags, locals, handles, Goto,
     ActiveInv, SawInactive, SawStream
<1>37. ASSUME NEW t \in Tasks, DropOperationGuard(t) PROVE ActiveInv'
  BY <1>37 DEF DropOperationGuard, TypeOK, handles, ReturnWith, Goto,
     ActiveInv, SawInactive, SawStream
<1>38. ASSUME NEW t \in Tasks, CancelSkip(t) PROVE ActiveInv'
  BY <1>38 DEF CancelSkip, TypeOK, shared, ReturnWith, Goto, ActiveInv,
     SawInactive, SawStream
<1>39. ASSUME NEW t \in Tasks, CancelExclusive(t) PROVE ActiveInv'
  BY <1>39 DEF CancelExclusive, TypeOK, flags, handles, ReturnWith, Goto,
     ActiveInv, SawInactive, SawStream
<1>40. ASSUME NEW h \in Handles, Read(h) PROVE ActiveInv'
  BY <1>40 DEF Read, TypeOK, shared, locals, AfterRead, AfterReading, Info,
     ActiveInv
<1>41. ASSUME NEW h \in Handles, Finish(h) PROVE ActiveInv'
  BY <1>41 DEF Finish, TypeOK, shared, locals, AtEof, ActiveInv
<1>42. ASSUME NEW h \in Handles, DropStream(h) PROVE ActiveInv'
  BY <1>42 DEF DropStream, TypeOK, shared, locals, ActiveInv
<1>43. ASSUME NEW h \in Handles, CancelFinish(h) PROVE ActiveInv'
  BY <1>43 DEF CancelFinish, TypeOK, shared, locals, ActiveInv
<1>44. ASSUME NEW h \in Handles, Drain(h) PROVE ActiveInv'
  BY <1>44 DEF Drain, TypeOK, flags, locals, Info, ActiveInv
<1>45. ASSUME NEW h \in Handles, Finalize(h) PROVE ActiveInv'
  BY <1>45 DEF Finalize, TypeOK, flags, locals, ActiveInv
<1>46. ASSUME NEW h \in Handles, Invalidate(h) PROVE ActiveInv'
  BY <1>46 DEF Invalidate, TypeOK, locals, ActiveInv
<1>47. ASSUME NEW h \in Handles, DropInner(h) PROVE ActiveInv'
  BY <1>47 DEF DropInner, TypeOK, flags, locals, ActiveInv
<1>48. ASSUME NEW h \in Handles, Release(h) PROVE ActiveInv'
  BY <1>48 DEF Release, TypeOK, locals, NoInfo, Info, ActiveInv
<1>u. CASE UNCHANGED vars
  BY <1>u DEF vars, shared, ActiveInv
<1> QED
  BY <1>1, <1>2, <1>3, <1>4, <1>5, <1>6, <1>7, <1>8, <1>9, <1>10, <1>11,
     <1>12, <1>13, <1>14, <1>15, <1>16, <1>17, <1>18, <1>19, <1>20, <1>21,
     <1>22, <1>23, <1>24, <1>25, <1>26, <1>27, <1>28, <1>29, <1>30, <1>31,
     <1>32, <1>33, <1>34, <1>35, <1>36, <1>37, <1>38, <1>39, <1>40, <1>41,
     <1>42, <1>43, <1>44, <1>45, <1>46, <1>47, <1>48, <1>u
  DEF Next, TaskStep, Cancel, CleanupStep

(* A handle is made by start_transfer when there is none, and is freed     *)
(* together with transfer_active.                                          *)
LEMMA HandleInvStep ==
    ASSUME TypeOK, LockInv, BorrowInv, ActiveInv, PhaseInv, HandleInv, [Next]_vars
    PROVE  HandleInv'
<1> USE TokioFtpFsAssumption
        DEF PCs, Awaiting, Settling, Unlocked, InExclusive
<1>1. ASSUME NEW t \in Tasks, Begin(t) PROVE HandleInv'
  BY <1>1 DEF Begin, TypeOK, shared, handles, Goto, FirstStep, HandleInv,
     Alive, Holding
<1>2. ASSUME NEW t \in Tasks, BeginExclusive(t) PROVE HandleInv'
  BY <1>2 DEF BeginExclusive, TypeOK, shared, handles, Goto, Exclusives,
     HandleInv, Alive, Holding
<1>3. ASSUME NEW t \in Tasks, Return(t) PROVE HandleInv'
  BY <1>3 DEF Return, TypeOK, shared, handles, Goto, HandleInv, Alive, Holding
<1>4. ASSUME NEW t \in Tasks, Lock(t) PROVE HandleInv'
  BY <1>4 DEF Lock, TypeOK, flags, locals, handles, Goto, HandleInv, Alive,
     Holding
<1>5. ASSUME NEW t \in Tasks, CheckOperationState(t) PROVE HandleInv'
  BY <1>5, UnlockEffect DEF CheckOperationState, TypeOK, flags, handles, Goto,
     HandleInv, Alive, Holding
<1>6. ASSUME NEW t \in Tasks, Take(t) PROVE HandleInv'
  BY <1>6, UnlockEffect DEF Take, TypeOK, flags, handles, Goto, HandleInv,
     Alive, Holding
<1>7. ASSUME NEW t \in Tasks, SendCommand(t) PROVE HandleInv'
  BY <1>7 DEF SendCommand, TypeOK, flags, handles, Goto, HandleInv,
     SawInactive, ActiveInv, Alive, Holding
<1>8. ASSUME NEW t \in Tasks, SendStore(t) PROVE HandleInv'
  BY <1>8 DEF SendStore, TypeOK, handles, Goto, MarkUnusableIf, HandleInv,
     Alive, Holding
<1>9. ASSUME NEW t \in Tasks, RequestOffset(t) PROVE HandleInv'
  BY <1>9 DEF RequestOffset, TypeOK, flags, handles, Goto, HandleInv, Alive,
     Holding
<1>10. ASSUME NEW t \in Tasks, Retr(t) PROVE HandleInv'
  BY <1>10 DEF Retr, TypeOK, handles, Goto, MarkUnusableIf, HandleInv, Alive,
     Holding
<1>11. ASSUME NEW t \in Tasks, ResetMarker(t) PROVE HandleInv'
  BY <1>11 DEF ResetMarker, TypeOK, handles, Goto, MarkUnusableIf, HandleInv,
     Alive, Holding
<1>12. ASSUME NEW t \in Tasks, ListCommand(t) PROVE HandleInv'
  BY <1>12 DEF ListCommand, TypeOK, handles, Goto, MarkUnusableIf, HandleInv,
     SawInactive, ActiveInv, Alive, Holding
<1>13. ASSUME NEW t \in Tasks, ListTransfer(t) PROVE HandleInv'
  BY <1>13 DEF ListTransfer, TypeOK, flags, handles, Goto, HandleInv,
     SawInactive, ActiveInv, Alive, Holding
<1>14. ASSUME NEW t \in Tasks, StartTransfer(t) PROVE HandleInv'
  BY <1>14 DEF StartTransfer, TypeOK, Goto, Info, HandleInv, SawInactive,
     LockInv, UnderMutex, ActiveInv, Alive, Holding
<1>15. ASSUME NEW t \in Tasks, Record(t) PROVE HandleInv'
  BY <1>15 DEF Record, TypeOK, locals, handles, Goto, MarkUnusableIf,
     HandleInv, SawInactive, ActiveInv, Alive, Holding
<1>16. ASSUME NEW t \in Tasks, Fail(t) PROVE HandleInv'
  BY <1>16, UnlockEffect DEF Fail, TypeOK, handles, MarkUnusableIf, HandleInv,
     Alive, Holding
<1>17. ASSUME NEW t \in Tasks, Complete(t) PROVE HandleInv'
  <2>1. PICK label \in {"late_record", "skip", "deliver", "classify", "return"} :
           /\ pc' = [pc EXCEPT ![t] = label]
           /\ label \in {"skip", "deliver"} <=> held[t] # NoHandle
    BY <1>17 DEF Complete, Conclude, ReturnWith, Goto, Stores, Commands,
       PhaseInv, Holding
  <2> QED
    BY <1>17, <2>1 DEF Complete, TypeOK, flags, handles, HandleInv, Alive,
       Holding
<1>18. ASSUME NEW t \in Tasks, LateRecord(t) PROVE HandleInv'
  BY <1>18 DEF LateRecord, TypeOK, handles, ReturnWith, MarkUnusableIf,
     Conclude, Goto, HandleInv, Alive, Holding
<1>19. ASSUME NEW t \in Tasks, Classify(t) PROVE HandleInv'
  BY <1>19 DEF Classify, TypeOK, shared, handles, Goto, ReturnWith, HandleInv,
     Alive, Holding
<1>20. ASSUME NEW t \in Tasks, SkipPrefix(t) PROVE HandleInv'
  BY <1>20 DEF SkipPrefix, TypeOK, shared, locals, Goto, Info, HandleInv,
     Alive, Holding
<1>21. ASSUME NEW t \in Tasks, SkipFails(t) PROVE HandleInv'
  BY <1>21 DEF SkipFails, TypeOK, flags, locals, Goto, HandleInv, Alive,
     Holding
<1>22. ASSUME NEW t \in Tasks, AwaitCleanup(t) PROVE HandleInv'
  BY <1>22 DEF AwaitCleanup, TypeOK, shared, handles, ReturnWith, Goto,
     HandleInv, Alive, Holding
<1>23. ASSUME NEW t \in Tasks, Deliver(t) PROVE HandleInv'
  BY <1>23 DEF Deliver, TypeOK, shared, ReturnWith, Goto, HandleInv, Alive,
     Holding
<1>24. ASSUME NEW t \in Tasks, IsConnected(t) PROVE HandleInv'
  BY <1>24 DEF IsConnected, TypeOK, shared, handles, Goto, ReturnWith,
     HandleInv, Alive, Holding
<1>25. ASSUME NEW t \in Tasks, WelcomeMessage(t) PROVE HandleInv'
  BY <1>25 DEF WelcomeMessage, TypeOK, shared, handles, ReturnWith, Goto,
     HandleInv, Alive, Holding
<1>26. ASSUME NEW t \in Tasks, ConnectCheckActive(t) PROVE HandleInv'
  BY <1>26 DEF ConnectCheckActive, TypeOK, shared, handles, Goto, ReturnWith,
     HandleInv, Alive, Holding
<1>27. ASSUME NEW t \in Tasks, ConnectReset(t) PROVE HandleInv'
  BY <1>27 DEF ConnectReset, TypeOK, handles, Goto, ReturnWith, HandleInv,
     Alive, Holding
<1>28. ASSUME NEW t \in Tasks, Dial(t) PROVE HandleInv'
  BY <1>28 DEF Dial, TypeOK, handles, ReturnWith, Goto, HandleInv, ActiveInv,
     Alive, Holding
<1>29. ASSUME NEW t \in Tasks, DisconnectCheckActive(t) PROVE HandleInv'
  BY <1>29 DEF DisconnectCheckActive, TypeOK, shared, handles, Goto,
     ReturnWith, HandleInv, Alive, Holding
<1>30. ASSUME NEW t \in Tasks, HangUp(t) PROVE HandleInv'
  <2>1. pc[t] \in SawInactive /\ \A u \in Tasks \ {t} : pc[u] = "idle"
    BY <1>30 DEF HangUp, BorrowInv, SawInactive
  <2>2. ~transfer_active
    BY <2>1 DEF ActiveInv
  <2> QED
    BY <1>30, <2>1, <2>2 DEF HangUp, TypeOK, handles, Goto, ReturnWith,
       HandleInv, Alive, Holding
<1>31. ASSUME NEW t \in Tasks, Quit(t) PROVE HandleInv'
  BY <1>31 DEF Quit, TypeOK, handles, ReturnWith, MarkUnusableIf, Goto,
     HandleInv, Alive, Holding
<1>32. ASSUME NEW t \in Tasks, Accessor(t) PROVE HandleInv'
  BY SMTT(30), <1>32 DEF Accessor, TypeOK, shared, handles, Goto, ReturnWith, HandleInv,
     SawInactive, LockInv, UnderMutex, BorrowInv, ActiveInv, Alive, Holding
<1>33. ASSUME NEW t \in Tasks, RawCommands(t) PROVE HandleInv'
  BY <1>33 DEF RawCommands, TypeOK, shared, handles, ReturnWith, Goto,
     HandleInv, Alive, Holding
<1>34. ASSUME NEW t \in Tasks, CancelWaiting(t) PROVE HandleInv'
  BY <1>34 DEF CancelWaiting, TypeOK, shared, handles, ReturnWith, Goto,
     HandleInv, Alive, Holding
<1>35. ASSUME NEW t \in Tasks, CancelExchange(t) PROVE HandleInv'
  BY <1>35 DEF CancelExchange, TypeOK, flags, locals, handles, Goto,
     HandleInv, Alive, Holding
<1>36. ASSUME NEW t \in Tasks, DropMutexGuard(t) PROVE HandleInv'
  BY <1>36 DEF DropMutexGuard, TypeOK, flags, locals, handles, Goto,
     HandleInv, Alive, Holding
<1>37. ASSUME NEW t \in Tasks, DropOperationGuard(t) PROVE HandleInv'
  BY <1>37 DEF DropOperationGuard, TypeOK, handles, ReturnWith, Goto,
     HandleInv, Alive, Holding
<1>38. ASSUME NEW t \in Tasks, CancelSkip(t) PROVE HandleInv'
  BY <1>38 DEF CancelSkip, TypeOK, shared, ReturnWith, Goto, HandleInv, Alive,
     Holding
<1>39. ASSUME NEW t \in Tasks, CancelExclusive(t) PROVE HandleInv'
  BY <1>39 DEF CancelExclusive, TypeOK, flags, handles, ReturnWith, Goto,
     HandleInv, Alive, Holding
<1>40. ASSUME NEW h \in Handles, Read(h) PROVE HandleInv'
  BY <1>40 DEF Read, TypeOK, shared, locals, AfterRead, AfterReading, Info,
     HandleInv, Alive, Holding
<1>41. ASSUME NEW h \in Handles, Finish(h) PROVE HandleInv'
  BY <1>41 DEF Finish, TypeOK, shared, locals, AtEof, HandleInv, Alive,
     Holding
<1>42. ASSUME NEW h \in Handles, DropStream(h) PROVE HandleInv'
  BY <1>42 DEF DropStream, TypeOK, shared, locals, HandleInv, Alive, Holding
<1>43. ASSUME NEW h \in Handles, CancelFinish(h) PROVE HandleInv'
  BY <1>43 DEF CancelFinish, TypeOK, shared, locals, HandleInv, Alive, Holding
<1>44. ASSUME NEW h \in Handles, Drain(h) PROVE HandleInv'
  BY <1>44 DEF Drain, TypeOK, flags, locals, Info, HandleInv, Alive, Holding
<1>45. ASSUME NEW h \in Handles, Finalize(h) PROVE HandleInv'
  BY <1>45 DEF Finalize, TypeOK, flags, locals, HandleInv, Alive, Holding
<1>46. ASSUME NEW h \in Handles, Invalidate(h) PROVE HandleInv'
  BY <1>46 DEF Invalidate, TypeOK, locals, HandleInv, Alive, Holding
<1>47. ASSUME NEW h \in Handles, DropInner(h) PROVE HandleInv'
  BY <1>47 DEF DropInner, TypeOK, flags, locals, HandleInv, Alive, Holding
<1>48. ASSUME NEW h \in Handles, Release(h) PROVE HandleInv'
  BY <1>48 DEF Release, TypeOK, locals, NoInfo, Info, HandleInv, Alive,
     Holding
<1>u. CASE UNCHANGED vars
  BY <1>u DEF vars, shared, flags, locals, handles, HandleInv, Alive, Holding
<1> QED
  BY <1>1, <1>2, <1>3, <1>4, <1>5, <1>6, <1>7, <1>8, <1>9, <1>10, <1>11,
     <1>12, <1>13, <1>14, <1>15, <1>16, <1>17, <1>18, <1>19, <1>20, <1>21,
     <1>22, <1>23, <1>24, <1>25, <1>26, <1>27, <1>28, <1>29, <1>30, <1>31,
     <1>32, <1>33, <1>34, <1>35, <1>36, <1>37, <1>38, <1>39, <1>40, <1>41,
     <1>42, <1>43, <1>44, <1>45, <1>46, <1>47, <1>48, <1>u
  DEF Next, TaskStep, Cancel, CleanupStep

(* Which branch of an operation is under way follows from what it is.      *)
LEMMA PhaseInvStep ==
    ASSUME TypeOK, HandleInv, PhaseInv, [Next]_vars
    PROVE  PhaseInv'
<1> USE TokioFtpFsAssumption
        DEF PCs, Awaiting, Settling, Unlocked, InExclusive
<1>1. ASSUME NEW t \in Tasks, Begin(t) PROVE PhaseInv'
  BY <1>1 DEF Begin, TypeOK, shared, handles, Goto, FirstStep, Stores,
     Commands, AllOps, Exclusives, PhaseInv, Holding, Listing
<1>2. ASSUME NEW t \in Tasks, BeginExclusive(t) PROVE PhaseInv'
  BY <1>2 DEF BeginExclusive, TypeOK, shared, handles, Goto, Stores, Commands,
     AllOps, Exclusives, PhaseInv, Holding
<1>3. ASSUME NEW t \in Tasks, Return(t) PROVE PhaseInv'
  BY <1>3 DEF Return, TypeOK, shared, handles, Goto, Stores, Commands, AllOps,
     PhaseInv, Holding, Listing
<1>4. ASSUME NEW t \in Tasks, Lock(t) PROVE PhaseInv'
  BY <1>4 DEF Lock, TypeOK, flags, locals, handles, Goto, Stores, Commands,
     AllOps, PhaseInv, Holding, Listing
<1>5. ASSUME NEW t \in Tasks, CheckOperationState(t) PROVE PhaseInv'
  BY <1>5, UnlockEffect DEF CheckOperationState, TypeOK, flags, handles, Goto,
     Stores, Commands, AllOps, PhaseInv, Holding, Listing
<1>6. ASSUME NEW t \in Tasks, Take(t) PROVE PhaseInv'
  BY <1>6, UnlockEffect DEF Take, TypeOK, flags, handles, Goto, Stores,
     Commands, AllOps, PhaseInv, Holding, Listing
<1>7. ASSUME NEW t \in Tasks, SendCommand(t) PROVE PhaseInv'
  BY <1>7 DEF SendCommand, TypeOK, flags, handles, Goto, Stores, Commands,
     AllOps, PhaseInv, HandleInv, Holding, Listing
<1>8. ASSUME NEW t \in Tasks, SendStore(t) PROVE PhaseInv'
  BY <1>8 DEF SendStore, TypeOK, handles, Goto, MarkUnusableIf, Stores,
     Commands, AllOps, PhaseInv, Holding, Listing
<1>9. ASSUME NEW t \in Tasks, RequestOffset(t) PROVE PhaseInv'
  BY <1>9 DEF RequestOffset, TypeOK, flags, handles, Goto, Stores, Commands,
     AllOps, PhaseInv, Holding, Listing
<1>10. ASSUME NEW t \in Tasks, Retr(t) PROVE PhaseInv'
  BY <1>10 DEF Retr, TypeOK, handles, Goto, MarkUnusableIf, Stores, Commands,
     AllOps, PhaseInv, Holding, Listing
<1>11. ASSUME NEW t \in Tasks, ResetMarker(t) PROVE PhaseInv'
  BY <1>11 DEF ResetMarker, TypeOK, handles, Goto, MarkUnusableIf, Stores,
     Commands, AllOps, PhaseInv, Holding, Listing
<1>12. ASSUME NEW t \in Tasks, ListCommand(t) PROVE PhaseInv'
  BY <1>12 DEF ListCommand, TypeOK, handles, Goto, MarkUnusableIf, Stores,
     Commands, AllOps, PhaseInv, HandleInv, Holding, Listing
<1>13. ASSUME NEW t \in Tasks, ListTransfer(t) PROVE PhaseInv'
  BY <1>13 DEF ListTransfer, TypeOK, flags, handles, Goto, Stores, Commands,
     AllOps, PhaseInv, HandleInv, Holding, Listing
<1>14. ASSUME NEW t \in Tasks, StartTransfer(t) PROVE PhaseInv'
  BY <1>14 DEF StartTransfer, TypeOK, Goto, Info, Stores, Commands, AllOps,
     PhaseInv, Holding, Listing
<1>15. ASSUME NEW t \in Tasks, Record(t) PROVE PhaseInv'
  BY <1>15 DEF Record, TypeOK, locals, handles, Goto, MarkUnusableIf, Stores,
     Commands, AllOps, PhaseInv, Holding, Listing
<1>16. ASSUME NEW t \in Tasks, Fail(t) PROVE PhaseInv'
  BY <1>16, UnlockEffect DEF Fail, TypeOK, handles, MarkUnusableIf, Stores,
     Commands, AllOps, PhaseInv, Holding, Listing
<1>17. ASSUME NEW t \in Tasks, Complete(t) PROVE PhaseInv'
  BY <1>17 DEF Complete, TypeOK, flags, handles, Goto, Conclude, ReturnWith,
     Stores, Commands, AllOps, PhaseInv, Holding, Listing
<1>18. ASSUME NEW t \in Tasks, LateRecord(t) PROVE PhaseInv'
  BY <1>18 DEF LateRecord, TypeOK, handles, ReturnWith, MarkUnusableIf,
     Conclude, Goto, Stores, Commands, AllOps, PhaseInv, Holding, Listing
<1>19. ASSUME NEW t \in Tasks, Classify(t) PROVE PhaseInv'
  BY <1>19 DEF Classify, TypeOK, shared, handles, Goto, ReturnWith, Stores,
     Commands, AllOps, PhaseInv, Holding, Listing
<1>20. ASSUME NEW t \in Tasks, SkipPrefix(t) PROVE PhaseInv'
  BY <1>20 DEF SkipPrefix, TypeOK, shared, locals, Goto, Info, Stores,
     Commands, AllOps, PhaseInv, Holding, Listing
<1>21. ASSUME NEW t \in Tasks, SkipFails(t) PROVE PhaseInv'
  BY <1>21 DEF SkipFails, TypeOK, flags, locals, Goto, Stores, Commands,
     AllOps, PhaseInv, Holding, Listing
<1>22. ASSUME NEW t \in Tasks, AwaitCleanup(t) PROVE PhaseInv'
  BY <1>22 DEF AwaitCleanup, TypeOK, shared, handles, ReturnWith, Goto,
     Stores, Commands, AllOps, PhaseInv, Holding, Listing
<1>23. ASSUME NEW t \in Tasks, Deliver(t) PROVE PhaseInv'
  BY <1>23 DEF Deliver, TypeOK, shared, ReturnWith, Goto, Stores, Commands,
     AllOps, PhaseInv, Holding, Listing
<1>24. ASSUME NEW t \in Tasks, IsConnected(t) PROVE PhaseInv'
  BY <1>24 DEF IsConnected, TypeOK, shared, handles, Goto, ReturnWith, Stores,
     Commands, AllOps, PhaseInv, Holding, Listing
<1>25. ASSUME NEW t \in Tasks, WelcomeMessage(t) PROVE PhaseInv'
  BY <1>25 DEF WelcomeMessage, TypeOK, shared, handles, ReturnWith, Goto,
     Stores, Commands, AllOps, PhaseInv, Holding, Listing
<1>26. ASSUME NEW t \in Tasks, ConnectCheckActive(t) PROVE PhaseInv'
  BY <1>26 DEF ConnectCheckActive, TypeOK, shared, handles, Goto, ReturnWith,
     Stores, Commands, AllOps, PhaseInv, Holding, Listing
<1>27. ASSUME NEW t \in Tasks, ConnectReset(t) PROVE PhaseInv'
  BY <1>27 DEF ConnectReset, TypeOK, handles, Goto, ReturnWith, Stores,
     Commands, AllOps, PhaseInv, Holding, Listing
<1>28. ASSUME NEW t \in Tasks, Dial(t) PROVE PhaseInv'
  BY <1>28 DEF Dial, TypeOK, handles, ReturnWith, Goto, Stores, Commands,
     AllOps, PhaseInv, Holding, Listing
<1>29. ASSUME NEW t \in Tasks, DisconnectCheckActive(t) PROVE PhaseInv'
  BY <1>29 DEF DisconnectCheckActive, TypeOK, shared, handles, Goto,
     ReturnWith, Stores, Commands, AllOps, PhaseInv, Holding, Listing
<1>30. ASSUME NEW t \in Tasks, HangUp(t) PROVE PhaseInv'
  BY <1>30 DEF HangUp, TypeOK, handles, Goto, ReturnWith, Stores, Commands,
     AllOps, PhaseInv, Holding, Listing
<1>31. ASSUME NEW t \in Tasks, Quit(t) PROVE PhaseInv'
  BY <1>31 DEF Quit, TypeOK, handles, ReturnWith, MarkUnusableIf, Goto,
     Stores, Commands, AllOps, PhaseInv, Holding, Listing
<1>32. ASSUME NEW t \in Tasks, Accessor(t) PROVE PhaseInv'
  BY <1>32 DEF Accessor, TypeOK, shared, handles, Goto, ReturnWith, Stores,
     Commands, AllOps, PhaseInv, Holding, Listing
<1>33. ASSUME NEW t \in Tasks, RawCommands(t) PROVE PhaseInv'
  BY <1>33 DEF RawCommands, TypeOK, shared, handles, ReturnWith, Goto, Stores,
     Commands, AllOps, PhaseInv, Holding, Listing
<1>34. ASSUME NEW t \in Tasks, CancelWaiting(t) PROVE PhaseInv'
  BY <1>34 DEF CancelWaiting, TypeOK, shared, handles, ReturnWith, Goto,
     Stores, Commands, AllOps, PhaseInv, Holding, Listing
<1>35. ASSUME NEW t \in Tasks, CancelExchange(t) PROVE PhaseInv'
  BY <1>35 DEF CancelExchange, TypeOK, flags, locals, handles, Goto, Stores,
     Commands, AllOps, PhaseInv, Holding, Listing
<1>36. ASSUME NEW t \in Tasks, DropMutexGuard(t) PROVE PhaseInv'
  BY <1>36 DEF DropMutexGuard, TypeOK, flags, locals, handles, Goto, Stores,
     Commands, AllOps, PhaseInv, Holding, Listing
<1>37. ASSUME NEW t \in Tasks, DropOperationGuard(t) PROVE PhaseInv'
  BY <1>37 DEF DropOperationGuard, TypeOK, handles, ReturnWith, Goto, Stores,
     Commands, AllOps, PhaseInv, Holding, Listing
<1>38. ASSUME NEW t \in Tasks, CancelSkip(t) PROVE PhaseInv'
  BY <1>38 DEF CancelSkip, TypeOK, shared, ReturnWith, Goto, Stores, Commands,
     AllOps, PhaseInv, Holding, Listing
<1>39. ASSUME NEW t \in Tasks, CancelExclusive(t) PROVE PhaseInv'
  BY <1>39 DEF CancelExclusive, TypeOK, flags, handles, ReturnWith, Goto,
     Stores, Commands, AllOps, PhaseInv, Holding, Listing
<1>40. ASSUME NEW h \in Handles, Read(h) PROVE PhaseInv'
  BY <1>40 DEF Read, TypeOK, shared, locals, AfterRead, AfterReading, Info,
     Stores, Commands, AllOps, PhaseInv, Holding, Listing
<1>41. ASSUME NEW h \in Handles, Finish(h) PROVE PhaseInv'
  BY <1>41 DEF Finish, TypeOK, shared, locals, AtEof, Stores, Commands,
     AllOps, PhaseInv, Holding, Listing
<1>42. ASSUME NEW h \in Handles, DropStream(h) PROVE PhaseInv'
  BY <1>42 DEF DropStream, TypeOK, shared, locals, Stores, Commands, AllOps,
     PhaseInv, Holding, Listing
<1>43. ASSUME NEW h \in Handles, CancelFinish(h) PROVE PhaseInv'
  BY <1>43 DEF CancelFinish, TypeOK, shared, locals, Stores, Commands, AllOps,
     PhaseInv, Holding, Listing
<1>44. ASSUME NEW h \in Handles, Drain(h) PROVE PhaseInv'
  BY <1>44 DEF Drain, TypeOK, flags, locals, Info, Stores, Commands, AllOps,
     PhaseInv, Holding, Listing
<1>45. ASSUME NEW h \in Handles, Finalize(h) PROVE PhaseInv'
  BY <1>45 DEF Finalize, TypeOK, flags, locals, Stores, Commands, AllOps,
     PhaseInv, Holding, Listing
<1>46. ASSUME NEW h \in Handles, Invalidate(h) PROVE PhaseInv'
  BY <1>46 DEF Invalidate, TypeOK, locals, Stores, Commands, AllOps, PhaseInv,
     Holding, Listing
<1>47. ASSUME NEW h \in Handles, DropInner(h) PROVE PhaseInv'
  BY <1>47 DEF DropInner, TypeOK, flags, locals, Stores, Commands, AllOps,
     PhaseInv, Holding, Listing
<1>48. ASSUME NEW h \in Handles, Release(h) PROVE PhaseInv'
  BY <1>48 DEF Release, TypeOK, locals, NoInfo, Info, Stores, Commands,
     AllOps, PhaseInv, Holding, Listing
<1>u. CASE UNCHANGED vars
  BY <1>u DEF vars, shared, flags, locals, handles, PhaseInv, Holding, Listing
<1> QED
  BY <1>1, <1>2, <1>3, <1>4, <1>5, <1>6, <1>7, <1>8, <1>9, <1>10, <1>11,
     <1>12, <1>13, <1>14, <1>15, <1>16, <1>17, <1>18, <1>19, <1>20, <1>21,
     <1>22, <1>23, <1>24, <1>25, <1>26, <1>27, <1>28, <1>29, <1>30, <1>31,
     <1>32, <1>33, <1>34, <1>35, <1>36, <1>37, <1>38, <1>39, <1>40, <1>41,
     <1>42, <1>43, <1>44, <1>45, <1>46, <1>47, <1>48, <1>u
  DEF Next, TaskStep, Cancel, CleanupStep

(* is_connected reads connected or transfer_active, and both stand for a   *)
(* stream that stays until the call has returned.                          *)
LEMMA AnswerInvStep ==
    ASSUME TypeOK, BorrowInv, ActiveInv, AnswerInv, [Next]_vars
    PROVE  AnswerInv'
<1> USE TokioFtpFsAssumption
        DEF PCs, Awaiting, Settling, Unlocked, InExclusive
<1>1. ASSUME NEW t \in Tasks, Begin(t) PROVE AnswerInv'
  BY <1>1 DEF Begin, AnswerInv, TypeOK, shared, handles, Goto, FirstStep,
     ConnectedAnswerIsTrue
<1>2. ASSUME NEW t \in Tasks, BeginExclusive(t) PROVE AnswerInv'
  BY <1>2 DEF BeginExclusive, AnswerInv, TypeOK, shared, handles, Goto,
     Exclusives, ConnectedAnswerIsTrue
<1>3. ASSUME NEW t \in Tasks, Return(t) PROVE AnswerInv'
  BY <1>3 DEF Return, AnswerInv, TypeOK, shared, handles, Goto,
     ConnectedAnswerIsTrue
<1>4. ASSUME NEW t \in Tasks, Lock(t) PROVE AnswerInv'
  BY <1>4 DEF Lock, AnswerInv, TypeOK, flags, locals, handles, Goto,
     ConnectedAnswerIsTrue
<1>5. ASSUME NEW t \in Tasks, CheckOperationState(t) PROVE AnswerInv'
  BY <1>5, UnlockEffect DEF CheckOperationState, AnswerInv, TypeOK, flags,
     handles, Goto, ConnectedAnswerIsTrue
<1>6. ASSUME NEW t \in Tasks, Take(t) PROVE AnswerInv'
  BY <1>6, UnlockEffect DEF Take, AnswerInv, TypeOK, flags, handles, Goto,
     ConnectedAnswerIsTrue
<1>7. ASSUME NEW t \in Tasks, SendCommand(t) PROVE AnswerInv'
  BY <1>7 DEF SendCommand, AnswerInv, TypeOK, flags, handles, Goto,
     ConnectedAnswerIsTrue
<1>8. ASSUME NEW t \in Tasks, SendStore(t) PROVE AnswerInv'
  BY <1>8 DEF SendStore, AnswerInv, TypeOK, handles, Goto, MarkUnusableIf,
     ConnectedAnswerIsTrue
<1>9. ASSUME NEW t \in Tasks, RequestOffset(t) PROVE AnswerInv'
  BY <1>9 DEF RequestOffset, AnswerInv, TypeOK, flags, handles, Goto,
     ConnectedAnswerIsTrue
<1>10. ASSUME NEW t \in Tasks, Retr(t) PROVE AnswerInv'
  BY <1>10 DEF Retr, AnswerInv, TypeOK, handles, Goto, MarkUnusableIf,
     ConnectedAnswerIsTrue
<1>11. ASSUME NEW t \in Tasks, ResetMarker(t) PROVE AnswerInv'
  BY <1>11 DEF ResetMarker, AnswerInv, TypeOK, handles, Goto, MarkUnusableIf,
     ConnectedAnswerIsTrue
<1>12. ASSUME NEW t \in Tasks, ListCommand(t) PROVE AnswerInv'
  BY <1>12 DEF ListCommand, AnswerInv, TypeOK, handles, Goto, MarkUnusableIf,
     ConnectedAnswerIsTrue
<1>13. ASSUME NEW t \in Tasks, ListTransfer(t) PROVE AnswerInv'
  BY <1>13 DEF ListTransfer, AnswerInv, TypeOK, flags, handles, Goto,
     ConnectedAnswerIsTrue
<1>14. ASSUME NEW t \in Tasks, StartTransfer(t) PROVE AnswerInv'
  BY <1>14 DEF StartTransfer, AnswerInv, TypeOK, Goto, Info,
     ConnectedAnswerIsTrue
<1>15. ASSUME NEW t \in Tasks, Record(t) PROVE AnswerInv'
  BY <1>15 DEF Record, AnswerInv, TypeOK, locals, handles, Goto,
     MarkUnusableIf, ConnectedAnswerIsTrue
<1>16. ASSUME NEW t \in Tasks, Fail(t) PROVE AnswerInv'
  BY <1>16, UnlockEffect DEF Fail, AnswerInv, TypeOK, handles, MarkUnusableIf,
     ConnectedAnswerIsTrue
<1>17. ASSUME NEW t \in Tasks, Complete(t) PROVE AnswerInv'
  BY <1>17 DEF Complete, AnswerInv, TypeOK, flags, handles, Goto, Conclude,
     ReturnWith, ConnectedAnswerIsTrue
<1>18. ASSUME NEW t \in Tasks, LateRecord(t) PROVE AnswerInv'
  BY <1>18 DEF LateRecord, AnswerInv, TypeOK, handles, ReturnWith,
     MarkUnusableIf, Conclude, Goto, ConnectedAnswerIsTrue
<1>19. ASSUME NEW t \in Tasks, Classify(t) PROVE AnswerInv'
  BY <1>19 DEF Classify, AnswerInv, TypeOK, shared, handles, Goto, ReturnWith,
     Outcomes, ConnectedAnswerIsTrue
<1>20. ASSUME NEW t \in Tasks, SkipPrefix(t) PROVE AnswerInv'
  BY <1>20 DEF SkipPrefix, AnswerInv, TypeOK, shared, locals, Goto, Info,
     ConnectedAnswerIsTrue
<1>21. ASSUME NEW t \in Tasks, SkipFails(t) PROVE AnswerInv'
  BY <1>21 DEF SkipFails, AnswerInv, TypeOK, flags, locals, Goto,
     ConnectedAnswerIsTrue
<1>22. ASSUME NEW t \in Tasks, AwaitCleanup(t) PROVE AnswerInv'
  BY <1>22 DEF AwaitCleanup, AnswerInv, TypeOK, shared, handles, ReturnWith,
     Goto, ConnectedAnswerIsTrue
<1>23. ASSUME NEW t \in Tasks, Deliver(t) PROVE AnswerInv'
  BY <1>23 DEF Deliver, AnswerInv, TypeOK, shared, ReturnWith, Goto,
     ConnectedAnswerIsTrue
<1>24. ASSUME NEW t \in Tasks, IsConnected(t) PROVE AnswerInv'
  BY <1>24 DEF IsConnected, AnswerInv, TypeOK, shared, handles, Goto,
     ReturnWith, ConnectedAnswerIsTrue, ActiveInv
<1>25. ASSUME NEW t \in Tasks, WelcomeMessage(t) PROVE AnswerInv'
  BY <1>25 DEF WelcomeMessage, AnswerInv, TypeOK, shared, handles, ReturnWith,
     Goto, ConnectedAnswerIsTrue
<1>26. ASSUME NEW t \in Tasks, ConnectCheckActive(t) PROVE AnswerInv'
  BY <1>26 DEF ConnectCheckActive, AnswerInv, TypeOK, shared, handles, Goto,
     ReturnWith, ConnectedAnswerIsTrue
<1>27. ASSUME NEW t \in Tasks, ConnectReset(t) PROVE AnswerInv'
  BY <1>27 DEF ConnectReset, AnswerInv, TypeOK, handles, Goto, ReturnWith,
     ConnectedAnswerIsTrue, BorrowInv
<1>28. ASSUME NEW t \in Tasks, Dial(t) PROVE AnswerInv'
  BY <1>28 DEF Dial, AnswerInv, TypeOK, handles, ReturnWith, Goto,
     ConnectedAnswerIsTrue
<1>29. ASSUME NEW t \in Tasks, DisconnectCheckActive(t) PROVE AnswerInv'
  BY <1>29 DEF DisconnectCheckActive, AnswerInv, TypeOK, shared, handles,
     Goto, ReturnWith, ConnectedAnswerIsTrue
<1>30. ASSUME NEW t \in Tasks, HangUp(t) PROVE AnswerInv'
  BY <1>30 DEF HangUp, AnswerInv, TypeOK, handles, Goto, ReturnWith,
     ConnectedAnswerIsTrue, BorrowInv
<1>31. ASSUME NEW t \in Tasks, Quit(t) PROVE AnswerInv'
  BY <1>31 DEF Quit, AnswerInv, TypeOK, handles, ReturnWith, MarkUnusableIf,
     Goto, ConnectedAnswerIsTrue
<1>32. ASSUME NEW t \in Tasks, Accessor(t) PROVE AnswerInv'
  BY <1>32 DEF Accessor, AnswerInv, TypeOK, shared, handles, Goto, ReturnWith,
     ConnectedAnswerIsTrue
<1>33. ASSUME NEW t \in Tasks, RawCommands(t) PROVE AnswerInv'
  BY <1>33 DEF RawCommands, AnswerInv, TypeOK, shared, handles, ReturnWith,
     Goto, ConnectedAnswerIsTrue
<1>34. ASSUME NEW t \in Tasks, CancelWaiting(t) PROVE AnswerInv'
  BY <1>34 DEF CancelWaiting, AnswerInv, TypeOK, shared, handles, ReturnWith,
     Goto, ConnectedAnswerIsTrue
<1>35. ASSUME NEW t \in Tasks, CancelExchange(t) PROVE AnswerInv'
  BY <1>35 DEF CancelExchange, AnswerInv, TypeOK, flags, locals, handles,
     Goto, ConnectedAnswerIsTrue
<1>36. ASSUME NEW t \in Tasks, DropMutexGuard(t) PROVE AnswerInv'
  BY <1>36 DEF DropMutexGuard, AnswerInv, TypeOK, flags, locals, handles,
     Goto, ConnectedAnswerIsTrue
<1>37. ASSUME NEW t \in Tasks, DropOperationGuard(t) PROVE AnswerInv'
  BY <1>37 DEF DropOperationGuard, AnswerInv, TypeOK, handles, ReturnWith,
     Goto, ConnectedAnswerIsTrue
<1>38. ASSUME NEW t \in Tasks, CancelSkip(t) PROVE AnswerInv'
  BY <1>38 DEF CancelSkip, AnswerInv, TypeOK, shared, ReturnWith, Goto,
     ConnectedAnswerIsTrue
<1>39. ASSUME NEW t \in Tasks, CancelExclusive(t) PROVE AnswerInv'
  BY <1>39 DEF CancelExclusive, AnswerInv, TypeOK, flags, handles, ReturnWith,
     Goto, ConnectedAnswerIsTrue
<1>40. ASSUME NEW h \in Handles, Read(h) PROVE AnswerInv'
  BY <1>40 DEF Read, AnswerInv, TypeOK, shared, locals, AfterRead,
     AfterReading, Info, ConnectedAnswerIsTrue
<1>41. ASSUME NEW h \in Handles, Finish(h) PROVE AnswerInv'
  BY <1>41 DEF Finish, AnswerInv, TypeOK, shared, locals, AtEof,
     ConnectedAnswerIsTrue
<1>42. ASSUME NEW h \in Handles, DropStream(h) PROVE AnswerInv'
  BY <1>42 DEF DropStream, AnswerInv, TypeOK, shared, locals,
     ConnectedAnswerIsTrue
<1>43. ASSUME NEW h \in Handles, CancelFinish(h) PROVE AnswerInv'
  BY <1>43 DEF CancelFinish, AnswerInv, TypeOK, shared, locals,
     ConnectedAnswerIsTrue
<1>44. ASSUME NEW h \in Handles, Drain(h) PROVE AnswerInv'
  BY <1>44 DEF Drain, AnswerInv, TypeOK, flags, locals, Info,
     ConnectedAnswerIsTrue
<1>45. ASSUME NEW h \in Handles, Finalize(h) PROVE AnswerInv'
  BY <1>45 DEF Finalize, AnswerInv, TypeOK, flags, locals,
     ConnectedAnswerIsTrue
<1>46. ASSUME NEW h \in Handles, Invalidate(h) PROVE AnswerInv'
  BY <1>46 DEF Invalidate, AnswerInv, TypeOK, locals, ConnectedAnswerIsTrue
<1>47. ASSUME NEW h \in Handles, DropInner(h) PROVE AnswerInv'
  BY <1>47 DEF DropInner, AnswerInv, TypeOK, flags, locals,
     ConnectedAnswerIsTrue
<1>48. ASSUME NEW h \in Handles, Release(h) PROVE AnswerInv'
  BY <1>48 DEF Release, AnswerInv, TypeOK, locals, NoInfo, Info,
     ConnectedAnswerIsTrue
<1>u. CASE UNCHANGED vars
  BY <1>u DEF AnswerInv, vars, shared, flags, locals, handles,
     ConnectedAnswerIsTrue
<1> QED
  BY <1>1, <1>2, <1>3, <1>4, <1>5, <1>6, <1>7, <1>8, <1>9, <1>10, <1>11,
     <1>12, <1>13, <1>14, <1>15, <1>16, <1>17, <1>18, <1>19, <1>20, <1>21,
     <1>22, <1>23, <1>24, <1>25, <1>26, <1>27, <1>28, <1>29, <1>30, <1>31,
     <1>32, <1>33, <1>34, <1>35, <1>36, <1>37, <1>38, <1>39, <1>40, <1>41,
     <1>42, <1>43, <1>44, <1>45, <1>46, <1>47, <1>48, <1>u
  DEF Next, TaskStep, Cancel, CleanupStep

-----------------------------------------------------------------------------
(* What holds whatever is cancelled.                                       *)

(* A client just built by TokioFtpFs::new has no stream, and nobody uses it.*)
LEMMA IInvInit == Init => IInv
<1> SUFFICES ASSUME Init PROVE IInv
  OBVIOUS
<1> USE TokioFtpFsAssumption DEF Init
<1>1. TypeOK
  BY TypeInit
<1>2. LockInv /\ BorrowInv
  BY DEF LockInv, BorrowInv, UnderMutex, InExclusive, Awaiting, Settling
<1>3. ActiveInv
  BY DEF ActiveInv, SawInactive, SawStream, Awaiting
<1>4. HandleInv
  BY DEF HandleInv, Alive, Holding
<1>5. PhaseInv
  BY <1>4 DEF PhaseInv, Holding
<1>6. AnswerInv
  BY DEF AnswerInv, ConnectedAnswerIsTrue
<1> QED
  BY <1>1, <1>2, <1>3, <1>4, <1>5, <1>6 DEF IInv

(* No step of any task, handle, cleanup or cancellation leaves it.         *)
LEMMA IInvStep == IInv /\ [Next]_vars => IInv'
<1> SUFFICES ASSUME IInv, [Next]_vars PROVE IInv'
  OBVIOUS
<1>1. TypeOK /\ LockInv /\ BorrowInv /\ ActiveInv /\ HandleInv /\ PhaseInv /\ AnswerInv
  BY DEF IInv
<1>2. TypeOK'
  BY <1>1, TypeStep
<1>3. LockInv' /\ BorrowInv'
  BY <1>1, LockInvStep, BorrowInvStep
<1>4. ActiveInv' /\ HandleInv'
  BY <1>1, ActiveInvStep, HandleInvStep
<1>5. PhaseInv' /\ AnswerInv'
  BY <1>1, PhaseInvStep, AnswerInvStep
<1> QED
  BY <1>2, <1>3, <1>4, <1>5 DEF IInv

(* Every reachable state satisfies the inductive invariant.                *)
THEOREM IInvCorrect == Spec => []IInv
<1>1. Init => IInv
  BY IInvInit
<1>2. IInv /\ [Next]_vars => IInv'
  BY IInvStep
<1> QED
  BY <1>1, <1>2, PTL DEF Spec

(* The mutex, transfer_active and the borrow checker together give the     *)
(* control connection at most one user, also while cancelled calls unwind  *)
(* and destructors run.                                                    *)
THEOREM OneUserOfTheConnection == Spec => []ControlChannelExclusive
<1>1. IInv => ControlChannelExclusive
  <2> SUFFICES ASSUME IInv PROVE ControlChannelExclusive
    OBVIOUS
  <2> USE DEF IInv
  <2>1. ASSUME NEW t \in Tasks, NEW u \in Tasks,
               pc[t] \in InExchange, pc[u] \in InExchange
        PROVE  t = u
    BY <2>1 DEF InExchange, LockInv, BorrowInv, UnderMutex, Awaiting,
       InExclusive
  <2>2. \A h, k \in Handles : Alive(h) /\ Alive(k) => h = k
    BY DEF HandleInv
  <2>3. ASSUME NEW t \in Tasks, NEW h \in Handles, pc[t] \in InExchange
        PROVE  ~Alive(h)
    BY <2>3 DEF InExchange, HandleInv, ActiveInv, SawInactive
  <2> QED
    BY <2>1, <2>2, <2>3 DEF ControlChannelExclusive
<1> QED
  BY <1>1, IInvCorrect, PTL

(* connect, disconnect and stream() refuse while a transfer stream lives,  *)
(* so its session stays under it.                                          *)
THEOREM StreamsKeepTheirSession == Spec => []HandleKeepsSession
<1>1. IInv => HandleKeepsSession
  BY DEF IInv, HandleInv, ActiveInv, HandleKeepsSession
<1> QED
  BY <1>1, IInvCorrect, PTL

(* is_connected reads copies with three loads; nothing that happens between*)
(* them makes it answer true of a client without a stream.                 *)
THEOREM ConnectedIsTrue == Spec => []ConnectedAnswerIsTrue
<1>1. IInv => ConnectedAnswerIsTrue
  BY DEF IInv, AnswerInv
<1> QED
  BY <1>1, IInvCorrect, PTL

-----------------------------------------------------------------------------
(* What a finish() that is dropped half way would break.                   *)

(* A new client is in step.                                                *)
LEMMA MarkedInvInit == Init => MarkedInv
BY FreshChannel DEF Init, MarkedInv, Holding, NoInfo, Info

(* Whoever loses a reply is on its way to record that, or holds a guard    *)
(* whose drop does.                                                        *)
LEMMA MarkedInvStep ==
    ASSUME FinishRunsToItsEnd, IInv, MarkedInv, [Next]_vars
    PROVE  MarkedInv'
<1> USE TokioFtpFsAssumption DEF IInv, FinishRunsToItsEnd
<1>1. ASSUME NEW t \in Tasks, Begin(t) PROVE MarkedInv'
  BY <1>1 DEF Begin, TypeOK, shared, handles, Goto, FirstStep, MarkedInv,
     Holding, Marks, WillRecord, Listing
<1>2. ASSUME NEW t \in Tasks, BeginExclusive(t) PROVE MarkedInv'
  BY <1>2 DEF BeginExclusive, TypeOK, shared, handles, Goto, Exclusives,
     MarkedInv, Holding, Marks
<1>3. ASSUME NEW t \in Tasks, Return(t) PROVE MarkedInv'
  BY <1>3 DEF Return, TypeOK, shared, handles, Goto, MarkedInv, Holding,
     Marks, WillRecord, Listing
<1>4. ASSUME NEW t \in Tasks, Lock(t) PROVE MarkedInv'
  BY <1>4 DEF Lock, TypeOK, flags, locals, handles, Goto, MarkedInv, Holding,
     Marks, WillRecord, Listing
<1>5. ASSUME NEW t \in Tasks, CheckOperationState(t) PROVE MarkedInv'
  BY <1>5, UnlockEffect DEF CheckOperationState, TypeOK, flags, handles, Goto,
     MarkedInv, Holding, Marks, WillRecord, Listing
<1>6. ASSUME NEW t \in Tasks, Take(t) PROVE MarkedInv'
  BY <1>6, UnlockEffect DEF Take, TypeOK, flags, handles, Goto, MarkedInv,
     Holding, Marks, WillRecord, Listing
<1>7. ASSUME NEW t \in Tasks, SendCommand(t) PROVE MarkedInv'
  BY <1>7, CommandAnswers DEF SendCommand, TypeOK, flags, handles, Goto,
     MarkedInv, Holding, Marks, WillRecord, Listing, PhaseInv, HandleInv
<1>8. ASSUME NEW t \in Tasks, SendStore(t) PROVE MarkedInv'
  <2>1. PICK a \in DataCommand(chan) :
           /\ chan' = a.chan
           /\ connection_usable' = (connection_usable /\ ~a.hook)
           /\ err' = [err EXCEPT ![t] = a.err]
           /\ pc' = [pc EXCEPT ![t] = IF a.err = Success THEN "start" ELSE "record"]
    BY <1>8 DEF SendStore, Goto, MarkUnusableIf
  <2>2. /\ a.err \in FtpError \cup {Success}
        /\ chan.synced => /\ a.chan.synced \/ a.hook \/ TransferSetupRequiresReconnect(a.err)
                          /\ a.err = Success => a.chan.synced
    BY <2>1, DataCommandAnswers DEF TypeOK
  <2>3. /\ pc[t] = "send"
        /\ UNCHANGED <<op, probes, held, hstate, hinfo, reconnect>>
    BY <1>8 DEF SendStore, handles
  <2>5. chan'.synced \/ ~connection_usable' \/ (\E u \in Tasks : Marks(u)')
        \/ \E h \in Handles : hstate'[h] = "invalidate"
    <3>1. CASE chan.synced
      BY <2>1, <2>2, <2>3, <3>1 DEF TypeOK, Marks
    <3>2. ASSUME NEW u \in Tasks, Marks(u) PROVE Marks(u)'
      BY <2>1, <2>3, <3>2 DEF TypeOK, Marks, WillRecord, Listing
    <3> QED
      BY <2>1, <2>3, <3>1, <3>2 DEF MarkedInv
  <2> QED
    BY <2>1, <2>2, <2>3, <2>5 DEF TypeOK, MarkedInv, Holding
<1>9. ASSUME NEW t \in Tasks, RequestOffset(t) PROVE MarkedInv'
  <2> DEFINE lost == TransferSetupRequiresReconnect(err'[t])
  <2>1. /\ \A u \in Tasks \ {t} : /\ pc'[u] = pc[u] /\ err'[u] = err[u] /\ resumed'[u] = resumed[u]
        /\ UNCHANGED <<lock, flags, op, probes, reconnect, want, held, hstate, hinfo>>
    BY <1>9 DEF RequestOffset, Goto, flags, handles, TypeOK
  <2>2. \/ pc'[t] = "retr"
        \/ pc'[t] = "fail" /\ err'[t] \in FtpError
    BY <1>9 DEF RequestOffset, Goto, TypeOK
  <2>3. chan.synced => chan'.synced \/ (pc'[t] = "fail" /\ lost)
    <3>1. CASE UNCHANGED chan
      BY <3>1
    <3>2. ASSUME NEW a \in SetMarker(chan), chan' = a.chan,
                 a.err = Success \/ a.err \in ReplyCodes \ {"r421"}
          PROVE  chan.synced => chan'.synced
      BY <3>2, SetMarkerAnswers, PlainRefusals, SuccessIsNoError DEF TypeOK
    <3>3. ASSUME NEW a \in SetMarker(chan), chan' = a.chan,
                 err' = [err EXCEPT ![t] = a.err]
          PROVE  chan.synced => chan'.synced \/ lost
      BY <3>3, SetMarkerAnswers DEF TypeOK
    <3> QED
      BY <1>9, <3>1, <3>2, <3>3 DEF RequestOffset, Goto, TypeOK
  <2>4. \A u \in Tasks : Marks(u) => Marks(u)'
    BY <1>9, <2>1, <2>2 DEF RequestOffset, Marks, WillRecord, Listing
  <2> QED
    BY <1>9, <2>1, <2>2, <2>3, <2>4 DEF RequestOffset, flags, MarkedInv,
       Marks, Holding
<1>10. ASSUME NEW t \in Tasks, Retr(t) PROVE MarkedInv'
  <2>1. PICK a \in DataCommand(chan) :
           /\ chan' = a.chan
           /\ connection_usable' = (connection_usable /\ ~a.hook)
           /\ err' = [err EXCEPT ![t] = a.err]
           /\ \E label \in {"record", "reset"} :
              pc' = [pc EXCEPT ![t] = IF a.err = Success THEN "start" ELSE label]
    BY <1>10 DEF Retr, Goto, MarkUnusableIf
  <2>2. /\ a.err \in FtpError \cup {Success}
        /\ chan.synced => /\ a.chan.synced \/ a.hook \/ TransferSetupRequiresReconnect(a.err)
                          /\ a.err = Success => a.chan.synced
    BY <2>1, DataCommandAnswers DEF TypeOK
  <2>3. /\ pc[t] \in {"retr", "retry"}
        /\ UNCHANGED <<op, probes, held, hstate, hinfo, reconnect>>
    BY <1>10 DEF Retr, handles
  <2>5. chan'.synced \/ ~connection_usable' \/ (\E u \in Tasks : Marks(u)')
        \/ \E h \in Handles : hstate'[h] = "invalidate"
    <3>1. CASE chan.synced
      BY <2>1, <2>2, <2>3, <3>1 DEF TypeOK, Marks
    <3>2. ASSUME NEW u \in Tasks, Marks(u) PROVE Marks(u)'
      BY <2>1, <2>3, <3>2 DEF TypeOK, Marks, WillRecord, Listing
    <3> QED
      BY <2>1, <2>3, <3>1, <3>2 DEF MarkedInv
  <2> QED
    BY <2>1, <2>2, <2>3, <2>5 DEF TypeOK, MarkedInv, Holding
<1>11. ASSUME NEW t \in Tasks, ResetMarker(t) PROVE MarkedInv'
  BY <1>11, ClearMarkerAnswers DEF ResetMarker, TypeOK, handles, Goto,
     MarkUnusableIf, MarkedInv, Holding, ActiveInv, SawInactive, Awaiting
<1>12. ASSUME NEW t \in Tasks, ListCommand(t) PROVE MarkedInv'
  <2>1. PICK a \in DataCommand(chan) :
           /\ chan' = a.chan
           /\ connection_usable' = (connection_usable /\ ~a.hook)
           /\ err' = [err EXCEPT ![t] = a.err]
           /\ pc' = [pc EXCEPT ![t] = IF a.err = Success THEN "list_transfer" ELSE "complete"]
           /\ reconnect' = [reconnect EXCEPT ![t] = TransferSetupRequiresReconnect(a.err)]
    BY <1>12 DEF ListCommand, Goto, MarkUnusableIf
  <2>2. /\ a.err \in FtpError \cup {Success}
        /\ chan.synced => /\ a.chan.synced \/ a.hook \/ TransferSetupRequiresReconnect(a.err)
                          /\ a.err = Success => a.chan.synced
    BY <2>1, DataCommandAnswers DEF TypeOK
  <2>3. /\ pc[t] = "list"
        /\ UNCHANGED <<op, probes, held, hstate, hinfo>>
    BY <1>12 DEF ListCommand, handles
  <2>4. Listing(t) /\ ~Holding(t) /\ held[t] = NoHandle
    BY <2>3 DEF PhaseInv, HandleInv, Holding
  <2>5. chan'.synced \/ ~connection_usable' \/ (\E u \in Tasks : Marks(u)')
        \/ \E h \in Handles : hstate'[h] = "invalidate"
    <3>1. CASE chan.synced
      BY <2>1, <2>2, <2>3, <2>4, <3>1 DEF TypeOK, Marks, WillRecord, Listing
    <3>2. ASSUME NEW u \in Tasks, Marks(u) PROVE Marks(u)'
      BY <2>1, <2>3, <3>2 DEF TypeOK, Marks, WillRecord, Listing
    <3> QED
      BY <2>1, <2>3, <3>1, <3>2 DEF MarkedInv
  <2> QED
    BY <2>1, <2>2, <2>3, <2>4, <2>5 DEF TypeOK, MarkedInv, Holding
<1>13. ASSUME NEW t \in Tasks, ListTransfer(t) PROVE MarkedInv'
  <2>1. PICK readFails \in BOOLEAN :
        \E a \in Completion(IF readFails THEN Faulty(chan) ELSE chan, readFails) :
           /\ chan' = a.chan
           /\ reconnect' = [reconnect EXCEPT ![t] = readFails \/ a.err # Success]
    BY <1>13 DEF ListTransfer
  <2> DEFINE c == IF readFails THEN Faulty(chan) ELSE chan
  <2>2. c \in Channel /\ c.synced = chan.synced
    BY FaultyChannel DEF TypeOK
  <2>3. PICK a \in Completion(c, readFails) :
           /\ chan' = a.chan
           /\ reconnect' = [reconnect EXCEPT ![t] = readFails \/ a.err # Success]
    BY <2>1
  <2> HIDE DEF c
  <2>4. chan.synced => chan'.synced \/ reconnect'[t]
    <3>1. chan.synced => a.chan.synced \/ a.err # Success
      BY <2>2, <2>3, CompletionAnswers
    <3> QED
      BY <2>3, <3>1 DEF TypeOK
  <2>5. /\ pc[t] = "list_transfer" /\ Listing(t) /\ Listing(t)'
        /\ pc' = [pc EXCEPT ![t] = "complete"]
        /\ held[t] = NoHandle
    BY <1>13 DEF ListTransfer, Goto, PhaseInv, HandleInv, Listing
  <2>6. \A u \in Tasks \ {t} : Marks(u) => Marks(u)'
    BY <1>13, <2>3, <2>5 DEF ListTransfer, TypeOK, Marks, WillRecord, Listing
  <2>7. ~Marks(t) /\ (reconnect'[t] => Marks(t)')
    BY <2>5 DEF TypeOK, Marks, WillRecord
  <2> QED
    BY <1>13, <2>4, <2>5, <2>6, <2>7 DEF ListTransfer, TypeOK, flags, handles,
       MarkedInv, Holding
<1>14. ASSUME NEW t \in Tasks, StartTransfer(t) PROVE MarkedInv'
  BY <1>14 DEF StartTransfer, TypeOK, Goto, Info, MarkedInv, Holding, Marks,
     WillRecord, Listing, PhaseInv, HandleInv
<1>15. ASSUME NEW t \in Tasks, Record(t) PROVE MarkedInv'
  BY <1>15 DEF Record, TypeOK, locals, handles, Goto, MarkUnusableIf,
     MarkedInv, Holding, Marks, WillRecord, Listing, HandleInv, ActiveInv,
     SawInactive
<1>16. ASSUME NEW t \in Tasks, Fail(t) PROVE MarkedInv'
  BY <1>16, UnlockEffect, FirstCause DEF Fail, TypeOK, handles,
     MarkUnusableIf, MarkedInv, Holding, Marks, WillRecord, Listing,
     ActiveInv, SawInactive
<1>17. ASSUME NEW t \in Tasks, Complete(t) PROVE MarkedInv'
  <2>1. PICK label \in {"late_record", "skip", "deliver", "classify", "return"} :
           /\ pc' = [pc EXCEPT ![t] = label]
           /\ label \in {"skip", "deliver"} <=> held[t] # NoHandle
           /\ Listing(t) \/ op[t] \in Commands => label = "late_record"
           /\ label = "skip" => op[t] = "open"
    BY <1>17 DEF Complete, Conclude, ReturnWith, Goto, Stores, Commands,
       PhaseInv, Holding
  <2>2. \A u \in Tasks : Marks(u) => Marks(u)'
    BY <1>17, <2>1 DEF Complete, TypeOK, Marks, WillRecord, Listing
  <2> QED
    BY <1>17, <2>1, <2>2 DEF Complete, TypeOK, flags, handles, MarkedInv,
       Holding
<1>18. ASSUME NEW t \in Tasks, LateRecord(t) PROVE MarkedInv'
  <2>1. PICK label \in {"classify", "return"} : pc' = [pc EXCEPT ![t] = label]
    BY <1>18 DEF LateRecord, Conclude, ReturnWith, Goto
  <2>2. connection_usable' => connection_usable /\ ~Marks(t)
    BY <1>18 DEF LateRecord, MarkUnusableIf, Marks, WillRecord
  <2>3. \A u \in Tasks \ {t} : Marks(u) => Marks(u)'
    BY <1>18, <2>1 DEF LateRecord, TypeOK, Marks, WillRecord, Listing
  <2> QED
    BY <1>18, <2>1, <2>2, <2>3 DEF LateRecord, TypeOK, handles, MarkedInv,
       Holding
<1>19. ASSUME NEW t \in Tasks, Classify(t) PROVE MarkedInv'
  BY <1>19 DEF Classify, TypeOK, shared, handles, Goto, ReturnWith, MarkedInv,
     Holding, Marks, WillRecord, Listing
<1>20. ASSUME NEW t \in Tasks, SkipPrefix(t) PROVE MarkedInv'
  BY <1>20 DEF SkipPrefix, TypeOK, shared, locals, Goto, Info, MarkedInv,
     Holding, HandleInv, Marks, WillRecord, Listing
<1>21. ASSUME NEW t \in Tasks, SkipFails(t) PROVE MarkedInv'
  BY <1>21, FaultyChannel DEF SkipFails, TypeOK, flags, locals, Goto,
     MarkedInv, Holding, Marks, WillRecord, Listing, HandleInv, BorrowInv
<1>22. ASSUME NEW t \in Tasks, AwaitCleanup(t) PROVE MarkedInv'
  BY <1>22 DEF AwaitCleanup, TypeOK, shared, handles, ReturnWith, Goto,
     MarkedInv, Holding, Marks, WillRecord, Listing
<1>23. ASSUME NEW t \in Tasks, Deliver(t) PROVE MarkedInv'
  BY <1>23 DEF Deliver, TypeOK, shared, ReturnWith, Goto, MarkedInv, Holding,
     Marks, WillRecord, Listing, HandleInv
<1>24. ASSUME NEW t \in Tasks, IsConnected(t) PROVE MarkedInv'
  BY <1>24 DEF IsConnected, TypeOK, shared, handles, Goto, ReturnWith,
     MarkedInv, Holding, Marks, WillRecord, Listing
<1>25. ASSUME NEW t \in Tasks, WelcomeMessage(t) PROVE MarkedInv'
  BY <1>25 DEF WelcomeMessage, TypeOK, shared, handles, ReturnWith, Goto,
     MarkedInv, Holding, Marks, WillRecord, Listing
<1>26. ASSUME NEW t \in Tasks, ConnectCheckActive(t) PROVE MarkedInv'
  BY <1>26 DEF ConnectCheckActive, TypeOK, shared, handles, Goto, ReturnWith,
     MarkedInv, Holding, Marks, WillRecord, Listing
<1>27. ASSUME NEW t \in Tasks, ConnectReset(t) PROVE MarkedInv'
  BY <1>27, FreshChannel DEF ConnectReset, TypeOK, handles, Goto, ReturnWith,
     MarkedInv, Holding, Marks, WillRecord, Listing, HandleInv, ActiveInv,
     SawInactive, Alive
<1>28. ASSUME NEW t \in Tasks, Dial(t) PROVE MarkedInv'
  BY <1>28, FreshChannel DEF Dial, TypeOK, handles, ReturnWith, Goto,
     MarkedInv, Holding, Marks, WillRecord, Listing
<1>29. ASSUME NEW t \in Tasks, DisconnectCheckActive(t) PROVE MarkedInv'
  BY <1>29 DEF DisconnectCheckActive, TypeOK, shared, handles, Goto,
     ReturnWith, MarkedInv, Holding, Marks, WillRecord, Listing
<1>30. ASSUME NEW t \in Tasks, HangUp(t) PROVE MarkedInv'
  BY <1>30, FreshChannel DEF HangUp, TypeOK, handles, Goto, ReturnWith,
     MarkedInv, Holding, Marks, WillRecord, Listing, HandleInv, ActiveInv,
     SawInactive, Alive
<1>31. ASSUME NEW t \in Tasks, Quit(t) PROVE MarkedInv'
  BY <1>31, FreshChannel DEF Quit, TypeOK, handles, ReturnWith,
     MarkUnusableIf, Goto, MarkedInv, Holding
<1>32. ASSUME NEW t \in Tasks, Accessor(t) PROVE MarkedInv'
  BY <1>32 DEF Accessor, TypeOK, shared, handles, Goto, ReturnWith, MarkedInv,
     Holding, Marks, WillRecord, Listing
<1>33. ASSUME NEW t \in Tasks, RawCommands(t) PROVE MarkedInv'
  BY <1>33 DEF RawCommands, TypeOK, shared, handles, ReturnWith, Goto,
     MarkedInv, Holding, Marks, WillRecord, Listing
<1>34. ASSUME NEW t \in Tasks, CancelWaiting(t) PROVE MarkedInv'
  BY <1>34 DEF CancelWaiting, TypeOK, shared, handles, ReturnWith, Goto,
     MarkedInv, Holding, Marks, WillRecord, Listing
<1>35. ASSUME NEW t \in Tasks, CancelExchange(t) PROVE MarkedInv'
  BY <1>35, AbandonedChannel DEF CancelExchange, TypeOK, flags, locals,
     handles, Goto, MarkedInv, Holding, Marks
<1>36. ASSUME NEW t \in Tasks, DropMutexGuard(t) PROVE MarkedInv'
  BY <1>36 DEF DropMutexGuard, TypeOK, flags, locals, handles, Goto,
     MarkedInv, Holding, Marks
<1>37. ASSUME NEW t \in Tasks, DropOperationGuard(t) PROVE MarkedInv'
  BY <1>37 DEF DropOperationGuard, TypeOK, handles, ReturnWith, Goto,
     MarkedInv, Holding
<1>38. ASSUME NEW t \in Tasks, CancelSkip(t) PROVE MarkedInv'
  BY <1>38 DEF CancelSkip, TypeOK, shared, ReturnWith, Goto, MarkedInv,
     Holding, Marks, WillRecord, Listing, HandleInv
<1>39. ASSUME NEW t \in Tasks, CancelExclusive(t) PROVE MarkedInv'
  BY <1>39, FreshChannel DEF CancelExclusive, TypeOK, flags, handles,
     ReturnWith, Goto, MarkedInv, Holding
<1>40. ASSUME NEW h \in Handles, Read(h) PROVE MarkedInv'
  BY <1>40, EofIsEmpty DEF Read, TypeOK, shared, locals, AfterRead,
     AfterReading, Info, MarkedInv, Holding, Marks, WillRecord, Listing
<1>41. ASSUME NEW h \in Handles, Finish(h) PROVE MarkedInv'
  BY <1>41 DEF Finish, TypeOK, shared, locals, AtEof, MarkedInv, Holding,
     Marks, WillRecord, Listing
<1>42. ASSUME NEW h \in Handles, DropStream(h) PROVE MarkedInv'
  BY <1>42, InfoFields DEF DropStream, TypeOK, shared, locals, MarkedInv,
     Holding, Marks, WillRecord, Listing
<1>43. ASSUME NEW h \in Handles, CancelFinish(h) PROVE MarkedInv'
  BY <1>43 DEF CancelFinish
<1>44. ASSUME NEW h \in Handles, Drain(h) PROVE MarkedInv'
  BY SMTT(30), <1>44, FaultyChannel DEF Drain, TypeOK, flags, locals, Info, MarkedInv,
     Holding, Marks, WillRecord, Listing, HandleInv, LockInv, SawInactive,
     Alive, Awaiting, Settling, InExclusive
<1>45. ASSUME NEW h \in Handles, Finalize(h) PROVE MarkedInv'
  BY <1>45, CompletionAnswers DEF Finalize, TypeOK, flags, locals, MarkedInv,
     Holding, Marks, WillRecord, Listing
<1>46. ASSUME NEW h \in Handles, Invalidate(h) PROVE MarkedInv'
  BY <1>46 DEF Invalidate, TypeOK, locals, MarkedInv, Holding
<1>47. ASSUME NEW h \in Handles, DropInner(h) PROVE MarkedInv'
  <2>1. chan' = chan \/ ~connection_usable
    <3>1. chan \in Channel /\ (hinfo[h].tail > 0) \in BOOLEAN
      BY DEF TypeOK
    <3>2. chan' \in Deferred(chan, hinfo[h].tail > 0) /\ hstate[h] = "dropped"
      BY <1>47 DEF DropInner
    <3> QED
      BY <3>1, <3>2, DeferredChannel DEF MarkedInv
  <2>2. \A u \in Tasks : Marks(u) => Marks(u)'
    BY <1>47 DEF DropInner, locals, Marks, WillRecord, Listing
  <2>3. hstate' = [hstate EXCEPT ![h] = "release"] /\ hstate[h] = "dropped"
    BY <1>47 DEF DropInner
  <2> QED
    BY <1>47, <2>1, <2>2, <2>3 DEF DropInner, TypeOK, flags, locals,
       MarkedInv, Holding
<1>48. ASSUME NEW h \in Handles, Release(h) PROVE MarkedInv'
  BY <1>48 DEF Release, TypeOK, locals, NoInfo, Info, MarkedInv, Holding,
     Marks, WillRecord, Listing
<1>u. CASE UNCHANGED vars
  BY <1>u DEF vars, shared, flags, locals, handles, MarkedInv, Holding, Marks,
     WillRecord, Listing
<1> QED
  BY <1>1, <1>2, <1>3, <1>4, <1>5, <1>6, <1>7, <1>8, <1>9, <1>10, <1>11,
     <1>12, <1>13, <1>14, <1>15, <1>16, <1>17, <1>18, <1>19, <1>20, <1>21,
     <1>22, <1>23, <1>24, <1>25, <1>26, <1>27, <1>28, <1>29, <1>30, <1>31,
     <1>32, <1>33, <1>34, <1>35, <1>36, <1>37, <1>38, <1>39, <1>40, <1>41,
     <1>42, <1>43, <1>44, <1>45, <1>46, <1>47, <1>48, <1>u
  DEF Next, TaskStep, Cancel, CleanupStep

(* A connection that is out of step is marked unusable, or the task, guard *)
(* or stream that broke it is about to mark it.                            *)
THEOREM LossOfStepIsMarked ==
    ASSUME FinishRunsToItsEnd
    PROVE  Spec => []OutOfStepIsMarked
<1>1. Init => MarkedInv
  BY MarkedInvInit
<1>2. IInv /\ MarkedInv /\ [Next]_vars => MarkedInv'
  BY MarkedInvStep
<1>3. MarkedInv => OutOfStepIsMarked
  <2> SUFFICES ASSUME MarkedInv PROVE OutOfStepIsMarked
    OBVIOUS
  <2>1. CASE \/ chan.synced \/ ~connection_usable
             \/ \E h \in Handles : hstate[h] = "invalidate"
    BY <2>1 DEF OutOfStepIsMarked
  <2>2. ASSUME NEW t \in Tasks, Marks(t) PROVE OutOfStepIsMarked
    <3>1. pc[t] \in {"reset", "record", "fail", "complete", "late_record",
                     "unwind", "late_unwind"}
      BY <2>2 DEF Marks
    <3> QED
      BY <3>1 DEF OutOfStepIsMarked
  <2> QED
    BY <2>1, <2>2 DEF MarkedInv
<1> QED
  BY <1>1, <1>2, <1>3, IInvCorrect, PTL DEF Spec

-----------------------------------------------------------------------------
(* What several tasks at a time would break.                               *)

(* A new client is clean.                                                  *)
LEMMA CleanInvInit == Init => CleanInv
<1> SUFFICES ASSUME Init PROVE CleanInv
  OBVIOUS
<1>1. Clean
  BY FreshChannel DEF Init, Clean
<1>2. /\ \A t \in Tasks : pc[t] = "idle"
      /\ \A h \in Handles : hstate[h] = "free"
  BY DEF Init
<1> QED
  BY <1>1, <1>2 DEF CleanInv

(* With one task nobody comes between the end of an exchange and the record*)
(* of its failure.                                                         *)
LEMMA CleanInvStep ==
    ASSUME OneTask, FinishRunsToItsEnd, IInv, MarkedInv, CleanInv, [Next]_vars
    PROVE  CleanInv'
<1> USE TokioFtpFsAssumption DEF IInv, OneTask, FinishRunsToItsEnd
<1>1. ASSUME NEW t \in Tasks, Begin(t) PROVE CleanInv'
  BY <1>1 DEF Begin, TypeOK, shared, handles, Goto, FirstStep, CleanInv,
     Clean, Marks
<1>2. ASSUME NEW t \in Tasks, BeginExclusive(t) PROVE CleanInv'
  BY <1>2 DEF BeginExclusive, TypeOK, shared, handles, Goto, Exclusives,
     CleanInv, Clean, Marks
<1>3. ASSUME NEW t \in Tasks, Return(t) PROVE CleanInv'
  BY <1>3 DEF Return, TypeOK, shared, handles, Goto, CleanInv, Clean, Marks
<1>4. ASSUME NEW t \in Tasks, Lock(t) PROVE CleanInv'
  BY <1>4 DEF Lock, TypeOK, flags, locals, handles, Goto, CleanInv, Clean,
     Marks
<1>5. ASSUME NEW t \in Tasks, CheckOperationState(t) PROVE CleanInv'
  BY <1>5, UnlockEffect DEF CheckOperationState, TypeOK, flags, handles, Goto,
     CleanInv, Clean, Marks, HandleInv, ActiveInv, SawInactive, Alive
<1>6. ASSUME NEW t \in Tasks, Take(t) PROVE CleanInv'
  BY <1>6, UnlockEffect DEF Take, TypeOK, flags, handles, Goto, CleanInv,
     Clean
<1>7. ASSUME NEW t \in Tasks, SendCommand(t) PROVE CleanInv'
  BY <1>7, CommandAnswers DEF SendCommand, TypeOK, flags, handles, Goto,
     CleanInv, Clean, Marks, WillRecord, Listing, PhaseInv, HandleInv,
     ActiveInv, SawInactive, Alive, Awaiting
<1>8. ASSUME NEW t \in Tasks, SendStore(t) PROVE CleanInv'
  BY <1>8, DataCommandAnswers DEF SendStore, TypeOK, handles, Goto,
     MarkUnusableIf, CleanInv, Clean, Marks, HandleInv, ActiveInv,
     SawInactive, Alive, Awaiting
<1>9. ASSUME NEW t \in Tasks, RequestOffset(t) PROVE CleanInv'
  <2>1. /\ pc[t] = "rest" /\ connection_usable /\ Clean /\ ~transfer_active
        /\ \A h \in Handles : hstate[h] = "free"
        /\ \A u \in Tasks : u = t
    BY <1>9 DEF RequestOffset, CleanInv, ActiveInv, HandleInv, Alive,
       SawInactive, Awaiting
  <2>2. UNCHANGED <<lock, flags, op, probes, reconnect, want, held, hstate, hinfo>>
    BY <1>9 DEF RequestOffset, handles
  <2>3. \/ /\ pc'[t] = "retr"
           /\ chan'.synced
           /\ chan'.marker => resumed'[t]
        \/ /\ pc'[t] = "fail"
           /\ (chan'.synced /\ ~chan'.marker) \/ TransferSetupRequiresReconnect(err'[t])
    <3>1. CASE Goto(t, "retr") /\ UNCHANGED <<chan, err, resumed>>
      BY <2>1, <3>1 DEF Goto, TypeOK, Clean
    <3>2. ASSUME NEW a \in SetMarker(chan), chan' = a.chan, a.err = Success,
                 resumed' = [resumed EXCEPT ![t] = TRUE], Goto(t, "retr")
          PROVE  pc'[t] = "retr" /\ chan'.synced /\ resumed'[t]
      BY <2>1, <3>2, SetMarkerAnswers, SuccessIsNoError DEF Goto, TypeOK,
         Clean
    <3>3. ASSUME NEW a \in SetMarker(chan), chan' = a.chan,
                 a.err \in ReplyCodes \ {"r421"}, Goto(t, "retr")
          PROVE  pc'[t] = "retr" /\ chan'.synced /\ ~chan'.marker
      <4>1. ~TransferSetupRequiresReconnect(a.err) /\ a.err # Success
        BY <3>3, PlainRefusals, SuccessIsNoError DEF ReplyCodes, Success
      <4>2. chan'.synced /\ chan'.marker = chan.marker
        BY <2>1, <3>3, <4>1, SetMarkerAnswers DEF TypeOK, Clean
      <4> QED
        BY <2>1, <3>3, <4>2 DEF Goto, TypeOK, Clean
    <3>4. ASSUME NEW a \in SetMarker(chan), chan' = a.chan,
                 a.err \in FtpError, err' = [err EXCEPT ![t] = a.err], Goto(t, "fail")
          PROVE  /\ pc'[t] = "fail"
                 /\ (chan'.synced /\ ~chan'.marker) \/ TransferSetupRequiresReconnect(err'[t])
      <4>1. a.err # Success /\ err'[t] = a.err /\ pc'[t] = "fail"
        BY <3>4, SuccessIsNoError DEF Goto, TypeOK
      <4>2. /\ chan'.marker = chan.marker
            /\ chan'.synced \/ TransferSetupRequiresReconnect(a.err)
        BY <2>1, <3>4, <4>1, SetMarkerAnswers DEF TypeOK, Clean
      <4> QED
        BY <2>1, <4>1, <4>2 DEF Clean
    <3> QED
      BY <1>9, <3>1, <3>2, <3>3, <3>4 DEF RequestOffset
  <2> QED
    BY <2>1, <2>2, <2>3 DEF flags, CleanInv, Clean, Marks
<1>10. ASSUME NEW t \in Tasks, Retr(t) PROVE CleanInv'
  BY <1>10, DataCommandAnswers DEF Retr, TypeOK, handles, Goto,
     MarkUnusableIf, CleanInv, Clean, Marks, HandleInv, ActiveInv,
     SawInactive, Alive, Awaiting
<1>11. ASSUME NEW t \in Tasks, ResetMarker(t) PROVE CleanInv'
  BY <1>11, ClearMarkerAnswers DEF ResetMarker, TypeOK, handles, Goto,
     MarkUnusableIf, CleanInv, Clean, HandleInv, ActiveInv, SawInactive,
     Alive, Awaiting
<1>12. ASSUME NEW t \in Tasks, ListCommand(t) PROVE CleanInv'
  BY <1>12, DataCommandAnswers DEF ListCommand, TypeOK, handles, Goto,
     MarkUnusableIf, CleanInv, Clean, Marks, WillRecord, Listing, PhaseInv,
     HandleInv, ActiveInv, SawInactive, Alive, Awaiting
<1>13. ASSUME NEW t \in Tasks, ListTransfer(t) PROVE CleanInv'
  BY <1>13, CompletionAnswers, FaultyChannel DEF ListTransfer, TypeOK, flags,
     handles, Goto, CleanInv, Clean, Marks, WillRecord, Listing, PhaseInv,
     HandleInv, ActiveInv, SawInactive, Alive, Awaiting
<1>14. ASSUME NEW t \in Tasks, StartTransfer(t) PROVE CleanInv'
  BY <1>14 DEF StartTransfer, TypeOK, Goto, Info, CleanInv, Clean
<1>15. ASSUME NEW t \in Tasks, Record(t) PROVE CleanInv'
  BY <1>15 DEF Record, TypeOK, locals, handles, Goto, MarkUnusableIf,
     CleanInv, Clean, Marks, ActiveInv, SawInactive
<1>16. ASSUME NEW t \in Tasks, Fail(t) PROVE CleanInv'
  BY <1>16, UnlockEffect, FirstCause DEF Fail, TypeOK, handles,
     MarkUnusableIf, CleanInv, Clean, Marks, MarkedInv, ActiveInv, SawInactive
<1>17. ASSUME NEW t \in Tasks, Complete(t) PROVE CleanInv'
  <2>1. PICK label \in {"late_record", "skip", "deliver", "classify", "return"} :
           /\ pc' = [pc EXCEPT ![t] = label]
           /\ label \in {"skip", "deliver"} <=> held[t] # NoHandle
           /\ Listing(t) \/ op[t] \in Commands => label = "late_record"
    BY <1>17 DEF Complete, Conclude, ReturnWith, Goto, Stores, Commands,
       PhaseInv, Holding
  <2>2. pc[t] = "complete" /\ (held[t] = NoHandle => ~transfer_active)
    BY <1>17 DEF Complete, HandleInv
  <2>3. Marks(t) => pc'[t] = "late_record" /\ Marks(t)'
    BY <1>17, <2>1, <2>2 DEF Complete, TypeOK, Marks, WillRecord, Listing
  <2>4. Clean \/ ~connection_usable \/ Marks(t)
    BY <2>2 DEF CleanInv
  <2> QED
    BY <1>17, <2>1, <2>2, <2>3, <2>4 DEF Complete, TypeOK, flags, handles,
       CleanInv, Clean
<1>18. ASSUME NEW t \in Tasks, LateRecord(t) PROVE CleanInv'
  <2>1. PICK label \in {"classify", "return"} : pc' = [pc EXCEPT ![t] = label]
    BY <1>18 DEF LateRecord, Conclude, ReturnWith, Goto
  <2>2. connection_usable' => connection_usable /\ ~Marks(t)
    BY <1>18 DEF LateRecord, MarkUnusableIf, Marks, WillRecord
  <2>3. Clean \/ ~connection_usable'
    BY <1>18, <2>2 DEF LateRecord, CleanInv
  <2> QED
    BY <1>18, <2>1, <2>2, <2>3 DEF LateRecord, TypeOK, handles, CleanInv,
       Clean
<1>19. ASSUME NEW t \in Tasks, Classify(t) PROVE CleanInv'
  BY <1>19 DEF Classify, TypeOK, shared, handles, Goto, ReturnWith, CleanInv,
     Clean, Marks
<1>20. ASSUME NEW t \in Tasks, SkipPrefix(t) PROVE CleanInv'
  BY <1>20 DEF SkipPrefix, TypeOK, shared, locals, Goto, Info, CleanInv,
     Clean, Marks
<1>21. ASSUME NEW t \in Tasks, SkipFails(t) PROVE CleanInv'
  BY <1>21, FaultyChannel DEF SkipFails, TypeOK, flags, locals, Goto,
     CleanInv, Clean, Holding, HandleInv
<1>22. ASSUME NEW t \in Tasks, AwaitCleanup(t) PROVE CleanInv'
  BY <1>22 DEF AwaitCleanup, TypeOK, shared, handles, ReturnWith, Goto,
     CleanInv, Clean, Marks
<1>23. ASSUME NEW t \in Tasks, Deliver(t) PROVE CleanInv'
  BY <1>23 DEF Deliver, TypeOK, shared, ReturnWith, Goto, CleanInv, Clean,
     Holding, HandleInv
<1>24. ASSUME NEW t \in Tasks, IsConnected(t) PROVE CleanInv'
  BY <1>24 DEF IsConnected, TypeOK, shared, handles, Goto, ReturnWith,
     CleanInv, Clean, Marks
<1>25. ASSUME NEW t \in Tasks, WelcomeMessage(t) PROVE CleanInv'
  BY <1>25 DEF WelcomeMessage, TypeOK, shared, handles, ReturnWith, Goto,
     CleanInv, Clean, Marks
<1>26. ASSUME NEW t \in Tasks, ConnectCheckActive(t) PROVE CleanInv'
  BY <1>26 DEF ConnectCheckActive, TypeOK, shared, handles, Goto, ReturnWith,
     CleanInv, Clean, Marks
<1>27. ASSUME NEW t \in Tasks, ConnectReset(t) PROVE CleanInv'
  BY <1>27, FreshChannel DEF ConnectReset, TypeOK, handles, Goto, ReturnWith,
     CleanInv, Clean, Marks
<1>28. ASSUME NEW t \in Tasks, Dial(t) PROVE CleanInv'
  BY <1>28, FreshChannel DEF Dial, TypeOK, handles, ReturnWith, Goto,
     CleanInv, Clean, Marks
<1>29. ASSUME NEW t \in Tasks, DisconnectCheckActive(t) PROVE CleanInv'
  BY <1>29 DEF DisconnectCheckActive, TypeOK, shared, handles, Goto,
     ReturnWith, CleanInv, Clean, Marks
<1>30. ASSUME NEW t \in Tasks, HangUp(t) PROVE CleanInv'
  BY <1>30, FreshChannel DEF HangUp, TypeOK, handles, Goto, ReturnWith,
     CleanInv, Clean, Marks, HandleInv, ActiveInv, SawInactive, Alive
<1>31. ASSUME NEW t \in Tasks, Quit(t) PROVE CleanInv'
  BY <1>31, FreshChannel DEF Quit, TypeOK, handles, ReturnWith,
     MarkUnusableIf, Goto, CleanInv, Clean
<1>32. ASSUME NEW t \in Tasks, Accessor(t) PROVE CleanInv'
  BY <1>32 DEF Accessor, TypeOK, shared, handles, Goto, ReturnWith, CleanInv,
     Clean, Marks, HandleInv, Alive
<1>33. ASSUME NEW t \in Tasks, RawCommands(t) PROVE CleanInv'
  BY <1>33 DEF RawCommands, TypeOK, shared, handles, ReturnWith, Goto,
     CleanInv, Clean
<1>34. ASSUME NEW t \in Tasks, CancelWaiting(t) PROVE CleanInv'
  BY <1>34 DEF CancelWaiting, TypeOK, shared, handles, ReturnWith, Goto,
     CleanInv, Clean, Marks
<1>35. ASSUME NEW t \in Tasks, CancelExchange(t) PROVE CleanInv'
  BY <1>35, AbandonedChannel DEF CancelExchange, TypeOK, flags, locals,
     handles, Goto, CleanInv, Marks, HandleInv, ActiveInv, SawInactive, Alive
<1>36. ASSUME NEW t \in Tasks, DropMutexGuard(t) PROVE CleanInv'
  BY <1>36 DEF DropMutexGuard, TypeOK, flags, locals, handles, Goto, CleanInv,
     Clean, Marks, ActiveInv, SawInactive
<1>37. ASSUME NEW t \in Tasks, DropOperationGuard(t) PROVE CleanInv'
  BY <1>37 DEF DropOperationGuard, TypeOK, handles, ReturnWith, Goto,
     CleanInv, Clean
<1>38. ASSUME NEW t \in Tasks, CancelSkip(t) PROVE CleanInv'
  BY <1>38 DEF CancelSkip, TypeOK, shared, ReturnWith, Goto, CleanInv, Clean,
     Holding, HandleInv
<1>39. ASSUME NEW t \in Tasks, CancelExclusive(t) PROVE CleanInv'
  BY <1>39, FreshChannel DEF CancelExclusive, TypeOK, flags, handles,
     ReturnWith, Goto, CleanInv, Clean
<1>40. ASSUME NEW h \in Handles, Read(h) PROVE CleanInv'
  BY <1>40, EofIsEmpty DEF Read, TypeOK, shared, locals, AfterRead,
     AfterReading, Info, CleanInv, Clean
<1>41. ASSUME NEW h \in Handles, Finish(h) PROVE CleanInv'
  BY <1>41 DEF Finish, TypeOK, shared, locals, AtEof, CleanInv, Clean
<1>42. ASSUME NEW h \in Handles, DropStream(h) PROVE CleanInv'
  BY <1>42, InfoFields DEF DropStream, TypeOK, shared, locals, CleanInv, Clean
<1>43. ASSUME NEW h \in Handles, CancelFinish(h) PROVE CleanInv'
  BY <1>43 DEF CancelFinish
<1>44. ASSUME NEW h \in Handles, Drain(h) PROVE CleanInv'
  BY <1>44, FaultyChannel DEF Drain, TypeOK, flags, locals, Info, CleanInv,
     Clean
<1>45. ASSUME NEW h \in Handles, Finalize(h) PROVE CleanInv'
  <2>1. PICK a \in Completion(chan, hinfo[h].tail > 0) :
           /\ chan' = a.chan
           /\ hstate' = [hstate EXCEPT ![h] =
                 IF hfail[h] \/ a.err # Success THEN "invalidate" ELSE "release"]
    BY <1>45 DEF Finalize
  <2>2. (hinfo[h].tail > 0) \in BOOLEAN
    OBVIOUS
  <2>3. a.chan.marker = chan.marker /\ (chan.synced => a.chan.synced \/ a.err # Success)
    BY <2>1, <2>2, CompletionAnswers DEF TypeOK
  <2>4. Clean /\ hstate[h] = "finalize" /\ transfer_active
    BY <1>45 DEF Finalize, CleanInv, HandleInv, Alive
  <2>5. Clean' \/ hstate'[h] = "invalidate"
    BY <2>1, <2>3, <2>4 DEF Clean, TypeOK
  <2>10. \A k \in Handles \ {h} : hstate[k] = "free"
    BY <2>4 DEF HandleInv, Alive
  <2>6. \A k \in Handles \ {h} : hstate'[k] = "free"
    BY <2>1, <2>10 DEF TypeOK
  <2>7. hstate'[h] \in {"invalidate", "release"} /\ (hstate'[h] = "release" => Clean')
    BY <2>1, <2>3, <2>4 DEF Clean, TypeOK
  <2>8. \A t \in Tasks : pc[t] \notin SawInactive \cup {"late_record", "late_unwind"}
    BY <2>4 DEF ActiveInv, CleanInv
  <2>9. \A t \in Tasks : pc[t] \notin {"complete"}
    BY <2>4, <2>10 DEF HandleInv, Holding
  <2> QED
    BY <1>45, <2>5, <2>6, <2>7, <2>8, <2>9 DEF Finalize, flags, locals,
       CleanInv, SawInactive, Awaiting
<1>46. ASSUME NEW h \in Handles, Invalidate(h) PROVE CleanInv'
  BY <1>46 DEF Invalidate, TypeOK, locals, CleanInv, HandleInv, ActiveInv,
     SawInactive, Alive, Awaiting
<1>47. ASSUME NEW h \in Handles, DropInner(h) PROVE CleanInv'
  <2>1. chan' = chan \/ ~connection_usable
    <3>1. chan \in Channel /\ (hinfo[h].tail > 0) \in BOOLEAN
      BY DEF TypeOK
    <3>2. chan' \in Deferred(chan, hinfo[h].tail > 0) /\ hstate[h] = "dropped"
      BY <1>47 DEF DropInner
    <3> QED
      BY <3>1, <3>2, DeferredChannel DEF MarkedInv
  <2>2. hstate' = [hstate EXCEPT ![h] = "release"] /\ hstate[h] = "dropped"
    BY <1>47 DEF DropInner
  <2>3. transfer_active /\ \A k \in Handles \ {h} : hstate[k] = "free"
    BY <2>2 DEF HandleInv, Alive
  <2>4. \A t \in Tasks :
           /\ pc[t] \notin SawInactive \cup {"late_record", "late_unwind", "complete"}
           /\ ~Marks(t)
    BY <2>2, <2>3 DEF ActiveInv, CleanInv, HandleInv, Holding, Marks,
       SawInactive, Awaiting
  <2>5. Clean \/ ~connection_usable
    BY <2>2, <2>3, <2>4 DEF CleanInv, SawInactive, Awaiting
  <2> QED
    BY <1>47, <2>1, <2>2, <2>3, <2>4, <2>5 DEF DropInner, TypeOK, flags,
       locals, CleanInv, Clean, SawInactive, Awaiting
<1>48. ASSUME NEW h \in Handles, Release(h) PROVE CleanInv'
  BY <1>48 DEF Release, TypeOK, locals, NoInfo, Info, CleanInv, Clean
<1>u. CASE UNCHANGED vars
  BY <1>u DEF vars, shared, flags, locals, handles, CleanInv, Clean, Marks,
     WillRecord, Listing
<1> QED
  BY <1>1, <1>2, <1>3, <1>4, <1>5, <1>6, <1>7, <1>8, <1>9, <1>10, <1>11,
     <1>12, <1>13, <1>14, <1>15, <1>16, <1>17, <1>18, <1>19, <1>20, <1>21,
     <1>22, <1>23, <1>24, <1>25, <1>26, <1>27, <1>28, <1>29, <1>30, <1>31,
     <1>32, <1>33, <1>34, <1>35, <1>36, <1>37, <1>38, <1>39, <1>40, <1>41,
     <1>42, <1>43, <1>44, <1>45, <1>46, <1>47, <1>48, <1>u
  DEF Next, TaskStep, Cancel, CleanupStep

(* No managed operation sends its first command on a connection whose      *)
(* replies are out of step.                                                *)
THEOREM CommandsInStep ==
    ASSUME OneTask, FinishRunsToItsEnd
    PROVE  Spec => []CommandsOnSyncedChannel
<1>1. Init => MarkedInv /\ CleanInv
  BY MarkedInvInit, CleanInvInit
<1>2. IInv /\ MarkedInv /\ [Next]_vars => MarkedInv'
  BY MarkedInvStep
<1>3. IInv /\ MarkedInv /\ CleanInv /\ [Next]_vars => CleanInv'
  BY CleanInvStep
<1>4. CleanInv => CommandsOnSyncedChannel
  BY DEF CleanInv, Clean, CommandsOnSyncedChannel, BeginsExchange
<1> QED
  BY <1>1, <1>2, <1>3, <1>4, IInvCorrect, PTL DEF Spec

(* Before the first open() nobody has asked for an offset.                 *)
LEMMA OffsetInvInit == Init => OffsetInv
BY DEF Init, OffsetInv, ReadStartsAtOffset, Holding

(* request_offset, retr_as_stream, reset_restart_marker and skip_prefix    *)
(* hand the offset on, as in the blocking client.                          *)
LEMMA OffsetInvStep ==
    ASSUME OneTask, FinishRunsToItsEnd, IInv, MarkedInv, CleanInv, OffsetInv, [Next]_vars
    PROVE  OffsetInv'
<1> USE TokioFtpFsAssumption DEF IInv, OneTask, FinishRunsToItsEnd
<1>1. ASSUME NEW t \in Tasks, Begin(t) PROVE OffsetInv'
  BY <1>1 DEF Begin, TypeOK, shared, handles, Goto, FirstStep, OffsetInv,
     ReadStartsAtOffset, Holding
<1>2. ASSUME NEW t \in Tasks, BeginExclusive(t) PROVE OffsetInv'
  BY <1>2 DEF BeginExclusive, TypeOK, shared, handles, Goto, Exclusives,
     OffsetInv, ReadStartsAtOffset, Holding
<1>3. ASSUME NEW t \in Tasks, Return(t) PROVE OffsetInv'
  BY <1>3 DEF Return, TypeOK, shared, handles, Goto, OffsetInv,
     ReadStartsAtOffset, Holding
<1>4. ASSUME NEW t \in Tasks, Lock(t) PROVE OffsetInv'
  BY <1>4 DEF Lock, TypeOK, flags, locals, handles, Goto, OffsetInv,
     ReadStartsAtOffset, Holding
<1>5. ASSUME NEW t \in Tasks, CheckOperationState(t) PROVE OffsetInv'
  BY <1>5, UnlockEffect DEF CheckOperationState, TypeOK, flags, handles, Goto,
     OffsetInv, ReadStartsAtOffset, Holding
<1>6. ASSUME NEW t \in Tasks, Take(t) PROVE OffsetInv'
  BY <1>6, UnlockEffect DEF Take, TypeOK, flags, handles, Goto, OffsetInv,
     ReadStartsAtOffset, Clean, CleanInv, Holding, Listing
<1>7. ASSUME NEW t \in Tasks, SendCommand(t) PROVE OffsetInv'
  BY <1>7, CommandAnswers DEF SendCommand, TypeOK, flags, handles, Goto,
     OffsetInv, ReadStartsAtOffset, Holding, HandleInv
<1>8. ASSUME NEW t \in Tasks, SendStore(t) PROVE OffsetInv'
  BY <1>8, DataCommandAnswers DEF SendStore, TypeOK, handles, Goto,
     MarkUnusableIf, OffsetInv, ServedFrom, ReadStartsAtOffset, Holding
<1>9. ASSUME NEW t \in Tasks, RequestOffset(t) PROVE OffsetInv'
  <2>1. /\ pc[t] = "rest" /\ Clean /\ want[t] = 1
        /\ ~resumed[t] /\ start[t] = 0
        /\ \A u \in Tasks : u = t
    BY <1>9 DEF RequestOffset, CleanInv, OffsetInv
  <2>2. UNCHANGED <<op, probes, want, start, held, hstate, hinfo>>
    BY <1>9 DEF RequestOffset, handles
  <2>3. \/ pc'[t] = "retr" /\ (resumed'[t] <=> chan'.marker)
        \/ pc'[t] = "fail"
    <3>1. CASE Goto(t, "retr") /\ UNCHANGED <<chan, err, resumed>>
      BY <2>1, <3>1, ChannelFields DEF Goto, TypeOK, Clean
    <3>2. ASSUME NEW a \in SetMarker(chan), chan' = a.chan, a.err = Success,
                 resumed' = [resumed EXCEPT ![t] = TRUE], Goto(t, "retr")
          PROVE  pc'[t] = "retr" /\ resumed'[t] = TRUE /\ chan'.marker
      BY <2>1, <3>2, SetMarkerAnswers DEF Goto, TypeOK, Clean
    <3>3. ASSUME NEW a \in SetMarker(chan), chan' = a.chan, UNCHANGED resumed,
                 a.err \in ReplyCodes \ {"r421"}, Goto(t, "retr")
          PROVE  pc'[t] = "retr" /\ ~resumed'[t] /\ ~chan'.marker
      <4>1. a.err # Success
        BY <3>3 DEF ReplyCodes, Success
      <4>2. chan'.marker = chan.marker
        BY <3>3, <4>1, SetMarkerAnswers DEF TypeOK
      <4> QED
        BY <2>1, <3>3, <4>2 DEF Goto, TypeOK, Clean
    <3>4. ASSUME Goto(t, "fail") PROVE pc'[t] = "fail"
      BY <3>4 DEF Goto, TypeOK
    <3> QED
      BY <1>9, <3>1, <3>2, <3>3, <3>4, ChannelFields DEF RequestOffset
  <2> QED
    BY <2>1, <2>2, <2>3 DEF OffsetInv, Holding, ReadStartsAtOffset
<1>10. ASSUME NEW t \in Tasks, Retr(t) PROVE OffsetInv'
  BY <1>10, DataCommandAnswers DEF Retr, TypeOK, handles, Goto,
     MarkUnusableIf, OffsetInv, ServedFrom, ReadStartsAtOffset, Clean,
     CleanInv, Holding
<1>11. ASSUME NEW t \in Tasks, ResetMarker(t) PROVE OffsetInv'
  BY <1>11, ClearMarkerAnswers DEF ResetMarker, TypeOK, handles, Goto,
     MarkUnusableIf, OffsetInv, ReadStartsAtOffset, Holding, ActiveInv,
     SawInactive, Awaiting
<1>12. ASSUME NEW t \in Tasks, ListCommand(t) PROVE OffsetInv'
  BY <1>12, DataCommandAnswers DEF ListCommand, TypeOK, handles, Goto,
     MarkUnusableIf, OffsetInv, ReadStartsAtOffset, Holding, HandleInv
<1>13. ASSUME NEW t \in Tasks, ListTransfer(t) PROVE OffsetInv'
  BY <1>13, CompletionAnswers, FaultyChannel DEF ListTransfer, TypeOK, flags,
     handles, Goto, OffsetInv, ServedFrom, ReadStartsAtOffset, Clean,
     CleanInv, Holding, Marks, WillRecord, Listing, MarkedInv, PhaseInv,
     HandleInv, ActiveInv, BorrowInv, LockInv, UnderMutex, SawInactive, Alive,
     Awaiting, Settling, InExclusive
<1>14. ASSUME NEW t \in Tasks, StartTransfer(t) PROVE OffsetInv'
  BY <1>14 DEF StartTransfer, TypeOK, Goto, Info, OffsetInv, ServedFrom,
     ReadStartsAtOffset
<1>15. ASSUME NEW t \in Tasks, Record(t) PROVE OffsetInv'
  BY <1>15 DEF Record, TypeOK, locals, handles, Goto, MarkUnusableIf,
     OffsetInv, ReadStartsAtOffset, Holding, HandleInv
<1>16. ASSUME NEW t \in Tasks, Fail(t) PROVE OffsetInv'
  BY <1>16, UnlockEffect DEF Fail, TypeOK, handles, MarkUnusableIf, OffsetInv,
     ReadStartsAtOffset, Holding
<1>17. ASSUME NEW t \in Tasks, Complete(t) PROVE OffsetInv'
  BY <1>17 DEF Complete, TypeOK, flags, handles, Goto, Conclude, ReturnWith,
     OffsetInv, ServedFrom, ReadStartsAtOffset, Holding
<1>18. ASSUME NEW t \in Tasks, LateRecord(t) PROVE OffsetInv'
  BY <1>18 DEF LateRecord, TypeOK, handles, ReturnWith, MarkUnusableIf,
     Conclude, Goto, OffsetInv, ReadStartsAtOffset, Holding
<1>19. ASSUME NEW t \in Tasks, Classify(t) PROVE OffsetInv'
  BY <1>19 DEF Classify, TypeOK, shared, handles, Goto, ReturnWith, OffsetInv,
     ReadStartsAtOffset, Holding
<1>20. ASSUME NEW t \in Tasks, SkipPrefix(t) PROVE OffsetInv'
  <2>1. held[t] \in Handles /\ held[t] # NoHandle /\ hstate[held[t]] = "held"
    BY <1>20, TokioFtpFsAssumption DEF SkipPrefix, HandleInv, Holding
  <2>2. hinfo[held[t]].pos = 0 /\ want[t] \in 0..1
    BY <1>20, <2>1 DEF SkipPrefix, TypeOK, OffsetInv, ServedFrom, Holding
  <2>3. PICK tail \in 0..1, short \in BOOLEAN :
           hinfo' = [hinfo EXCEPT ![held[t]] =
                        Info(@.dir, @.want, @.pos + want[t], tail, @.remaining, short)]
    BY <1>20 DEF SkipPrefix
  <2>4. /\ hinfo'[held[t]].want = hinfo[held[t]].want
        /\ hinfo'[held[t]].pos = want[t]
        /\ \A h \in Handles \ {held[t]} : hinfo'[h] = hinfo[h]
    BY <2>1, <2>2, <2>3 DEF TypeOK, Info
  <2> QED
    BY <1>20, <2>1, <2>4 DEF SkipPrefix, TypeOK, shared, locals, Goto, OffsetInv,
       HandleInv, Holding, ReadStartsAtOffset, ServedFrom
<1>21. ASSUME NEW t \in Tasks, SkipFails(t) PROVE OffsetInv'
  BY <1>21, FaultyChannel DEF SkipFails, TypeOK, flags, locals, Goto,
     OffsetInv, ReadStartsAtOffset, Holding
<1>22. ASSUME NEW t \in Tasks, AwaitCleanup(t) PROVE OffsetInv'
  BY <1>22 DEF AwaitCleanup, TypeOK, shared, handles, ReturnWith, Goto,
     OffsetInv, ReadStartsAtOffset, Holding
<1>23. ASSUME NEW t \in Tasks, Deliver(t) PROVE OffsetInv'
  BY <1>23 DEF Deliver, TypeOK, shared, ReturnWith, Goto, OffsetInv,
     ReadStartsAtOffset, Holding
<1>24. ASSUME NEW t \in Tasks, IsConnected(t) PROVE OffsetInv'
  BY <1>24 DEF IsConnected, TypeOK, shared, handles, Goto, ReturnWith,
     OffsetInv, ReadStartsAtOffset, Holding
<1>25. ASSUME NEW t \in Tasks, WelcomeMessage(t) PROVE OffsetInv'
  BY <1>25 DEF WelcomeMessage, TypeOK, shared, handles, ReturnWith, Goto,
     OffsetInv, ReadStartsAtOffset, Holding
<1>26. ASSUME NEW t \in Tasks, ConnectCheckActive(t) PROVE OffsetInv'
  BY <1>26 DEF ConnectCheckActive, TypeOK, shared, handles, Goto, ReturnWith,
     OffsetInv, ReadStartsAtOffset, Holding
<1>27. ASSUME NEW t \in Tasks, ConnectReset(t) PROVE OffsetInv'
  BY <1>27, FreshChannel DEF ConnectReset, TypeOK, handles, Goto, ReturnWith,
     OffsetInv, ReadStartsAtOffset, Holding
<1>28. ASSUME NEW t \in Tasks, Dial(t) PROVE OffsetInv'
  BY <1>28, FreshChannel DEF Dial, TypeOK, handles, ReturnWith, Goto,
     OffsetInv, ReadStartsAtOffset, Holding
<1>29. ASSUME NEW t \in Tasks, DisconnectCheckActive(t) PROVE OffsetInv'
  BY <1>29 DEF DisconnectCheckActive, TypeOK, shared, handles, Goto,
     ReturnWith, OffsetInv, ReadStartsAtOffset, Holding
<1>30. ASSUME NEW t \in Tasks, HangUp(t) PROVE OffsetInv'
  BY <1>30, FreshChannel DEF HangUp, TypeOK, handles, Goto, ReturnWith,
     OffsetInv, ReadStartsAtOffset, Holding
<1>31. ASSUME NEW t \in Tasks, Quit(t) PROVE OffsetInv'
  BY <1>31, FreshChannel DEF Quit, TypeOK, handles, ReturnWith,
     MarkUnusableIf, Goto, OffsetInv, ReadStartsAtOffset, Holding
<1>32. ASSUME NEW t \in Tasks, Accessor(t) PROVE OffsetInv'
  BY <1>32 DEF Accessor, TypeOK, shared, handles, Goto, ReturnWith, OffsetInv,
     ReadStartsAtOffset, Holding
<1>33. ASSUME NEW t \in Tasks, RawCommands(t) PROVE OffsetInv'
  BY <1>33 DEF RawCommands, TypeOK, shared, handles, ReturnWith, Goto,
     OffsetInv, ReadStartsAtOffset, Holding
<1>34. ASSUME NEW t \in Tasks, CancelWaiting(t) PROVE OffsetInv'
  BY <1>34 DEF CancelWaiting, TypeOK, shared, handles, ReturnWith, Goto,
     OffsetInv, ReadStartsAtOffset, Holding
<1>35. ASSUME NEW t \in Tasks, CancelExchange(t) PROVE OffsetInv'
  BY <1>35, AbandonedChannel DEF CancelExchange, TypeOK, flags, locals,
     handles, Goto, OffsetInv, ReadStartsAtOffset, Holding
<1>36. ASSUME NEW t \in Tasks, DropMutexGuard(t) PROVE OffsetInv'
  BY <1>36 DEF DropMutexGuard, TypeOK, flags, locals, handles, Goto,
     OffsetInv, ReadStartsAtOffset, Holding
<1>37. ASSUME NEW t \in Tasks, DropOperationGuard(t) PROVE OffsetInv'
  BY <1>37 DEF DropOperationGuard, TypeOK, handles, ReturnWith, Goto,
     OffsetInv, ReadStartsAtOffset, Holding
<1>38. ASSUME NEW t \in Tasks, CancelSkip(t) PROVE OffsetInv'
  BY <1>38 DEF CancelSkip, TypeOK, shared, ReturnWith, Goto, OffsetInv,
     ReadStartsAtOffset, Holding
<1>39. ASSUME NEW t \in Tasks, CancelExclusive(t) PROVE OffsetInv'
  BY <1>39, FreshChannel DEF CancelExclusive, TypeOK, flags, handles,
     ReturnWith, Goto, OffsetInv, ReadStartsAtOffset, Holding
<1>40. ASSUME NEW h \in Handles, Read(h) PROVE OffsetInv'
  BY <1>40, EofIsEmpty, InfoFields DEF Read, TypeOK, shared, locals,
     AfterRead, AfterReading, Info, OffsetInv, ServedFrom, ReadStartsAtOffset,
     Holding
<1>41. ASSUME NEW h \in Handles, Finish(h) PROVE OffsetInv'
  BY <1>41 DEF Finish, TypeOK, shared, locals, AtEof, OffsetInv, ServedFrom,
     ReadStartsAtOffset, Holding
<1>42. ASSUME NEW h \in Handles, DropStream(h) PROVE OffsetInv'
  BY <1>42, InfoFields DEF DropStream, TypeOK, shared, locals, OffsetInv,
     ServedFrom, ReadStartsAtOffset, Holding
<1>43. ASSUME NEW h \in Handles, CancelFinish(h) PROVE OffsetInv'
  BY <1>43 DEF CancelFinish
<1>44. ASSUME NEW h \in Handles, Drain(h) PROVE OffsetInv'
  BY SMTT(30), <1>44, FaultyChannel DEF Drain, TypeOK, flags, locals, Info, OffsetInv,
     ServedFrom, ReadStartsAtOffset, Holding, Marks, WillRecord, MarkedInv,
     PhaseInv, HandleInv, ActiveInv, BorrowInv, LockInv, UnderMutex,
     SawInactive, Settling, InExclusive
<1>45. ASSUME NEW h \in Handles, Finalize(h) PROVE OffsetInv'
  BY <1>45, CompletionAnswers DEF Finalize, TypeOK, flags, locals, OffsetInv,
     ServedFrom, ReadStartsAtOffset, Clean, CleanInv, Holding
<1>46. ASSUME NEW h \in Handles, Invalidate(h) PROVE OffsetInv'
  BY <1>46 DEF Invalidate, TypeOK, locals, OffsetInv, ServedFrom,
     ReadStartsAtOffset, Holding
<1>47. ASSUME NEW h \in Handles, DropInner(h) PROVE OffsetInv'
  BY <1>47, DeferredChannel DEF DropInner, TypeOK, flags, locals, OffsetInv,
     ServedFrom, ReadStartsAtOffset, CleanInv, Holding, ActiveInv,
     SawInactive, Awaiting
<1>48. ASSUME NEW h \in Handles, Release(h) PROVE OffsetInv'
  BY <1>48 DEF Release, TypeOK, locals, NoInfo, Info, OffsetInv, ServedFrom,
     ReadStartsAtOffset, Holding, HandleInv
<1>u. CASE UNCHANGED vars
  BY <1>u DEF vars, shared, flags, locals, handles, OffsetInv, Holding,
     ServedFrom, ReadStartsAtOffset
<1> QED
  BY <1>1, <1>2, <1>3, <1>4, <1>5, <1>6, <1>7, <1>8, <1>9, <1>10, <1>11,
     <1>12, <1>13, <1>14, <1>15, <1>16, <1>17, <1>18, <1>19, <1>20, <1>21,
     <1>22, <1>23, <1>24, <1>25, <1>26, <1>27, <1>28, <1>29, <1>30, <1>31,
     <1>32, <1>33, <1>34, <1>35, <1>36, <1>37, <1>38, <1>39, <1>40, <1>41,
     <1>42, <1>43, <1>44, <1>45, <1>46, <1>47, <1>48, <1>u
  DEF Next, TaskStep, Cancel, CleanupStep

(* The stream open() returns begins at the requested offset.               *)
THEOREM OffsetsAreHonoured ==
    ASSUME OneTask, FinishRunsToItsEnd
    PROVE  Spec => []ReadStartsAtOffset
<1>1. Init => MarkedInv /\ CleanInv /\ OffsetInv
  BY MarkedInvInit, CleanInvInit, OffsetInvInit
<1>2. IInv /\ MarkedInv /\ [Next]_vars => MarkedInv'
  BY MarkedInvStep
<1>3. IInv /\ MarkedInv /\ CleanInv /\ [Next]_vars => CleanInv'
  BY CleanInvStep
<1>4. IInv /\ MarkedInv /\ CleanInv /\ OffsetInv /\ [Next]_vars => OffsetInv'
  BY OffsetInvStep
<1>5. OffsetInv => ReadStartsAtOffset
  BY DEF OffsetInv
<1> QED
  BY <1>1, <1>2, <1>3, <1>4, <1>5, IInvCorrect, PTL DEF Spec

-----------------------------------------------------------------------------
(* TokioFtpFs implements ManagedControl when one task uses the client and  *)
(* no finish() future is dropped before its end: cancelled calls, their    *)
(* guards, unfinished transfer streams and the records that are made after *)
(* the mutex is released are, under the mapping of TokioFtpFsManaged, one  *)
(* step of the abstract client or none.                                    *)

(* What a step needs to know besides the invariants above:                  *)
(* connect() dials on a usable client without a stream, and QUIT is sent   *)
(* on a stream already given up.                                           *)
SessionInv ==
    /\ \A t \in Tasks : pc[t] = "dial" => ~stream /\ connection_usable
    /\ \A t \in Tasks : pc[t] = "quit" => ~stream

(* What holds between two steps of a client that one task uses.            *)
SoloInv == IInv /\ MarkedInv /\ CleanInv /\ SessionInv

-----------------------------------------------------------------------------
(* A task that has the connection.                                         *)
Using(t) == pc[t] \in InCall /\ held[t] = NoHandle

ManagedStep == [Managed!Next]_(Managed!mcvars)

(* What the abstract client sees of a state is determined by who uses the   *)
(* connection, whether there is a session, and, while there is one, by its  *)
(* two verdicts.                                                           *)
LEMMA StutterBridge ==
    ASSUME stream' <=> stream,
           ConnectionUsers' = ConnectionUsers,
           stream => (Clean' <=> Clean),
           stream => (connection_usable' <=> connection_usable)
    PROVE  ManagedStep
BY DEF ManagedStep, Managed!mcvars, Clean

(* The owner of the connection may spoil it and may say so; what was said  *)
(* stays said.                                                             *)
LEMMA UseBridge ==
    ASSUME NEW a \in Tasks \cup Handles,
           ConnectionUsers = {a}, ConnectionUsers' = {a},
           stream' <=> stream,
           connection_usable' => connection_usable
    PROVE  ManagedStep
<1>1. Managed!Use(a)
  BY DEF Managed!Use
<1> QED
  BY <1>1 DEF ManagedStep, Managed!Next

(* The owner may let go of a connection that is clean or said not to be.   *)
LEMMA ReleaseBridge ==
    ASSUME NEW a \in Tasks \cup Handles,
           ConnectionUsers = {a}, ConnectionUsers' = {},
           stream' <=> stream,
           connection_usable' => connection_usable,
           chan' = chan,
           Clean \/ ~connection_usable'
    PROVE  ManagedStep
<1>1. Managed!Release(a)
  BY DEF Managed!Release, Clean
<1> QED
  BY <1>1 DEF ManagedStep, Managed!Next

(* A free connection that is clean and usable may be taken.                *)
LEMMA AcquireBridge ==
    ASSUME NEW a \in Tasks \cup Handles,
           ConnectionUsers = {}, ConnectionUsers' = {a},
           stream, stream',
           Clean, connection_usable,
           chan' = chan, connection_usable' = connection_usable
    PROVE  ManagedStep
<1>1. Managed!Acquire(a)
  BY DEF Managed!Acquire, Managed!Free, Clean
<1> QED
  BY <1>1 DEF ManagedStep, Managed!Next

(* The call that has the connection gives it to its transfer stream.       *)
LEMMA HandOverBridge ==
    ASSUME NEW a \in Tasks \cup Handles, NEW b \in Tasks \cup Handles,
           ConnectionUsers = {a}, ConnectionUsers' = {b},
           stream' <=> stream,
           Clean,
           chan' = chan, connection_usable' = connection_usable
    PROVE  ManagedStep
<1>1. Managed!HandOver(a, b)
  BY DEF Managed!HandOver, Clean
<1> QED
  BY <1>1 DEF ManagedStep, Managed!Next

(* A new session begins clean, and is marked by nobody.                    *)
LEMMA ConnectBridge ==
    ASSUME ~stream, stream',
           ConnectionUsers' = ConnectionUsers,
           Clean', connection_usable'
    PROVE  ManagedStep
<1>1. Managed!Connect
  BY DEF Managed!Connect, Clean
<1> QED
  BY <1>1 DEF ManagedStep, Managed!Next

(* A session nobody uses may end, whatever had become of it.               *)
LEMMA HangUpBridge ==
    ASSUME stream, ~stream',
           ConnectionUsers = {}, ConnectionUsers' = {}
    PROVE  ManagedStep
<1>1. Managed!HangUp
  BY DEF Managed!HangUp, Managed!Free
<1> QED
  BY <1>1 DEF ManagedStep, Managed!Next

-----------------------------------------------------------------------------
(* Who uses the connection, before and after a step.                        *)

(* From the Option found to be Some to the last record of a call no        *)
(* transfer stream is alive, so the task is the only user; on the way there *)
(* and in connect() and disconnect() nobody is.                             *)
LEMMA TaskIsAlone ==
    ASSUME OneTask, IInv, CleanInv, NEW t \in Tasks,
           Using(t) \/ pc[t] \in {"take", "connect_reset", "dial", "hang_up", "quit"}
    PROVE  /\ \A h \in Handles : ~Alive(h)
           /\ Using(t) => ConnectionUsers = {t}
           /\ ~Using(t) => ConnectionUsers = {}
<1> USE DEF IInv
<1>1. ~transfer_active
  BY DEF Using, InCall, ActiveInv, SawInactive, Awaiting, HandleInv, CleanInv
<1>2. \A h \in Handles : ~Alive(h)
  BY <1>1 DEF HandleInv
<1>3. \A u \in Tasks : u = t
  BY DEF OneTask
<1> QED
  BY <1>2, <1>3 DEF ConnectionUsers, Using

(* A transfer stream that is alive is the only user.                        *)
LEMMA HandleIsAlone ==
    ASSUME IInv, CleanInv, NEW h \in Handles, Alive(h)
    PROVE  /\ ConnectionUsers = {h}
           /\ \A u \in Tasks : ~Using(u)
           /\ \A k \in Handles \ {h} : ~Alive(k)
<1> USE DEF IInv
<1>1. transfer_active /\ \A k \in Handles \ {h} : ~Alive(k)
  BY DEF HandleInv
<1>2. ASSUME NEW u \in Tasks PROVE ~Using(u)
  BY <1>1 DEF Using, InCall, ActiveInv, SawInactive, Awaiting, HandleInv, CleanInv
<1> QED
  BY <1>1, <1>2 DEF ConnectionUsers, Using

(* A step of the only task says by its label whether the task is a user.   *)
LEMMA LabelDecides ==
    ASSUME TypeOK, NEW t \in Tasks, NEW label, pc' = [pc EXCEPT ![t] = label]
    PROVE  Using(t)' <=> label \in InCall /\ held'[t] = NoHandle
BY DEF TypeOK, Using

(* Before and after the use of the connection: nothing the abstract client  *)
(* knows of changes.                                                        *)
LEMMA OutsideStep ==
    ASSUME OneTask, TypeOK, NEW t \in Tasks, NEW label,
           ~Using(t), label \notin InCall \/ held'[t] # NoHandle,
           pc' = [pc EXCEPT ![t] = label],
           \A h \in Handles : Alive(h)' <=> Alive(h),
           stream' = stream,
           stream => chan' = chan /\ connection_usable' = connection_usable
    PROVE  ManagedStep
<1>1. ~Using(t)'
  BY LabelDecides
<1>2. \A u \in Tasks : u = t
  BY DEF OneTask
<1>3. ConnectionUsers' = ConnectionUsers
  BY <1>1, <1>2 DEF ConnectionUsers, Using
<1> QED
  BY <1>3, StutterBridge DEF Clean

(* A step of the task that uses the connection, and goes on using it.       *)
LEMMA InsideStep ==
    ASSUME OneTask, IInv, CleanInv, NEW t \in Tasks, NEW label,
           Using(t), label \in InCall,
           pc' = [pc EXCEPT ![t] = label],
           held' = held, hstate' = hstate, stream' = stream,
           connection_usable' => connection_usable
    PROVE  ManagedStep
<1>1. Using(t)'
  BY LabelDecides DEF Using, IInv
<1>2. ConnectionUsers = {t} /\ \A h \in Handles : ~Alive(h)
  BY TaskIsAlone
<1>3. \A u \in Tasks : u = t
  BY DEF OneTask
<1>4. ConnectionUsers' = {t}
  BY <1>1, <1>2, <1>3 DEF ConnectionUsers, Using, Alive
<1> QED
  BY <1>2, <1>4, UseBridge

(* The task that uses the connection lets go of it.                         *)
LEMMA LeaveStep ==
    ASSUME OneTask, IInv, CleanInv, NEW t \in Tasks, NEW label,
           Using(t), label \notin InCall,
           pc' = [pc EXCEPT ![t] = label],
           hstate' = hstate, stream' = stream, chan' = chan,
           connection_usable' => connection_usable,
           Clean \/ ~connection_usable'
    PROVE  ManagedStep
<1>1. ~Using(t)'
  BY LabelDecides DEF IInv
<1>2. ConnectionUsers = {t} /\ \A h \in Handles : ~Alive(h)
  BY TaskIsAlone
<1>3. \A u \in Tasks : u = t
  BY DEF OneTask
<1>4. ConnectionUsers' = {}
  BY <1>1, <1>2, <1>3 DEF ConnectionUsers, Using, Alive
<1> QED
  BY <1>2, <1>4, ReleaseBridge

(* The task takes a connection that nobody has.                             *)
LEMMA EnterStep ==
    ASSUME OneTask, TypeOK, NEW t \in Tasks, NEW label,
           ~Using(t), label \in InCall, held[t] = NoHandle,
           \A h \in Handles : ~Alive(h),
           pc' = [pc EXCEPT ![t] = label],
           held' = held, hstate' = hstate, stream' = stream, chan' = chan,
           connection_usable' = connection_usable,
           stream, Clean, connection_usable
    PROVE  ManagedStep
<1>1. Using(t)'
  BY LabelDecides
<1>2. \A u \in Tasks : u = t
  BY DEF OneTask
<1>3. ConnectionUsers = {} /\ ConnectionUsers' = {t}
  BY <1>1, <1>2 DEF ConnectionUsers, Using, Alive
<1> QED
  BY <1>3, AcquireBridge

-----------------------------------------------------------------------------
(* The strengthening is inductive.                                          *)
LEMMA SessionInvStep ==
    ASSUME OneTask, IInv, SessionInv, [Next]_vars
    PROVE  SessionInv'
<1> USE DEF IInv, OneTask
<1>1. ASSUME NEW t \in Tasks, Begin(t) PROVE SessionInv'
  BY <1>1 DEF Begin, shared, Goto, FirstStep, SessionInv, TypeOK
<1>2. ASSUME NEW t \in Tasks, BeginExclusive(t) PROVE SessionInv'
  BY <1>2 DEF BeginExclusive, shared, Goto, Exclusives, SessionInv, TypeOK
<1>3. ASSUME NEW t \in Tasks, Return(t) PROVE SessionInv'
  BY <1>3 DEF Return, shared, Goto, SessionInv, TypeOK
<1>4. ASSUME NEW t \in Tasks, Lock(t) PROVE SessionInv'
  BY <1>4 DEF Lock, flags, Goto, SessionInv, TypeOK
<1>5. ASSUME NEW t \in Tasks, CheckOperationState(t) PROVE SessionInv'
  BY <1>5, UnlockEffect DEF CheckOperationState, flags, Goto, SessionInv, TypeOK
<1>6. ASSUME NEW t \in Tasks, Take(t) PROVE SessionInv'
  BY <1>6, UnlockEffect DEF Take, flags, Goto, SessionInv, TypeOK
<1>7. ASSUME NEW t \in Tasks, SendCommand(t) PROVE SessionInv'
  BY <1>7 DEF SendCommand, flags, Goto, SessionInv, TypeOK
<1>8. ASSUME NEW t \in Tasks, SendStore(t) PROVE SessionInv'
  BY <1>8 DEF SendStore, Goto, MarkUnusableIf, SessionInv, TypeOK
<1>9. ASSUME NEW t \in Tasks, RequestOffset(t) PROVE SessionInv'
  BY <1>9 DEF RequestOffset, flags, Goto, SessionInv, TypeOK
<1>10. ASSUME NEW t \in Tasks, Retr(t) PROVE SessionInv'
  BY <1>10 DEF Retr, Goto, MarkUnusableIf, SessionInv, TypeOK
<1>11. ASSUME NEW t \in Tasks, ResetMarker(t) PROVE SessionInv'
  BY <1>11 DEF ResetMarker, Goto, MarkUnusableIf, SessionInv, TypeOK
<1>12. ASSUME NEW t \in Tasks, ListCommand(t) PROVE SessionInv'
  BY <1>12 DEF ListCommand, Goto, MarkUnusableIf, SessionInv, TypeOK
<1>13. ASSUME NEW t \in Tasks, ListTransfer(t) PROVE SessionInv'
  BY <1>13 DEF ListTransfer, flags, Goto, SessionInv, TypeOK
<1>14. ASSUME NEW t \in Tasks, StartTransfer(t) PROVE SessionInv'
  BY <1>14 DEF StartTransfer, Goto, SessionInv, TypeOK
<1>15. ASSUME NEW t \in Tasks, Record(t) PROVE SessionInv'
  BY <1>15 DEF Record, Goto, MarkUnusableIf, SessionInv, TypeOK
<1>16. ASSUME NEW t \in Tasks, Fail(t) PROVE SessionInv'
  BY <1>16, UnlockEffect DEF Fail, MarkUnusableIf, SessionInv, TypeOK
<1>17. ASSUME NEW t \in Tasks, Complete(t) PROVE SessionInv'
  BY <1>17 DEF Complete, flags, Goto, Conclude, ReturnWith, SessionInv, TypeOK
<1>18. ASSUME NEW t \in Tasks, LateRecord(t) PROVE SessionInv'
  BY <1>18 DEF LateRecord, Goto, Conclude, ReturnWith, MarkUnusableIf, SessionInv, TypeOK
<1>19. ASSUME NEW t \in Tasks, Classify(t) PROVE SessionInv'
  BY <1>19 DEF Classify, shared, Goto, ReturnWith, SessionInv, TypeOK
<1>20. ASSUME NEW t \in Tasks, SkipPrefix(t) PROVE SessionInv'
  BY <1>20 DEF SkipPrefix, shared, Goto, SessionInv, TypeOK
<1>21. ASSUME NEW t \in Tasks, SkipFails(t) PROVE SessionInv'
  BY <1>21 DEF SkipFails, flags, Goto, SessionInv, TypeOK
<1>22. ASSUME NEW t \in Tasks, AwaitCleanup(t) PROVE SessionInv'
  BY <1>22 DEF AwaitCleanup, shared, Goto, ReturnWith, SessionInv, TypeOK
<1>23. ASSUME NEW t \in Tasks, Deliver(t) PROVE SessionInv'
  BY <1>23 DEF Deliver, shared, Goto, ReturnWith, SessionInv, TypeOK
<1>24. ASSUME NEW t \in Tasks, DropMutexGuard(t) PROVE SessionInv'
  BY <1>24 DEF DropMutexGuard, flags, Goto, SessionInv, TypeOK
<1>25. ASSUME NEW t \in Tasks, DropOperationGuard(t) PROVE SessionInv'
  BY <1>25 DEF DropOperationGuard, Goto, ReturnWith, SessionInv, TypeOK
<1>26. ASSUME NEW t \in Tasks, IsConnected(t) PROVE SessionInv'
  BY <1>26 DEF IsConnected, shared, Goto, ReturnWith, SessionInv, TypeOK
<1>27. ASSUME NEW t \in Tasks, WelcomeMessage(t) PROVE SessionInv'
  BY <1>27 DEF WelcomeMessage, shared, Goto, ReturnWith, SessionInv, TypeOK
<1>28. ASSUME NEW t \in Tasks, ConnectCheckActive(t) PROVE SessionInv'
  BY <1>28 DEF ConnectCheckActive, shared, Goto, ReturnWith, SessionInv, TypeOK
<1>29. ASSUME NEW t \in Tasks, ConnectReset(t) PROVE SessionInv'
  BY <1>29 DEF ConnectReset, Goto, ReturnWith, SessionInv, TypeOK
<1>30. ASSUME NEW t \in Tasks, Dial(t) PROVE SessionInv'
  BY <1>30 DEF Dial, Goto, ReturnWith, SessionInv, TypeOK
<1>31. ASSUME NEW t \in Tasks, DisconnectCheckActive(t) PROVE SessionInv'
  BY <1>31 DEF DisconnectCheckActive, shared, Goto, ReturnWith, SessionInv, TypeOK
<1>32. ASSUME NEW t \in Tasks, HangUp(t) PROVE SessionInv'
  BY <1>32 DEF HangUp, Goto, ReturnWith, SessionInv, TypeOK
<1>33. ASSUME NEW t \in Tasks, Quit(t) PROVE SessionInv'
  BY <1>33 DEF Quit, Goto, ReturnWith, MarkUnusableIf, SessionInv, TypeOK
<1>34. ASSUME NEW t \in Tasks, Accessor(t) PROVE SessionInv'
  BY <1>34 DEF Accessor, shared, Goto, ReturnWith, SessionInv, TypeOK
<1>35. ASSUME NEW t \in Tasks, RawCommands(t) PROVE SessionInv'
  BY <1>35 DEF RawCommands, shared, Goto, ReturnWith, SessionInv, TypeOK
<1>36. ASSUME NEW t \in Tasks, CancelWaiting(t) PROVE SessionInv'
  BY <1>36 DEF CancelWaiting, shared, Goto, ReturnWith, SessionInv, TypeOK
<1>37. ASSUME NEW t \in Tasks, CancelExchange(t) PROVE SessionInv'
  BY <1>37 DEF CancelExchange, flags, Goto, SessionInv, TypeOK
<1>38. ASSUME NEW t \in Tasks, CancelSkip(t) PROVE SessionInv'
  BY <1>38 DEF CancelSkip, shared, Goto, ReturnWith, SessionInv, TypeOK
<1>39. ASSUME NEW t \in Tasks, CancelExclusive(t) PROVE SessionInv'
  BY <1>39 DEF CancelExclusive, flags, Goto, ReturnWith, SessionInv, TypeOK
<1>40. ASSUME NEW h \in Handles, Read(h) PROVE SessionInv'
  BY <1>40 DEF Read, shared, SessionInv, TypeOK
<1>41. ASSUME NEW h \in Handles, Finish(h) PROVE SessionInv'
  BY <1>41 DEF Finish, shared, SessionInv, TypeOK
<1>42. ASSUME NEW h \in Handles, DropStream(h) PROVE SessionInv'
  BY <1>42 DEF DropStream, shared, SessionInv, TypeOK
<1>43. ASSUME NEW h \in Handles, CancelFinish(h) PROVE SessionInv'
  BY <1>43 DEF CancelFinish, shared, SessionInv, TypeOK
<1>44. ASSUME NEW h \in Handles, Drain(h) PROVE SessionInv'
  BY <1>44 DEF Drain, flags, SessionInv, TypeOK
<1>45. ASSUME NEW h \in Handles, Finalize(h) PROVE SessionInv'
  BY <1>45 DEF Finalize, flags, SessionInv, TypeOK
<1>46. ASSUME NEW h \in Handles, Invalidate(h) PROVE SessionInv'
  BY <1>46 DEF Invalidate, ActiveInv, HandleInv, SawInactive, Alive, SessionInv, TypeOK
<1>47. ASSUME NEW h \in Handles, DropInner(h) PROVE SessionInv'
  BY <1>47 DEF DropInner, flags, SessionInv, TypeOK
<1>48. ASSUME NEW h \in Handles, Release(h) PROVE SessionInv'
  BY <1>48 DEF Release, SessionInv, TypeOK
<1>u. CASE UNCHANGED vars
  BY <1>u DEF SessionInv, vars, shared
<1> QED
  BY <1>1, <1>2, <1>3, <1>4, <1>5, <1>6, <1>7, <1>8, <1>9, <1>10, <1>11, <1>12, <1>13, <1>14, <1>15, <1>16, <1>17, <1>18, <1>19, <1>20, <1>21, <1>22, <1>23, <1>24, <1>25, <1>26, <1>27, <1>28, <1>29, <1>30, <1>31, <1>32, <1>33, <1>34, <1>35, <1>36, <1>37, <1>38, <1>39, <1>40, <1>41, <1>42, <1>43, <1>44, <1>45, <1>46, <1>47, <1>48, <1>u
  DEF Next, TaskStep, Cancel, CleanupStep

-----------------------------------------------------------------------------
(* Steps of the abstract client, action by action.                          *)

(* Refusals, probes, observers, the skipped prefix, and what is cancelled   *)
(* before a command is sent or after the stream was given up.               *)
LEMMA UnseenActions ==
    ASSUME OneTask, SoloInv, NEW t \in Tasks,
           \/ Begin(t) \/ BeginExclusive(t) \/ Return(t)
           \/ Lock(t) \/ CheckOperationState(t) \/ Classify(t)
           \/ SkipPrefix(t) \/ AwaitCleanup(t) \/ Deliver(t)
           \/ IsConnected(t) \/ WelcomeMessage(t)
           \/ ConnectCheckActive(t) \/ DisconnectCheckActive(t)
           \/ CancelWaiting(t) \/ CancelSkip(t) \/ CancelExclusive(t)
    PROVE  ManagedStep
<1> USE DEF SoloInv, IInv, Begin, BeginExclusive, Return, Lock, CheckOperationState, Classify,
            SkipPrefix, AwaitCleanup, Deliver, IsConnected, WelcomeMessage,
            ConnectCheckActive, DisconnectCheckActive, CancelWaiting, CancelSkip,
            CancelExclusive
<1>1. ~Using(t)
  BY DEF Using, InCall, Awaiting
<1>2. PICK label : label \notin InCall /\ pc' = [pc EXCEPT ![t] = label]
  BY UnlockEffect DEF Goto, ReturnWith, FirstStep, Exclusives, InCall, Awaiting
<1>3. /\ stream' = stream
      /\ stream => chan' = chan /\ connection_usable' = connection_usable
  BY DEF shared, flags, SessionInv
<1>4. \A h \in Handles : Alive(h)' <=> Alive(h)
  BY DEF handles, TypeOK, HandleInv, Holding, Alive
<1> QED
  BY <1>1, <1>2, <1>3, <1>4, OutsideStep

(* Exchanges, their records under the mutex, and the first two steps of a   *)
(* cancelled exchange, by the task that has the connection.                 *)
LEMMA UseActions ==
    ASSUME OneTask, SoloInv, NEW t \in Tasks,
           \/ SendCommand(t) \/ SendStore(t)
           \/ RequestOffset(t) \/ Retr(t) \/ ResetMarker(t)
           \/ ListCommand(t) \/ ListTransfer(t) \/ Record(t)
           \/ CancelExchange(t) \/ DropMutexGuard(t)
    PROVE  ManagedStep
<1> USE DEF SoloInv, SendCommand, SendStore, RequestOffset, Retr, ResetMarker, ListCommand,
            ListTransfer, Record, CancelExchange, DropMutexGuard
<1>1. Using(t)
  BY DEF IInv, HandleInv, Using, InCall, Awaiting
<1>2. PICK label : label \in InCall /\ pc' = [pc EXCEPT ![t] = label]
  BY DEF Goto, InCall, Awaiting
<1>3. held' = held /\ hstate' = hstate /\ stream' = stream
  BY DEF flags, locals, handles
<1>4. connection_usable' => connection_usable
  BY DEF flags, MarkUnusableIf
<1> QED
  BY <1>1, <1>2, <1>3, <1>4, InsideStep

(* lock_stream found the stream, on a connection in step.                   *)
LEMMA TakeAcquires ==
    ASSUME OneTask, SoloInv, NEW t \in Tasks, Take(t)
    PROVE  ManagedStep
<1> USE DEF SoloInv, IInv
<1>1. /\ pc[t] = "take" /\ connection_usable /\ Clean /\ held[t] = NoHandle
      /\ ~Using(t) /\ \A h \in Handles : ~Alive(h)
      /\ held' = held /\ hstate' = hstate /\ stream' = stream
      /\ chan' = chan /\ connection_usable' = connection_usable
  <2>1. pc[t] = "take" /\ ~Using(t)
    BY DEF Take, Using, InCall, Awaiting
  <2>2. \A h \in Handles : ~Alive(h)
    BY <2>1, TaskIsAlone
  <2>3. connection_usable /\ Clean /\ held[t] = NoHandle
    BY <2>1 DEF CleanInv, HandleInv
  <2> QED
    BY <2>1, <2>2, <2>3 DEF Take, flags, handles
<1>2. CASE pc' = [pc EXCEPT ![t] = "return"]
  BY <1>1, <1>2, OutsideStep DEF InCall, Awaiting, Alive
<1>3. CASE stream /\ \E label \in {"list", "send", "rest", "retr"} :
                        pc' = [pc EXCEPT ![t] = label]
  BY <1>1, <1>3, EnterStep DEF InCall, Awaiting
<1> QED
  BY <1>2, <1>3, UnlockEffect DEF Take, Goto

(* start_transfer: the connection goes to the stream, clean.                *)
LEMMA StartTransferHandsOver ==
    ASSUME OneTask, SoloInv, NEW t \in Tasks, StartTransfer(t)
    PROVE  ManagedStep
<1> USE TokioFtpFsAssumption DEF SoloInv, IInv
<1>1. /\ Using(t) /\ Clean
      /\ chan' = chan /\ connection_usable' = connection_usable /\ stream' = stream
      /\ pc' = [pc EXCEPT ![t] = "complete"]
  BY DEF StartTransfer, HandleInv, CleanInv, Using, InCall, Goto
<1>2. PICK h \in Handles :
         hstate' = [hstate EXCEPT ![h] = "held"] /\ held' = [held EXCEPT ![t] = h]
  BY DEF StartTransfer
<1>3. ConnectionUsers = {t} /\ \A k \in Handles : ~Alive(k)
  BY <1>1, TaskIsAlone
<1>4. held'[t] = h /\ h # NoHandle
  BY <1>2 DEF TypeOK
<1>5. Alive(h)' /\ \A k \in Handles \ {h} : ~Alive(k)'
  BY <1>2, <1>3 DEF Alive, TypeOK
<1>6. \A u \in Tasks : u = t
  BY DEF OneTask
<1>7. ConnectionUsers' = {h}
  BY <1>4, <1>5, <1>6 DEF ConnectionUsers
<1> QED
  BY <1>1, <1>3, <1>7, HandOverBridge

(* StreamGuard::complete: with a stream already handed over nothing is let  *)
(* go of; a failure still to be recorded keeps the connection; everything   *)
(* else is recorded, and the call lets go.                                  *)
LEMMA CompleteSteps ==
    ASSUME OneTask, SoloInv, NEW t \in Tasks, Complete(t)
    PROVE  ManagedStep
<1> USE DEF SoloInv, IInv
<1>1. /\ pc[t] = "complete"
      /\ held' = held /\ hstate' = hstate /\ stream' = stream
      /\ chan' = chan /\ connection_usable' = connection_usable
  BY DEF Complete, flags, handles
<1>2. CASE pc' = [pc EXCEPT ![t] = "late_record"] /\ held[t] = NoHandle
  BY <1>1, <1>2, InsideStep DEF Using, InCall
<1>3. CASE held[t] # NoHandle
  <2>1. PICK label : pc' = [pc EXCEPT ![t] = label]
    BY DEF Complete, Goto, Conclude, ReturnWith
  <2> QED
    BY <1>1, <1>3, <2>1, OutsideStep DEF Using, Alive
<1>4. CASE ~Listing(t) /\ op[t] \notin Commands /\ held[t] = NoHandle /\ Conclude(t)
  <2>1. PICK label \in {"classify", "return"} : pc' = [pc EXCEPT ![t] = label]
    BY <1>4 DEF Conclude, Goto, ReturnWith
  <2>2. Clean \/ ~connection_usable
    BY <1>1, <1>4 DEF CleanInv, Marks, WillRecord
  <2> QED
    BY <1>1, <1>4, <2>1, <2>2, LeaveStep DEF Using, InCall, Awaiting
<1> QED
  BY <1>2, <1>3, <1>4 DEF Complete, Goto

(* A call lets go of the connection when whatever it spoiled is recorded:   *)
(* by the failure open() cannot get over, by the record made after the      *)
(* mutex, or by the guard of a cancelled operation.                         *)
LEMMA ReleaseActions ==
    ASSUME OneTask, SoloInv, NEW t \in Tasks,
           Fail(t) \/ LateRecord(t) \/ DropOperationGuard(t) \/ RawCommands(t)
    PROVE  ManagedStep
<1> USE DEF SoloInv, IInv
<1>1. Using(t)
  BY DEF HandleInv, Using, InCall, Awaiting, Fail, LateRecord, DropOperationGuard,
     RawCommands
<1>2. PICK label : label \notin InCall /\ pc' = [pc EXCEPT ![t] = label]
  BY UnlockEffect DEF Goto, ReturnWith, Conclude, InCall, Awaiting, Fail, LateRecord,
     DropOperationGuard, RawCommands
<1>3. hstate' = hstate /\ chan' = chan /\ stream' = stream
  BY DEF shared, handles, Fail, LateRecord, DropOperationGuard, RawCommands
<1>4. connection_usable' => connection_usable
  <2>1. CASE Fail(t) \/ LateRecord(t)
    BY <2>1 DEF MarkUnusableIf, Fail, LateRecord
  <2>2. CASE DropOperationGuard(t) \/ RawCommands(t)
    BY <2>2 DEF DropOperationGuard, RawCommands, shared
  <2> QED
    BY <2>1, <2>2
<1>5. Clean \/ ~connection_usable'
  <2>1. CASE Fail(t)
    <3>1. /\ pc[t] = "fail" /\ err[t] \in FtpError
          /\ \A u \in Tasks : u = t
          /\ \A h \in Handles : ~Alive(h)
      BY <1>1, <2>1, TaskIsAlone DEF Fail, MarkedInv, OneTask
    <3>2. Clean \/ ~connection_usable \/ TransferSetupRequiresReconnect(err[t])
      BY <3>1 DEF CleanInv, Marks, Alive
    <3> QED
      BY <2>1, <3>1, <3>2, FirstCause DEF Fail, MarkUnusableIf
  <2>2. CASE LateRecord(t)
    BY <2>2, SuccessIsNoError DEF LateRecord, CleanInv, Marks, WillRecord, MarkUnusableIf
  <2>3. CASE DropOperationGuard(t)
    BY <2>3 DEF DropOperationGuard
  <2>4. CASE RawCommands(t)
    BY <2>4 DEF RawCommands, CleanInv
  <2> QED
    BY <2>1, <2>2, <2>3, <2>4
<1> QED
  BY <1>1, <1>2, <1>3, <1>4, <1>5, LeaveStep

(* connect() and disconnect(): nobody uses a connection that is hung up or  *)
(* dialled, and what happens to one already given up is nobody's concern.   *)
LEMMA SessionSteps ==
    ASSUME OneTask, SoloInv, NEW t \in Tasks,
           ConnectReset(t) \/ Dial(t) \/ HangUp(t) \/ Quit(t)
    PROVE  ManagedStep
<1> USE DEF SoloInv, IInv
<1>1. /\ pc[t] \in {"connect_reset", "dial", "hang_up", "quit"}
      /\ held' = held /\ hstate' = hstate
  BY DEF ConnectReset, Dial, HangUp, Quit, handles
<1>2. ~Using(t)
  BY <1>1 DEF Using, InCall, Awaiting
<1>3. ConnectionUsers = {} /\ \A h \in Handles : ~Alive(h)
  BY <1>1, <1>2, TaskIsAlone
<1>4. PICK label \in {"dial", "quit", "return"} : pc' = [pc EXCEPT ![t] = label]
  BY DEF ConnectReset, Dial, HangUp, Quit, ReturnWith, Goto
<1>5. ~Using(t)'
  BY <1>4, LabelDecides DEF InCall, Awaiting
<1>6. \A u \in Tasks : u = t
  BY DEF OneTask
<1>7. ConnectionUsers' = {}
  BY <1>1, <1>3, <1>5, <1>6 DEF ConnectionUsers, Using, Alive
<1>8. CASE ~stream /\ ~stream'
  BY <1>3, <1>7, <1>8, StutterBridge
<1>9. CASE stream /\ ~stream'
  BY <1>3, <1>7, <1>9, HangUpBridge
<1>10. CASE stream /\ stream'
  <2>1. chan' = chan /\ connection_usable' = connection_usable
    BY <1>10 DEF ConnectReset, Dial, HangUp, Quit, SessionInv
  <2> QED
    BY <1>3, <1>7, <1>10, <2>1, StutterBridge DEF Clean
<1>11. CASE ~stream /\ stream'
  <2>1. Dial(t) /\ chan' = Fresh /\ connection_usable' = connection_usable
    BY <1>11 DEF ConnectReset, Dial, HangUp, Quit
  <2>2. connection_usable' /\ Clean'
    BY <2>1, FreshChannel DEF Dial, SessionInv, Clean
  <2> QED
    BY <1>3, <1>7, <1>11, <2>2, ConnectBridge
<1> QED
  BY <1>8, <1>9, <1>10, <1>11 DEF TypeOK

(* stream(): refused, or the caller's from now on.                          *)
LEMMA AccessorAcquires ==
    ASSUME OneTask, SoloInv, NEW t \in Tasks, Accessor(t)
    PROVE  ManagedStep
<1> USE DEF SoloInv, IInv
<1>1. /\ pc[t] = "accessor" /\ held[t] = NoHandle /\ ~Using(t)
      /\ held' = held /\ hstate' = hstate /\ stream' = stream
      /\ chan' = chan /\ connection_usable' = connection_usable
  BY DEF Accessor, HandleInv, Using, InCall, Awaiting, shared, handles
<1>2. CASE pc' = [pc EXCEPT ![t] = "return"]
  BY <1>1, <1>2, OutsideStep DEF InCall, Awaiting, Alive
<1>3. CASE /\ pc' = [pc EXCEPT ![t] = "raw"]
           /\ stream /\ connection_usable /\ ~transfer_active
  <2>1. \A h \in Handles : ~Alive(h)
    BY <1>3 DEF HandleInv
  <2>2. \A u \in Tasks : u = t
    BY DEF OneTask
  <2>3. Clean
    BY <1>1, <1>3, <2>1, <2>2 DEF CleanInv, Marks, Alive
  <2> QED
    BY <1>1, <1>3, <2>1, <2>3, EnterStep DEF InCall
<1> QED
  BY <1>2, <1>3 DEF Accessor, Goto, ReturnWith

(* Reading, finishing, and the destructors of a stream that was dropped, by *)
(* the stream that has the connection; a failed skip begins the cleanup.    *)
LEMMA StreamActions ==
    ASSUME SoloInv,
           \/ \E t \in Tasks : SkipFails(t)
           \/ \E h \in Handles :
                 \/ Read(h) \/ Finish(h) \/ DropStream(h) \/ CancelFinish(h)
                 \/ Drain(h) \/ Finalize(h) \/ Invalidate(h) \/ DropInner(h)
    PROVE  ManagedStep
<1> USE DEF SoloInv, IInv, SkipFails, Read, Finish, DropStream, CancelFinish, Drain, Finalize,
            Invalidate, DropInner
<1>1. PICK h \in Handles : Alive(h) /\ \A k \in Handles : Alive(k)' <=> Alive(k)
  BY DEF HandleInv, Holding, TypeOK, Alive, handles
<1>2. \A u \in Tasks : Using(u)' <=> Using(u)
  BY DEF TypeOK, Using, InCall, Awaiting, Goto, locals
<1>3. stream' = stream /\ (connection_usable' => connection_usable)
  BY DEF shared, flags
<1>4. ConnectionUsers = {h} /\ ConnectionUsers' = ConnectionUsers
  BY <1>1, <1>2, HandleIsAlone DEF ConnectionUsers, Using
<1> QED
  BY <1>3, <1>4, UseBridge

(* TransferGuard::drop: what the stream spoiled has been recorded.          *)
LEMMA ReleaseStep ==
    ASSUME SoloInv, NEW h \in Handles, Release(h)
    PROVE  ManagedStep
<1> USE DEF SoloInv, IInv, Release
<1>1. Alive(h) /\ (Clean \/ ~connection_usable)
  BY DEF Alive, CleanInv
<1>2. /\ pc' = pc /\ held' = held /\ stream' = stream /\ chan' = chan
      /\ connection_usable' = connection_usable
  BY DEF locals
<1>3. \A k \in Handles : ~Alive(k)'
  BY <1>1, HandleIsAlone DEF Alive, TypeOK
<1>4. ConnectionUsers = {h} /\ ConnectionUsers' = {}
  BY <1>1, <1>2, <1>3, HandleIsAlone DEF ConnectionUsers, Using
<1> QED
  BY <1>1, <1>2, <1>4, ReleaseBridge

-----------------------------------------------------------------------------
(* A new client: no session, nobody using it, nothing to be marked.         *)
LEMMA ManagedInit == Init => Managed!Init /\ SessionInv
<1> SUFFICES ASSUME Init PROVE Managed!Init /\ SessionInv
  OBVIOUS
<1>1. ConnectionUsers = {}
  BY DEF Init, ConnectionUsers, Alive, InCall, Awaiting
<1>2. SessionInv
  BY DEF Init, SessionInv
<1> QED
  BY <1>1, <1>2 DEF Init, Managed!Init

(* Every step of TokioFtpFs is a step of the abstract client or none.       *)
LEMMA ManagedNext ==
    ASSUME OneTask, SoloInv, [Next]_vars
    PROVE  ManagedStep
<1>1. CASE UNCHANGED vars
  <2>1. ConnectionUsers' = ConnectionUsers
    BY <1>1 DEF vars, shared, locals, handles, ConnectionUsers, Alive
  <2> QED
    BY <1>1, <2>1, StutterBridge DEF Clean, vars, shared
<1>2. CASE \E t \in Tasks : Begin(t) \/ BeginExclusive(t) \/ TaskStep(t) \/ Cancel(t)
  <2>1. PICK t \in Tasks : Begin(t) \/ BeginExclusive(t) \/ TaskStep(t) \/ Cancel(t)
    BY <1>2
  <2> QED
    BY <2>1, UnseenActions, UseActions, TakeAcquires, CompleteSteps, ReleaseActions,
       StartTransferHandsOver, SessionSteps, AccessorAcquires, StreamActions
    DEF TaskStep, Cancel
<1>3. CASE \E h \in Handles : \/ Read(h) \/ Finish(h) \/ DropStream(h) \/ CancelFinish(h)
                              \/ CleanupStep(h)
  BY <1>3, StreamActions, ReleaseStep DEF CleanupStep
<1> QED
  BY <1>1, <1>2, <1>3 DEF Next

(* Guards that are dropped field by field, records made after the mutex is  *)
(* released, the three-step destructor of a transfer stream and calls that  *)
(* are cancelled at any await amount to one owner of the connection at a    *)
(* time, who never lets go of it spoiled and unmarked.                      *)
THEOREM ManagedClient ==
    ASSUME OneTask, FinishRunsToItsEnd
    PROVE  Spec => ImplementsManagedControl
<1>1. Init => Managed!Init /\ MarkedInv /\ CleanInv /\ SessionInv
  BY ManagedInit, MarkedInvInit, CleanInvInit
<1>2. IInv /\ MarkedInv /\ CleanInv /\ SessionInv /\ [Next]_vars
      => MarkedInv' /\ CleanInv' /\ SessionInv' /\ ManagedStep
  BY MarkedInvStep, CleanInvStep, SessionInvStep, ManagedNext DEF SoloInv
<1> QED
  BY <1>1, <1>2, IInvCorrect, PTL DEF Spec, ImplementsManagedControl, Managed!Spec, ManagedStep
=============================================================================
