----------------------------- MODULE FtpFsProof -----------------------------
(***************************************************************************)
(* Proofs about FtpFs, for any number of threads and handles: its type     *)
(* invariant, the exclusive use of the control connection, that no managed *)
(* operation begins on a connection that is out of step, that what the     *)
(* client tells its callers is true, and that it implements ManagedControl. *)
(***************************************************************************)
EXTENDS FtpFsManaged, ControlChannelProof

-----------------------------------------------------------------------------
(* The type invariant.  Beside shapes it says that probes stays within     *)
(* MaxProbes, and that the byte budget of a limited read never underflows. *)

(* An operation refused by check_operation_state or by its closure unlocks *)
(* the mutex and returns one of the outcomes the caller can see.           *)
LEMMA RefuseType ==
    ASSUME TypeOK, NEW t \in Threads, NEW answer \in Results, Refuse(t, answer)
    PROVE  /\ lock' \in Threads \cup {NoThread}
           /\ pc' \in [Threads -> PCs]
           /\ res' \in [Threads -> Results]
<1>1. PICK outcome \in Outcomes(t, answer) : ReturnWith(t, outcome)
  BY DEF Refuse
<1>2. outcome \in Results
  BY <1>1 DEF Outcomes, Results
<1> QED
  BY <1>1, <1>2 DEF Refuse, ReturnWith, Goto, TypeOK, PCs

(* The client FtpFs::new builds is well typed.                             *)
LEMMA TypeInit == Init => TypeOK
<1> SUFFICES ASSUME Init PROVE TypeOK
  OBVIOUS
<1>1. chan \in Channel /\ hinfo \in [Handles -> HandleInfo]
  BY FreshChannel, NoInfoType DEF Init
<1>2. pc \in [Threads -> PCs] /\ res \in [Threads -> Results]
  BY DEF Init, PCs, Results
<1>3. hstate \in [Handles -> HandleStates] /\ hfail \in [Handles -> BOOLEAN]
  BY DEF Init, HandleStates
<1>4. probes \in [Threads -> 0..MaxProbes]
  BY FtpFsAssumption DEF Init
<1>5. /\ reconnect \in [Threads -> BOOLEAN] /\ resumed \in [Threads -> BOOLEAN]
      /\ want \in [Threads -> 0..1] /\ start \in [Threads -> 0..1]
  BY DEF Init
<1>6. /\ op \in [Threads -> AllOps \cup {"none"}]
      /\ err \in [Threads -> FtpError \cup {Success}]
      /\ held \in [Threads -> Handles \cup {NoHandle}]
  BY DEF Init
<1> QED
  BY <1>1, <1>2, <1>3, <1>4, <1>5, <1>6 DEF Init, TypeOK

(* No step of a thread, a stream or a cleanup leaves the types.            *)
LEMMA TypeStep == TypeOK /\ [Next]_vars => TypeOK'
<1> USE FtpFsAssumption
        DEF PCs, UnderLock, OwnsStream, Unlocked, InExclusive, Results
<1> SUFFICES ASSUME TypeOK, [Next]_vars PROVE TypeOK'
  OBVIOUS
<1>1. ASSUME NEW t \in Threads, Begin(t) PROVE TypeOK'
  BY <1>1
  DEF Begin, TypeOK, FirstStep, shared, handles, Goto, AllOps, Exclusives, StreamOps,
      Commands, Stores, Observers
<1>2. ASSUME NEW t \in Threads, BeginExclusive(t) PROVE TypeOK'
  BY <1>2
  DEF BeginExclusive, TypeOK, shared, handles, Goto, AllOps, Exclusives, StreamOps,
      Commands, Stores, Observers
<1>3. ASSUME NEW t \in Threads, Return(t) PROVE TypeOK'
  BY <1>3 DEF Return, TypeOK, shared, handles, Goto, AllOps, Success
<1>4. ASSUME NEW t \in Threads, Lock(t) PROVE TypeOK'
  BY <1>4 DEF Lock, TypeOK, locals, handles, Goto
<1>5. ASSUME NEW t \in Threads, CheckActive(t) PROVE TypeOK'
  BY <1>5, RefuseType DEF CheckActive, TypeOK, handles, Goto
<1>6. ASSUME NEW t \in Threads, CheckUsable(t) PROVE TypeOK'
  BY <1>6, RefuseType DEF CheckUsable, TypeOK, handles, Goto
<1>7. ASSUME NEW t \in Threads, Take(t) PROVE TypeOK'
  <2>1. CASE Refuse(t, "NotConnected") \/ Refuse(t, "ok")
    <3>1. stream' \in BOOLEAN
      BY <1>7 DEF Take, TypeOK
    <3> QED
      BY <1>7, <2>1, <3>1, RefuseType DEF Take, TypeOK, handles
  <2>2. CASE /\ \E label \in {"raise", "send", "rest", "retr"} : Goto(t, label)
             /\ UNCHANGED <<lock, res>>
    <3>1. stream' \in BOOLEAN /\ pc' \in [Threads -> PCs]
      BY ZenonT(60), <1>7, <2>2 DEF Take, TypeOK, Goto
    <3> QED
      BY <1>7, <2>2, <3>1 DEF Take, TypeOK, handles
  <2> QED
    BY <1>7, <2>1, <2>2 DEF Take
<1>8. ASSUME NEW t \in Threads, SendCommand(t) PROVE TypeOK'
  BY <1>8, CommandAnswers DEF SendCommand, TypeOK, handles, Goto
<1>9. ASSUME NEW t \in Threads, SendStore(t) PROVE TypeOK'
  BY <1>9, DataCommandAnswers DEF SendStore, TypeOK, MarkUnusableIf, handles, Goto
<1>10. ASSUME NEW t \in Threads, RequestOffset(t) PROVE TypeOK'
  <2>1. CASE UNCHANGED <<chan, err, resumed>> /\ Goto(t, "retr")
    BY <1>10, <2>1 DEF RequestOffset, TypeOK, Goto, handles
  <2>2. CASE \E a \in SetMarker(chan) :
                /\ chan' = a.chan
                /\ err' = [err EXCEPT ![t] = a.err] \/ UNCHANGED err
                /\ resumed' = [resumed EXCEPT ![t] = TRUE] \/ UNCHANGED resumed
                /\ Goto(t, "retr") \/ Goto(t, "fail")
    <3>1. chan' \in Channel /\ err' \in [Threads -> FtpError \cup {Success}]
      BY <2>2, SetMarkerAnswers DEF TypeOK
    <3>2. resumed' \in [Threads -> BOOLEAN] /\ pc' \in [Threads -> PCs]
      BY <2>2 DEF TypeOK, Goto
    <3> QED
      BY <1>10, <3>1, <3>2 DEF RequestOffset, TypeOK, handles
  <2> QED
    BY <1>10, <2>1, <2>2 DEF RequestOffset
<1>11. ASSUME NEW t \in Threads, Retr(t) PROVE TypeOK'
  BY <1>11, DataCommandAnswers DEF Retr, TypeOK, MarkUnusableIf, handles, Goto
<1>12. ASSUME NEW t \in Threads, ResetMarker(t) PROVE TypeOK'
  <2>1. chan' \in Channel /\ err' \in [Threads -> FtpError \cup {Success}]
    BY <1>12, ClearMarkerAnswers DEF ResetMarker, TypeOK
  <2>2. /\ resumed' \in [Threads -> BOOLEAN]
        /\ connection_usable' \in BOOLEAN
        /\ pc' \in [Threads -> PCs]
    BY <1>12 DEF ResetMarker, TypeOK, Goto
  <2> QED
    BY <1>12, <2>1, <2>2 DEF ResetMarker, TypeOK, handles
<1>13. ASSUME NEW t \in Threads, RetryRetr(t) PROVE TypeOK'
  BY <1>13, DataCommandAnswers DEF RetryRetr, TypeOK, MarkUnusableIf, handles, Goto
<1>14. ASSUME NEW t \in Threads, StartTransfer(t) PROVE TypeOK'
  <2>1. PICK h \in Handles, tail \in 0..1, length \in 0..Unlimited :
           /\ hstate' = [hstate EXCEPT ![h] = "held"]
           /\ hinfo' = [hinfo EXCEPT ![h] = Info(IF op[t] = "open" THEN "read" ELSE "write",
                                                want[t], start[t], tail, length, FALSE)]
           /\ held' = [held EXCEPT ![t] = h]
    BY <1>14 DEF StartTransfer
  <2>2. hinfo' \in [Handles -> HandleInfo]
    <3>1. want[t] \in 0..1 /\ start[t] \in Nat /\ hinfo \in [Handles -> HandleInfo]
      BY DEF TypeOK
    <3> QED
      BY <2>1, <3>1, InfoType
  <2>3. hstate' \in [Handles -> HandleStates] /\ held' \in [Threads -> Handles \cup {NoHandle}]
    BY <2>1 DEF TypeOK, HandleStates
  <2> QED
    BY <1>14, <2>2, <2>3 DEF StartTransfer, TypeOK, Goto
<1>15. ASSUME NEW t \in Threads, Record(t) PROVE TypeOK'
  BY <1>15 DEF Record, TypeOK, MarkUnusableIf, locals, handles, Goto
<1>16. ASSUME NEW t \in Threads, Fail(t) PROVE TypeOK'
  BY <1>16, RefuseType DEF Fail, TypeOK, MarkUnusableIf, handles
<1>17. ASSUME NEW t \in Threads, Unlock(t) PROVE TypeOK'
  BY <1>17 DEF Unlock, TypeOK, handles, Goto, ReturnWith
<1>18. ASSUME NEW t \in Threads, ReRecord(t) PROVE TypeOK'
  BY <1>18 DEF ReRecord, TypeOK, MarkUnusableIf, handles, Goto, ReturnWith
<1>19. ASSUME NEW t \in Threads, Classify(t) PROVE TypeOK'
  <2>1. CASE UNCHANGED <<probes, err, reconnect>>
    <3>1. \E outcome \in {"ok", "failed"} : ReturnWith(t, outcome)
      BY <1>19, <2>1 DEF Classify, Outcomes, TypeOK
    <3>2. pc' \in [Threads -> PCs] /\ res' \in [Threads -> Results]
      BY <3>1 DEF ReturnWith, Goto, TypeOK
    <3> QED
      BY <1>19, <2>1, <3>2 DEF Classify, TypeOK, shared, handles
  <2>2. CASE /\ probes[t] < MaxProbes
             /\ probes' = [probes EXCEPT ![t] = @ + 1]
             /\ err' = [err EXCEPT ![t] = Success]
             /\ reconnect' = [reconnect EXCEPT ![t] = FALSE]
             /\ Goto(t, "lock")
             /\ UNCHANGED res
    <3>1. probes' \in [Threads -> 0..MaxProbes]
      BY <2>2 DEF TypeOK
    <3>2. /\ err' \in [Threads -> FtpError \cup {Success}]
          /\ reconnect' \in [Threads -> BOOLEAN]
          /\ pc' \in [Threads -> PCs]
      BY <2>2 DEF TypeOK, Goto
    <3> QED
      BY <1>19, <2>2, <3>1, <3>2 DEF Classify, TypeOK, shared, handles
  <2> QED
    BY <1>19, <2>1, <2>2 DEF Classify
<1>20. ASSUME NEW t \in Threads, Raise(t) PROVE TypeOK'
  BY <1>20 DEF Raise, TypeOK, locals, handles, Goto
<1>21. ASSUME NEW t \in Threads, ListCommand(t) PROVE TypeOK'
  <2>1. PICK a \in DataCommand(chan) :
           /\ chan' = a.chan
           /\ MarkUnusableIf(a.hook)
           /\ err' = [err EXCEPT ![t] = a.err]
    BY <1>21 DEF ListCommand
  <2>2. chan' \in Channel /\ err' \in [Threads -> FtpError \cup {Success}]
    BY <2>1, DataCommandAnswers DEF TypeOK
  <2>3. connection_usable' \in BOOLEAN
    BY <2>1 DEF MarkUnusableIf
  <2>4. pc' \in [Threads -> PCs]
    BY <1>21 DEF ListCommand, TypeOK, Goto
  <2>5. reconnect' \in [Threads -> BOOLEAN]
    BY <1>21, ReconnectVerdict DEF ListCommand, TypeOK
  <2> QED
    BY <1>21, <2>2, <2>3, <2>4, <2>5 DEF ListCommand, TypeOK, handles
<1>22. ASSUME NEW t \in Threads, ListTransfer(t) PROVE TypeOK'
  BY <1>22, CompletionAnswers, FaultyChannel, ErrorNames
  DEF ListTransfer, TypeOK, handles, Goto, Success
<1>23. ASSUME NEW t \in Threads, ListRecord(t) PROVE TypeOK'
  BY <1>23 DEF ListRecord, TypeOK, MarkUnusableIf, locals, handles, Goto
<1>24. ASSUME NEW t \in Threads, GiveBack(t) PROVE TypeOK'
  BY <1>24 DEF GiveBack, TypeOK, locals, handles, Goto
<1>25. ASSUME NEW t \in Threads, Lower(t) PROVE TypeOK'
  BY <1>25 DEF Lower, TypeOK, handles, Goto, ReturnWith
<1>26. ASSUME NEW t \in Threads, SkipPrefix(t) PROVE TypeOK'
  <2>1. PICK tail \in 0..1, short \in BOOLEAN :
           hinfo' = [hinfo EXCEPT ![held[t]] =
                        Info(@.dir, @.want, @.pos + want[t], tail, @.remaining, short)]
    BY <1>26 DEF SkipPrefix
  <2>2. hinfo' \in [Handles -> HandleInfo]
    <3>1. want[t] \in 0..1 /\ hinfo \in [Handles -> HandleInfo]
      BY DEF TypeOK
    <3>2. \A i \in HandleInfo : i.pos + want[t] \in Nat
      BY <3>1, InfoFields
    <3> QED
      BY <2>1, <3>1, <3>2, InfoType, InfoFields
  <2> QED
    BY <1>26, <2>2 DEF SkipPrefix, TypeOK, Goto, shared, locals
<1>27. ASSUME NEW t \in Threads, SkipFails(t) PROVE TypeOK'
  BY <1>27, FaultyChannel DEF SkipFails, TypeOK, locals, Goto, HandleStates
<1>28. ASSUME NEW t \in Threads, AwaitCleanup(t) PROVE TypeOK'
  BY <1>28 DEF AwaitCleanup, TypeOK, shared, handles, ReturnWith, Goto
<1>29. ASSUME NEW t \in Threads, Deliver(t) PROVE TypeOK'
  BY <1>29 DEF Deliver, TypeOK, shared, ReturnWith, Goto, HandleStates
<1>30. ASSUME NEW t \in Threads, ObserveUsable(t) PROVE TypeOK'
  BY <1>30 DEF ObserveUsable, TypeOK, shared, handles, Goto, ReturnWith
<1>31. ASSUME NEW t \in Threads, ObserveStream(t) PROVE TypeOK'
  BY <1>31 DEF ObserveStream, TypeOK, shared, handles, Goto, ReturnWith
<1>32. ASSUME NEW t \in Threads, ObserveActive(t) PROVE TypeOK'
  BY <1>32 DEF ObserveActive, TypeOK, shared, handles, ReturnWith, Goto
<1>33. ASSUME NEW t \in Threads, WelcomeMessage(t) PROVE TypeOK'
  BY <1>33 DEF WelcomeMessage, TypeOK, shared, handles, ReturnWith, Goto
<1>34. ASSUME NEW t \in Threads, ConnectCheckActive(t) PROVE TypeOK'
  BY <1>34 DEF ConnectCheckActive, TypeOK, shared, handles, Goto, ReturnWith
<1>35. ASSUME NEW t \in Threads, ConnectReset(t) PROVE TypeOK'
  BY <1>35, FreshChannel DEF ConnectReset, TypeOK, handles, Goto, ReturnWith
<1>36. ASSUME NEW t \in Threads, Dial(t) PROVE TypeOK'
  BY <1>36, FreshChannel DEF Dial, TypeOK, handles, ReturnWith, Goto
<1>37. ASSUME NEW t \in Threads, DisconnectCheckActive(t) PROVE TypeOK'
  BY <1>37 DEF DisconnectCheckActive, TypeOK, shared, handles, Goto, ReturnWith
<1>38. ASSUME NEW t \in Threads, HangUp(t) PROVE TypeOK'
  BY <1>38, FreshChannel DEF HangUp, TypeOK, handles, Goto, ReturnWith
<1>39. ASSUME NEW t \in Threads, Quit(t) PROVE TypeOK'
  BY <1>39, FreshChannel DEF Quit, TypeOK, MarkUnusableIf, handles, ReturnWith, Goto
<1>40. ASSUME NEW t \in Threads, Accessor(t) PROVE TypeOK'
  BY <1>40 DEF Accessor, TypeOK, shared, handles, Goto, ReturnWith
<1>41. ASSUME NEW t \in Threads, RawCommands(t) PROVE TypeOK'
  BY <1>41 DEF RawCommands, TypeOK, shared, handles, ReturnWith, Goto
<1>42. ASSUME NEW h \in Handles, Read(h) PROVE TypeOK'
  BY <1>42, AfterReadType DEF Read, TypeOK, shared, locals
<1>43. ASSUME NEW h \in Handles, Finish(h) PROVE TypeOK'
  BY <1>43 DEF Finish, TypeOK, shared, locals, HandleStates
<1>44. ASSUME NEW h \in Handles, Drain(h) PROVE TypeOK'
  <2>1. CASE /\ UNCHANGED <<hfail, chan>>
             /\ hinfo' = [hinfo EXCEPT ![h] =
                            Info(@.dir, @.want, @.pos, 0, @.remaining, @.eof)]
    <3> DEFINE i == hinfo[h]
               j == Info(i.dir, i.want, i.pos, 0, i.remaining, i.eof)
    <3>1. i \in HandleInfo
      BY DEF TypeOK
    <3>2. j \in HandleInfo
      <4>1. 0 \in 0..1
        OBVIOUS
      <4> HIDE DEF i
      <4> QED
        BY <3>1, <4>1, InfoType, InfoFields
    <3>3. hinfo' = [hinfo EXCEPT ![h] = j]
      BY <2>1
    <3> HIDE DEF i, j
    <3> QED
      BY <1>44, <2>1, <3>2, <3>3 DEF Drain, TypeOK, HandleStates, locals
  <2>2. CASE /\ hfail' = [hfail EXCEPT ![h] = TRUE]
             /\ chan' = Faulty(chan)
             /\ UNCHANGED hinfo
    <3>1. chan' \in Channel
      BY <2>2, FaultyChannel DEF TypeOK
    <3> QED
      BY <1>44, <2>2, <3>1 DEF Drain, TypeOK, HandleStates, locals
  <2> QED
    BY <1>44, <2>1, <2>2 DEF Drain
<1>45. ASSUME NEW h \in Handles, Finalize(h) PROVE TypeOK'
  <2>1. PICK a \in Completion(chan, hinfo[h].tail > 0) :
           /\ chan' = a.chan
           /\ hfail' = [hfail EXCEPT ![h] = @ \/ a.err # Success]
           /\ hstate' = [hstate EXCEPT ![h] =
                 IF hfail[h] \/ a.err # Success THEN "invalidate" ELSE "release"]
    BY <1>45 DEF Finalize
  <2>2. chan' \in Channel
    <3>1. chan \in Channel /\ (hinfo[h].tail > 0) \in BOOLEAN
      BY DEF TypeOK
    <3> QED
      BY <2>1, <3>1, CompletionAnswers
  <2>3. hfail' \in [Handles -> BOOLEAN] /\ hstate' \in [Handles -> HandleStates]
    BY <2>1 DEF TypeOK, HandleStates
  <2> QED
    BY <1>45, <2>2, <2>3 DEF Finalize, TypeOK, locals
<1>46. ASSUME NEW h \in Handles, Invalidate(h) PROVE TypeOK'
  BY <1>46 DEF Invalidate, TypeOK, locals, HandleStates
<1>47. ASSUME NEW h \in Handles, Release(h) PROVE TypeOK'
  BY <1>47, NoInfoType DEF Release, TypeOK, locals, HandleStates
<1>u. CASE UNCHANGED vars
  BY <1>u DEF TypeOK, vars, shared, locals, handles
<1> QED
  BY <1>1, <1>2, <1>3, <1>4, <1>5, <1>6, <1>7, <1>8, <1>9, <1>10, <1>11, <1>12,
     <1>13, <1>14, <1>15, <1>16, <1>17, <1>18, <1>19, <1>20, <1>21, <1>22, <1>23,
     <1>24, <1>25, <1>26, <1>27, <1>28, <1>29, <1>30, <1>31, <1>32, <1>33, <1>34,
     <1>35, <1>36, <1>37, <1>38, <1>39, <1>40, <1>41, <1>42, <1>43, <1>44, <1>45,
     <1>46, <1>47, <1>u
  DEF Next, ThreadStep, CleanupStep, CheckOperationState, DropExclusiveStream

(* Every reachable state is well typed, for every value of the constants.   *)
THEOREM TypeCorrect == Spec => []TypeOK
<1>1. Init => TypeOK
  BY TypeInit
<1>2. TypeOK /\ [Next]_vars => TypeOK'
  BY TypeStep
<1> QED
  BY <1>1, <1>2, PTL DEF Spec

-----------------------------------------------------------------------------
(* The lock, the stream and the handles.                                   *)

(* The lock variable and the program counters agree.                       *)
LockInv ==
    \A t \in Threads : pc[t] \in UnderLock <=> lock = t

(* The borrow checker: while a &mut self call runs, nobody else does.      *)
BorrowInv ==
    \A t, u \in Threads : pc[t] \in InExclusive /\ u # t => pc[u] = "idle"

(* Steps reached only after transfer_active was seen to be false.          *)
SawInactive == (UnderLock \ {"check_active", "unlock"}) \cup
               {"connect_reset", "dial", "hang_up", "quit", "raw"}

(* transfer_active is up exactly for a LIST that carries the stream, or a  *)
(* live handle; the stream is in its place accordingly.                    *)
ActiveInv ==
    /\ \A t \in Threads : pc[t] \in OwnsStream => transfer_active /\ ~stream
    /\ \A t \in Threads : pc[t] = "lower" => transfer_active /\ stream
    /\ \A t \in Threads : pc[t] \in SawInactive => ~transfer_active
    /\ \A t \in Threads : pc[t] \in {"send", "rest", "retr", "reset", "retry", "start",
                                     "record", "fail", "raw"} => stream
    /\ \A t \in Threads : pc[t] = "raise" => ~stream
    /\ \A t, u \in Threads : /\ pc[t] \in OwnsStream \cup {"lower"}
                             /\ pc[u] \in OwnsStream \cup {"lower"}
                             => t = u

(* A thread whose open(), create() or append() has not handed its stream   *)
(* to the caller yet.                                                      *)
Holding(t) == pc[t] \in {"skip", "deliver"} \/ (pc[t] = "unlock" /\ held[t] # NoHandle)

HandleInv ==
    /\ \A h \in Handles : Alive(h) => transfer_active /\ stream
    /\ \A h, k \in Handles : Alive(h) /\ Alive(k) => h = k
    /\ \A h \in Handles, t \in Threads : Alive(h) => pc[t] \notin OwnsStream \cup {"lower"}
    /\ \A t \in Threads : Holding(t) => held[t] \in Handles /\ hstate[held[t]] = "held"
    /\ \A t, u \in Threads : Holding(t) /\ Holding(u) => t = u
    /\ \A t \in Threads : held[t] # NoHandle =>
          pc[t] \in {"unlock", "skip", "deliver", "await", "return"}
    /\ \A t \in Threads :
          pc[t] = "start" \/ (pc[t] = "unlock" /\ held[t] # NoHandle) => err[t] = Success

Clean == chan.synced /\ ~chan.marker

(* Who may know that the connection is not clean before the flag says so.  *)
Excused ==
    \/ \E t \in Threads : pc[t] \in {"retr", "reset", "record", "fail", "list_record"}
    \/ \E h \in Handles : hstate[h] = "invalidate"

CleanInv ==
    /\ Clean \/ ~connection_usable \/ Excused
    /\ \A t \in Threads : pc[t] \in {"take", "send", "rest", "raise", "list", "raw"} =>
          connection_usable /\ Clean
    /\ \A t \in Threads : pc[t] \in {"retry", "start", "list_transfer", "quit"} => Clean
    /\ \A t \in Threads : pc[t] = "retr" =>
          connection_usable /\ chan.synced /\ (chan.marker => resumed[t])
    /\ \A t \in Threads : pc[t] = "record" =>
          /\ ~chan.marker
          /\ chan.synced \/ ~connection_usable \/ TransferSetupRequiresReconnect(err[t])
    /\ \A t \in Threads : pc[t] = "fail" =>
          /\ err[t] \in FtpError
          /\ Clean \/ ~connection_usable \/ TransferSetupRequiresReconnect(err[t])
    /\ \A t \in Threads : pc[t] = "list_record" =>
          Clean \/ ~connection_usable \/ reconnect[t]
    /\ \A t \in Threads :
          pc[t] \in {"unlock", "rerecord"} /\ TransferSetupRequiresReconnect(err[t])
             => ~connection_usable
    /\ \A h \in Handles : hstate[h] \in {"held", "open", "drain", "finalize"} => Clean
    /\ \A h \in Handles : hstate[h] = "release" => Clean \/ ~connection_usable

(* A refused operation lets go of the mutex and returns.                   *)
LEMMA RefuseEffect ==
    ASSUME NEW t, NEW answer, Refuse(t, answer)
    PROVE  /\ lock' = NoThread
           /\ pc' = [pc EXCEPT ![t] = "return"]
BY DEF Refuse, ReturnWith, Goto

IInv == TypeOK /\ LockInv /\ BorrowInv /\ ActiveInv /\ HandleInv /\ CleanInv

(* lock and unlock are the only steps that change the mutex, and they move *)
(* the thread into or out of the part of its operation that is under it.   *)
LEMMA LockInvStep ==
    ASSUME TypeOK, LockInv, [Next]_vars
    PROVE  LockInv'
<1> USE FtpFsAssumption DEF PCs, UnderLock, OwnsStream, Unlocked, InExclusive
<1>1. ASSUME NEW t \in Threads, Begin(t) PROVE LockInv'
  BY <1>1 DEF Begin, LockInv, FirstStep, shared, Goto
<1>2. ASSUME NEW t \in Threads, BeginExclusive(t) PROVE LockInv'
  <2>1. /\ lock' = lock
        /\ \E label \in InExclusive : pc' = [pc EXCEPT ![t] = label]
    BY <1>2 DEF BeginExclusive, shared, Goto, Exclusives
  <2> QED
    BY <1>2, <2>1 DEF BeginExclusive, LockInv, TypeOK
<1>3. ASSUME NEW t \in Threads, Return(t) PROVE LockInv'
  BY <1>3 DEF Return, LockInv, shared, Goto
<1>4. ASSUME NEW t \in Threads, Lock(t) PROVE LockInv'
  BY <1>4 DEF Lock, TypeOK, LockInv, Goto
<1>5. ASSUME NEW t \in Threads, CheckActive(t) PROVE LockInv'
  BY <1>5, RefuseEffect DEF CheckActive, TypeOK, LockInv, Goto
<1>6. ASSUME NEW t \in Threads, CheckUsable(t) PROVE LockInv'
  BY <1>6, RefuseEffect DEF CheckUsable, TypeOK, LockInv, Goto
<1>7. ASSUME NEW t \in Threads, Take(t) PROVE LockInv'
  BY <1>7, RefuseEffect DEF Take, TypeOK, LockInv, Goto
<1>8. ASSUME NEW t \in Threads, SendCommand(t) PROVE LockInv'
  BY <1>8 DEF SendCommand, LockInv, Goto
<1>9. ASSUME NEW t \in Threads, SendStore(t) PROVE LockInv'
  BY <1>9 DEF SendStore, LockInv, Goto
<1>10. ASSUME NEW t \in Threads, RequestOffset(t) PROVE LockInv'
  BY <1>10 DEF RequestOffset, TypeOK, LockInv, Goto
<1>11. ASSUME NEW t \in Threads, Retr(t) PROVE LockInv'
  BY <1>11 DEF Retr, LockInv, Goto
<1>12. ASSUME NEW t \in Threads, ResetMarker(t) PROVE LockInv'
  BY <1>12 DEF ResetMarker, TypeOK, LockInv, Goto
<1>13. ASSUME NEW t \in Threads, RetryRetr(t) PROVE LockInv'
  BY <1>13 DEF RetryRetr, LockInv, Goto
<1>14. ASSUME NEW t \in Threads, StartTransfer(t) PROVE LockInv'
  BY <1>14 DEF StartTransfer, LockInv, Goto
<1>15. ASSUME NEW t \in Threads, Record(t) PROVE LockInv'
  BY <1>15 DEF Record, LockInv, Goto
<1>16. ASSUME NEW t \in Threads, Fail(t) PROVE LockInv'
  BY <1>16, RefuseEffect DEF Fail, TypeOK, LockInv
<1>17. ASSUME NEW t \in Threads, Unlock(t) PROVE LockInv'
  BY <1>17 DEF Unlock, TypeOK, LockInv, Goto, ReturnWith
<1>18. ASSUME NEW t \in Threads, ReRecord(t) PROVE LockInv'
  BY <1>18 DEF ReRecord, TypeOK, LockInv, Goto, ReturnWith
<1>19. ASSUME NEW t \in Threads, Classify(t) PROVE LockInv'
  BY <1>19 DEF Classify, TypeOK, LockInv, shared, Goto, ReturnWith
<1>20. ASSUME NEW t \in Threads, Raise(t) PROVE LockInv'
  BY <1>20 DEF Raise, TypeOK, LockInv, Goto
<1>21. ASSUME NEW t \in Threads, ListCommand(t) PROVE LockInv'
  BY <1>21 DEF ListCommand, TypeOK, LockInv, Goto
<1>22. ASSUME NEW t \in Threads, ListTransfer(t) PROVE LockInv'
  BY <1>22 DEF ListTransfer, LockInv, Goto
<1>23. ASSUME NEW t \in Threads, ListRecord(t) PROVE LockInv'
  BY <1>23 DEF ListRecord, LockInv, Goto
<1>24. ASSUME NEW t \in Threads, GiveBack(t) PROVE LockInv'
  BY <1>24 DEF GiveBack, LockInv, Goto
<1>25. ASSUME NEW t \in Threads, Lower(t) PROVE LockInv'
  BY <1>25 DEF Lower, TypeOK, LockInv, Goto, ReturnWith
<1>26. ASSUME NEW t \in Threads, SkipPrefix(t) PROVE LockInv'
  BY <1>26 DEF SkipPrefix, LockInv, shared, Goto
<1>27. ASSUME NEW t \in Threads, SkipFails(t) PROVE LockInv'
  BY <1>27 DEF SkipFails, LockInv, Goto
<1>28. ASSUME NEW t \in Threads, AwaitCleanup(t) PROVE LockInv'
  BY <1>28 DEF AwaitCleanup, LockInv, shared, ReturnWith, Goto
<1>29. ASSUME NEW t \in Threads, Deliver(t) PROVE LockInv'
  BY <1>29 DEF Deliver, LockInv, shared, ReturnWith, Goto
<1>30. ASSUME NEW t \in Threads, ObserveUsable(t) PROVE LockInv'
  BY <1>30 DEF ObserveUsable, TypeOK, LockInv, shared, Goto, ReturnWith
<1>31. ASSUME NEW t \in Threads, ObserveStream(t) PROVE LockInv'
  BY <1>31 DEF ObserveStream, TypeOK, LockInv, shared, Goto, ReturnWith
<1>32. ASSUME NEW t \in Threads, ObserveActive(t) PROVE LockInv'
  BY <1>32 DEF ObserveActive, LockInv, shared, ReturnWith, Goto
<1>33. ASSUME NEW t \in Threads, WelcomeMessage(t) PROVE LockInv'
  BY <1>33 DEF WelcomeMessage, LockInv, shared, ReturnWith, Goto
<1>34. ASSUME NEW t \in Threads, ConnectCheckActive(t) PROVE LockInv'
  BY <1>34 DEF ConnectCheckActive, TypeOK, LockInv, shared, Goto, ReturnWith
<1>35. ASSUME NEW t \in Threads, ConnectReset(t) PROVE LockInv'
  BY <1>35 DEF ConnectReset, TypeOK, LockInv, Goto, ReturnWith
<1>36. ASSUME NEW t \in Threads, Dial(t) PROVE LockInv'
  BY <1>36 DEF Dial, TypeOK, LockInv, ReturnWith, Goto
<1>37. ASSUME NEW t \in Threads, DisconnectCheckActive(t) PROVE LockInv'
  BY <1>37 DEF DisconnectCheckActive, TypeOK, LockInv, shared, Goto,
     ReturnWith
<1>38. ASSUME NEW t \in Threads, HangUp(t) PROVE LockInv'
  BY <1>38 DEF HangUp, TypeOK, LockInv, Goto, ReturnWith
<1>39. ASSUME NEW t \in Threads, Quit(t) PROVE LockInv'
  BY <1>39 DEF Quit, LockInv, ReturnWith, Goto
<1>40. ASSUME NEW t \in Threads, Accessor(t) PROVE LockInv'
  BY <1>40 DEF Accessor, TypeOK, LockInv, shared, Goto, ReturnWith
<1>41. ASSUME NEW t \in Threads, RawCommands(t) PROVE LockInv'
  BY <1>41 DEF RawCommands, LockInv, shared, ReturnWith, Goto
<1>42. ASSUME NEW h \in Handles, Read(h) PROVE LockInv'
  BY <1>42 DEF Read, LockInv, shared
<1>43. ASSUME NEW h \in Handles, Finish(h) PROVE LockInv'
  BY <1>43 DEF Finish, LockInv, shared
<1>44. ASSUME NEW h \in Handles, Drain(h) PROVE LockInv'
  BY <1>44 DEF Drain, LockInv
<1>45. ASSUME NEW h \in Handles, Finalize(h) PROVE LockInv'
  BY <1>45 DEF Finalize, LockInv
<1>46. ASSUME NEW h \in Handles, Invalidate(h) PROVE LockInv'
  BY <1>46 DEF Invalidate, LockInv
<1>47. ASSUME NEW h \in Handles, Release(h) PROVE LockInv'
  BY <1>47 DEF Release, LockInv
<1>u. CASE UNCHANGED vars
  BY <1>u DEF LockInv, vars, shared, locals, handles
<1> QED
  BY <1>1, <1>2, <1>3, <1>4, <1>5, <1>6, <1>7, <1>8, <1>9, <1>10, <1>11,
     <1>12, <1>13, <1>14, <1>15, <1>16, <1>17, <1>18, <1>19, <1>20, <1>21,
     <1>22, <1>23, <1>24, <1>25, <1>26, <1>27, <1>28, <1>29, <1>30, <1>31,
     <1>32, <1>33, <1>34, <1>35, <1>36, <1>37, <1>38, <1>39, <1>40, <1>41,
     <1>42, <1>43, <1>44, <1>45, <1>46, <1>47, <1>u
  DEF Next, ThreadStep, CleanupStep, CheckOperationState, DropExclusiveStream

(* A &mut self call begins when nobody is inside a call, and nobody begins *)
(* one until it has returned.                                              *)
LEMMA BorrowInvStep ==
    ASSUME TypeOK, BorrowInv, [Next]_vars
    PROVE  BorrowInv'
<1> USE FtpFsAssumption DEF PCs, UnderLock, OwnsStream, Unlocked, InExclusive
<1>1. ASSUME NEW t \in Threads, Begin(t) PROVE BorrowInv'
  BY <1>1 DEF Begin, BorrowInv, FirstStep, Goto
<1>2. ASSUME NEW t \in Threads, BeginExclusive(t) PROVE BorrowInv'
  BY <1>2 DEF BeginExclusive, BorrowInv, Goto
<1>3. ASSUME NEW t \in Threads, Return(t) PROVE BorrowInv'
  BY <1>3 DEF Return, BorrowInv, Goto
<1>4. ASSUME NEW t \in Threads, Lock(t) PROVE BorrowInv'
  BY <1>4 DEF Lock, BorrowInv, Goto
<1>5. ASSUME NEW t \in Threads, CheckActive(t) PROVE BorrowInv'
  BY <1>5, RefuseEffect DEF CheckActive, TypeOK, BorrowInv, Goto
<1>6. ASSUME NEW t \in Threads, CheckUsable(t) PROVE BorrowInv'
  BY <1>6, RefuseEffect DEF CheckUsable, TypeOK, BorrowInv, Goto
<1>7. ASSUME NEW t \in Threads, Take(t) PROVE BorrowInv'
  BY <1>7, RefuseEffect DEF Take, TypeOK, BorrowInv, Goto
<1>8. ASSUME NEW t \in Threads, SendCommand(t) PROVE BorrowInv'
  BY <1>8 DEF SendCommand, BorrowInv, Goto
<1>9. ASSUME NEW t \in Threads, SendStore(t) PROVE BorrowInv'
  BY <1>9 DEF SendStore, BorrowInv, Goto
<1>10. ASSUME NEW t \in Threads, RequestOffset(t) PROVE BorrowInv'
  BY <1>10 DEF RequestOffset, TypeOK, BorrowInv, Goto
<1>11. ASSUME NEW t \in Threads, Retr(t) PROVE BorrowInv'
  BY <1>11 DEF Retr, BorrowInv, Goto
<1>12. ASSUME NEW t \in Threads, ResetMarker(t) PROVE BorrowInv'
  BY <1>12 DEF ResetMarker, TypeOK, BorrowInv, Goto
<1>13. ASSUME NEW t \in Threads, RetryRetr(t) PROVE BorrowInv'
  BY <1>13 DEF RetryRetr, BorrowInv, Goto
<1>14. ASSUME NEW t \in Threads, StartTransfer(t) PROVE BorrowInv'
  BY <1>14 DEF StartTransfer, BorrowInv, Goto
<1>15. ASSUME NEW t \in Threads, Record(t) PROVE BorrowInv'
  BY <1>15 DEF Record, BorrowInv, Goto
<1>16. ASSUME NEW t \in Threads, Fail(t) PROVE BorrowInv'
  BY <1>16, RefuseEffect DEF Fail, TypeOK, BorrowInv
<1>17. ASSUME NEW t \in Threads, Unlock(t) PROVE BorrowInv'
  BY <1>17 DEF Unlock, TypeOK, BorrowInv, Goto, ReturnWith
<1>18. ASSUME NEW t \in Threads, ReRecord(t) PROVE BorrowInv'
  BY <1>18 DEF ReRecord, TypeOK, BorrowInv, Goto, ReturnWith
<1>19. ASSUME NEW t \in Threads, Classify(t) PROVE BorrowInv'
  BY <1>19 DEF Classify, TypeOK, BorrowInv, Goto, ReturnWith
<1>20. ASSUME NEW t \in Threads, Raise(t) PROVE BorrowInv'
  BY <1>20 DEF Raise, BorrowInv, Goto
<1>21. ASSUME NEW t \in Threads, ListCommand(t) PROVE BorrowInv'
  BY <1>21 DEF ListCommand, TypeOK, BorrowInv, Goto
<1>22. ASSUME NEW t \in Threads, ListTransfer(t) PROVE BorrowInv'
  BY <1>22 DEF ListTransfer, BorrowInv, Goto
<1>23. ASSUME NEW t \in Threads, ListRecord(t) PROVE BorrowInv'
  BY <1>23 DEF ListRecord, BorrowInv, Goto
<1>24. ASSUME NEW t \in Threads, GiveBack(t) PROVE BorrowInv'
  BY <1>24 DEF GiveBack, BorrowInv, Goto
<1>25. ASSUME NEW t \in Threads, Lower(t) PROVE BorrowInv'
  BY <1>25 DEF Lower, TypeOK, BorrowInv, Goto, ReturnWith
<1>26. ASSUME NEW t \in Threads, SkipPrefix(t) PROVE BorrowInv'
  BY <1>26 DEF SkipPrefix, BorrowInv, Goto
<1>27. ASSUME NEW t \in Threads, SkipFails(t) PROVE BorrowInv'
  BY <1>27 DEF SkipFails, BorrowInv, Goto
<1>28. ASSUME NEW t \in Threads, AwaitCleanup(t) PROVE BorrowInv'
  BY <1>28 DEF AwaitCleanup, BorrowInv, ReturnWith, Goto
<1>29. ASSUME NEW t \in Threads, Deliver(t) PROVE BorrowInv'
  BY <1>29 DEF Deliver, BorrowInv, ReturnWith, Goto
<1>30. ASSUME NEW t \in Threads, ObserveUsable(t) PROVE BorrowInv'
  BY <1>30 DEF ObserveUsable, TypeOK, BorrowInv, Goto, ReturnWith
<1>31. ASSUME NEW t \in Threads, ObserveStream(t) PROVE BorrowInv'
  BY <1>31 DEF ObserveStream, TypeOK, BorrowInv, Goto, ReturnWith
<1>32. ASSUME NEW t \in Threads, ObserveActive(t) PROVE BorrowInv'
  BY <1>32 DEF ObserveActive, BorrowInv, ReturnWith, Goto
<1>33. ASSUME NEW t \in Threads, WelcomeMessage(t) PROVE BorrowInv'
  BY <1>33 DEF WelcomeMessage, BorrowInv, ReturnWith, Goto
<1>34. ASSUME NEW t \in Threads, ConnectCheckActive(t) PROVE BorrowInv'
  BY <1>34 DEF ConnectCheckActive, TypeOK, BorrowInv, Goto, ReturnWith
<1>35. ASSUME NEW t \in Threads, ConnectReset(t) PROVE BorrowInv'
  BY <1>35 DEF ConnectReset, TypeOK, BorrowInv, Goto, ReturnWith
<1>36. ASSUME NEW t \in Threads, Dial(t) PROVE BorrowInv'
  BY <1>36 DEF Dial, TypeOK, BorrowInv, ReturnWith, Goto
<1>37. ASSUME NEW t \in Threads, DisconnectCheckActive(t) PROVE BorrowInv'
  BY <1>37 DEF DisconnectCheckActive, TypeOK, BorrowInv, Goto, ReturnWith
<1>38. ASSUME NEW t \in Threads, HangUp(t) PROVE BorrowInv'
  BY <1>38 DEF HangUp, TypeOK, BorrowInv, Goto, ReturnWith
<1>39. ASSUME NEW t \in Threads, Quit(t) PROVE BorrowInv'
  BY <1>39 DEF Quit, BorrowInv, ReturnWith, Goto
<1>40. ASSUME NEW t \in Threads, Accessor(t) PROVE BorrowInv'
  BY <1>40 DEF Accessor, TypeOK, BorrowInv, Goto, ReturnWith
<1>41. ASSUME NEW t \in Threads, RawCommands(t) PROVE BorrowInv'
  BY <1>41 DEF RawCommands, BorrowInv, ReturnWith, Goto
<1>42. ASSUME NEW h \in Handles, Read(h) PROVE BorrowInv'
  BY <1>42 DEF Read, BorrowInv
<1>43. ASSUME NEW h \in Handles, Finish(h) PROVE BorrowInv'
  BY <1>43 DEF Finish, BorrowInv
<1>44. ASSUME NEW h \in Handles, Drain(h) PROVE BorrowInv'
  BY <1>44 DEF Drain, BorrowInv
<1>45. ASSUME NEW h \in Handles, Finalize(h) PROVE BorrowInv'
  BY <1>45 DEF Finalize, BorrowInv
<1>46. ASSUME NEW h \in Handles, Invalidate(h) PROVE BorrowInv'
  BY <1>46 DEF Invalidate, BorrowInv
<1>47. ASSUME NEW h \in Handles, Release(h) PROVE BorrowInv'
  BY <1>47 DEF Release, BorrowInv
<1>u. CASE UNCHANGED vars
  BY <1>u DEF BorrowInv, vars, shared, locals, handles
<1> QED
  BY <1>1, <1>2, <1>3, <1>4, <1>5, <1>6, <1>7, <1>8, <1>9, <1>10, <1>11,
     <1>12, <1>13, <1>14, <1>15, <1>16, <1>17, <1>18, <1>19, <1>20, <1>21,
     <1>22, <1>23, <1>24, <1>25, <1>26, <1>27, <1>28, <1>29, <1>30, <1>31,
     <1>32, <1>33, <1>34, <1>35, <1>36, <1>37, <1>38, <1>39, <1>40, <1>41,
     <1>42, <1>43, <1>44, <1>45, <1>46, <1>47, <1>u
  DEF Next, ThreadStep, CleanupStep, CheckOperationState, DropExclusiveStream

(* transfer_active is raised only under the mutex, by a thread that saw it *)
(* down, and lowered only by the LIST or the handle that it stands for.    *)
LEMMA ActiveInvStep ==
    ASSUME TypeOK, LockInv, BorrowInv, HandleInv, ActiveInv, [Next]_vars
    PROVE  ActiveInv'
<1> USE FtpFsAssumption DEF PCs, UnderLock, OwnsStream, Unlocked, InExclusive
<1>1. ASSUME NEW t \in Threads, Begin(t) PROVE ActiveInv'
  BY <1>1 DEF Begin, ActiveInv, FirstStep, shared, Goto, SawInactive,
     StreamOps, Commands, Stores
<1>2. ASSUME NEW t \in Threads, BeginExclusive(t) PROVE ActiveInv'
  BY <1>2 DEF BeginExclusive, ActiveInv, Goto, SawInactive, Exclusives,
     StreamOps, Commands, Stores
<1>3. ASSUME NEW t \in Threads, Return(t) PROVE ActiveInv'
  BY <1>3 DEF Return, ActiveInv, shared, Goto, SawInactive, Exclusives,
     StreamOps, Commands, Stores
<1>4. ASSUME NEW t \in Threads, Lock(t) PROVE ActiveInv'
  BY <1>4 DEF Lock, ActiveInv, Goto, SawInactive, Exclusives, StreamOps,
     Commands, Stores
<1>5. ASSUME NEW t \in Threads, CheckActive(t) PROVE ActiveInv'
  BY <1>5, RefuseEffect DEF CheckActive, TypeOK, ActiveInv, Goto,
     SawInactive, Exclusives, StreamOps, Commands, Stores
<1>6. ASSUME NEW t \in Threads, CheckUsable(t) PROVE ActiveInv'
  BY <1>6, RefuseEffect DEF CheckUsable, TypeOK, ActiveInv, Goto,
     SawInactive, Exclusives, StreamOps, Commands, Stores
<1>7. ASSUME NEW t \in Threads, Take(t) PROVE ActiveInv'
  BY <1>7, RefuseEffect DEF Take, TypeOK, ActiveInv, Goto, LockInv,
     BorrowInv, SawInactive, Exclusives, StreamOps, Commands, Stores
<1>8. ASSUME NEW t \in Threads, SendCommand(t) PROVE ActiveInv'
  BY <1>8 DEF SendCommand, ActiveInv, Goto, SawInactive, Stores
<1>9. ASSUME NEW t \in Threads, SendStore(t) PROVE ActiveInv'
  BY <1>9 DEF SendStore, ActiveInv, Goto, SawInactive
<1>10. ASSUME NEW t \in Threads, RequestOffset(t) PROVE ActiveInv'
  BY <1>10 DEF RequestOffset, TypeOK, ActiveInv, Goto, SawInactive,
     Exclusives, StreamOps, Commands, Stores
<1>11. ASSUME NEW t \in Threads, Retr(t) PROVE ActiveInv'
  BY <1>11 DEF Retr, ActiveInv, Goto, SawInactive, Exclusives, StreamOps,
     Commands, Stores
<1>12. ASSUME NEW t \in Threads, ResetMarker(t) PROVE ActiveInv'
  BY <1>12 DEF ResetMarker, TypeOK, ActiveInv, Goto, SawInactive,
     Exclusives, StreamOps, Commands, Stores
<1>13. ASSUME NEW t \in Threads, RetryRetr(t) PROVE ActiveInv'
  BY <1>13 DEF RetryRetr, ActiveInv, Goto, SawInactive, Exclusives,
     StreamOps, Commands, Stores
<1>14. ASSUME NEW t \in Threads, StartTransfer(t) PROVE ActiveInv'
  BY <1>14 DEF StartTransfer, TypeOK, ActiveInv, Goto, LockInv, BorrowInv,
     SawInactive
<1>15. ASSUME NEW t \in Threads, Record(t) PROVE ActiveInv'
  BY <1>15 DEF Record, ActiveInv, Goto, SawInactive, Exclusives, StreamOps,
     Commands, Stores
<1>16. ASSUME NEW t \in Threads, Fail(t) PROVE ActiveInv'
  BY <1>16, RefuseEffect DEF Fail, TypeOK, ActiveInv, SawInactive,
     Exclusives, StreamOps, Commands, Stores
<1>17. ASSUME NEW t \in Threads, Unlock(t) PROVE ActiveInv'
  BY <1>17 DEF Unlock, TypeOK, ActiveInv, Goto, ReturnWith, SawInactive,
     Exclusives, StreamOps, Commands, Stores
<1>18. ASSUME NEW t \in Threads, ReRecord(t) PROVE ActiveInv'
  BY <1>18 DEF ReRecord, TypeOK, ActiveInv, Goto, ReturnWith, SawInactive,
     Exclusives, StreamOps, Commands, Stores
<1>19. ASSUME NEW t \in Threads, Classify(t) PROVE ActiveInv'
  BY <1>19 DEF Classify, TypeOK, ActiveInv, shared, Goto, ReturnWith,
     SawInactive, Alive, Exclusives, StreamOps, Commands, Stores
<1>20. ASSUME NEW t \in Threads, Raise(t) PROVE ActiveInv'
  BY <1>20 DEF Raise, TypeOK, ActiveInv, Goto, LockInv, BorrowInv,
     SawInactive, Exclusives, StreamOps, Commands, Stores
<1>21. ASSUME NEW t \in Threads, ListCommand(t) PROVE ActiveInv'
  BY <1>21 DEF ListCommand, TypeOK, ActiveInv, Goto, SawInactive, Alive,
     Exclusives, StreamOps, Commands, Stores
<1>22. ASSUME NEW t \in Threads, ListTransfer(t) PROVE ActiveInv'
  BY <1>22 DEF ListTransfer, ActiveInv, Goto, SawInactive, Exclusives,
     StreamOps, Commands, Stores
<1>23. ASSUME NEW t \in Threads, ListRecord(t) PROVE ActiveInv'
  BY <1>23 DEF ListRecord, ActiveInv, Goto, SawInactive, Exclusives,
     StreamOps, Commands, Stores
<1>24. ASSUME NEW t \in Threads, GiveBack(t) PROVE ActiveInv'
  BY <1>24 DEF GiveBack, TypeOK, ActiveInv, Goto, SawInactive, Exclusives,
     StreamOps, Commands, Stores
<1>25. ASSUME NEW t \in Threads, Lower(t) PROVE ActiveInv'
  BY <1>25 DEF Lower, TypeOK, ActiveInv, Goto, ReturnWith
<1>26. ASSUME NEW t \in Threads, SkipPrefix(t) PROVE ActiveInv'
  BY <1>26 DEF SkipPrefix, ActiveInv, shared, Goto, SawInactive, Exclusives,
     StreamOps, Commands, Stores
<1>27. ASSUME NEW t \in Threads, SkipFails(t) PROVE ActiveInv'
  BY <1>27 DEF SkipFails, ActiveInv, Goto, SawInactive, Exclusives,
     StreamOps, Commands, Stores
<1>28. ASSUME NEW t \in Threads, AwaitCleanup(t) PROVE ActiveInv'
  BY <1>28 DEF AwaitCleanup, ActiveInv, shared, ReturnWith, Goto,
     SawInactive, Exclusives, StreamOps, Commands, Stores
<1>29. ASSUME NEW t \in Threads, Deliver(t) PROVE ActiveInv'
  BY <1>29 DEF Deliver, ActiveInv, shared, ReturnWith, Goto, SawInactive,
     Exclusives, StreamOps, Commands, Stores
<1>30. ASSUME NEW t \in Threads, ObserveUsable(t) PROVE ActiveInv'
  BY <1>30 DEF ObserveUsable, TypeOK, ActiveInv, shared, Goto, ReturnWith,
     SawInactive, Alive, Holding, Exclusives, StreamOps, Commands, Stores
<1>31. ASSUME NEW t \in Threads, ObserveStream(t) PROVE ActiveInv'
  BY <1>31 DEF ObserveStream, TypeOK, ActiveInv, shared, Goto, ReturnWith,
     SawInactive, Exclusives, StreamOps, Commands, Stores
<1>32. ASSUME NEW t \in Threads, ObserveActive(t) PROVE ActiveInv'
  BY <1>32 DEF ObserveActive, ActiveInv, shared, ReturnWith, Goto,
     SawInactive, Exclusives, StreamOps, Commands, Stores
<1>33. ASSUME NEW t \in Threads, WelcomeMessage(t) PROVE ActiveInv'
  BY <1>33 DEF WelcomeMessage, ActiveInv, shared, ReturnWith, Goto,
     SawInactive, Exclusives, StreamOps, Commands, Stores
<1>34. ASSUME NEW t \in Threads, ConnectCheckActive(t) PROVE ActiveInv'
  BY <1>34 DEF ConnectCheckActive, TypeOK, ActiveInv, shared, Goto,
     ReturnWith, SawInactive, Exclusives, StreamOps, Commands, Stores
<1>35. ASSUME NEW t \in Threads, ConnectReset(t) PROVE ActiveInv'
  BY <1>35 DEF ConnectReset, TypeOK, ActiveInv, Goto, ReturnWith, BorrowInv,
     SawInactive, Exclusives, StreamOps, Commands, Stores
<1>36. ASSUME NEW t \in Threads, Dial(t) PROVE ActiveInv'
  BY <1>36 DEF Dial, TypeOK, ActiveInv, ReturnWith, Goto, BorrowInv,
     SawInactive, Alive, Exclusives, StreamOps, Commands, Stores
<1>37. ASSUME NEW t \in Threads, DisconnectCheckActive(t) PROVE ActiveInv'
  BY <1>37 DEF DisconnectCheckActive, TypeOK, ActiveInv, shared, Goto,
     ReturnWith, SawInactive, Exclusives, StreamOps, Commands, Stores
<1>38. ASSUME NEW t \in Threads, HangUp(t) PROVE ActiveInv'
  BY <1>38 DEF HangUp, TypeOK, ActiveInv, Goto, ReturnWith, BorrowInv,
     SawInactive, Exclusives, StreamOps, Commands, Stores
<1>39. ASSUME NEW t \in Threads, Quit(t) PROVE ActiveInv'
  BY <1>39 DEF Quit, ActiveInv, ReturnWith, Goto, SawInactive, Exclusives,
     StreamOps, Commands, Stores
<1>40. ASSUME NEW t \in Threads, Accessor(t) PROVE ActiveInv'
  BY <1>40 DEF Accessor, TypeOK, ActiveInv, shared, Goto, ReturnWith,
     SawInactive, Exclusives, StreamOps, Commands, Stores
<1>41. ASSUME NEW t \in Threads, RawCommands(t) PROVE ActiveInv'
  BY <1>41 DEF RawCommands, ActiveInv, shared, ReturnWith, Goto,
     SawInactive, Exclusives, StreamOps, Commands, Stores
<1>42. ASSUME NEW h \in Handles, Read(h) PROVE ActiveInv'
  BY <1>42 DEF Read, ActiveInv, shared
<1>43. ASSUME NEW h \in Handles, Finish(h) PROVE ActiveInv'
  BY <1>43 DEF Finish, ActiveInv, shared
<1>44. ASSUME NEW h \in Handles, Drain(h) PROVE ActiveInv'
  BY <1>44 DEF Drain, ActiveInv
<1>45. ASSUME NEW h \in Handles, Finalize(h) PROVE ActiveInv'
  BY <1>45 DEF Finalize, ActiveInv
<1>46. ASSUME NEW h \in Handles, Invalidate(h) PROVE ActiveInv'
  BY <1>46 DEF Invalidate, ActiveInv
<1>47. ASSUME NEW h \in Handles, Release(h) PROVE ActiveInv'
  BY <1>47 DEF Release, ActiveInv, HandleInv, Alive, Exclusives, StreamOps,
     Commands, Stores
<1>u. CASE UNCHANGED vars
  BY <1>u DEF ActiveInv, SawInactive, Alive, Holding, vars, shared, locals, handles
<1> QED
  BY <1>1, <1>2, <1>3, <1>4, <1>5, <1>6, <1>7, <1>8, <1>9, <1>10, <1>11,
     <1>12, <1>13, <1>14, <1>15, <1>16, <1>17, <1>18, <1>19, <1>20, <1>21,
     <1>22, <1>23, <1>24, <1>25, <1>26, <1>27, <1>28, <1>29, <1>30, <1>31,
     <1>32, <1>33, <1>34, <1>35, <1>36, <1>37, <1>38, <1>39, <1>40, <1>41,
     <1>42, <1>43, <1>44, <1>45, <1>46, <1>47, <1>u
  DEF Next, ThreadStep, CleanupStep, CheckOperationState, DropExclusiveStream

(* open(), create() and append() make a handle only while no other lives,  *)
(* and nobody takes the control stream from under it.                      *)
LEMMA HandleInvStep ==
    ASSUME TypeOK, LockInv, BorrowInv, ActiveInv, HandleInv, [Next]_vars
    PROVE  HandleInv'
<1> USE FtpFsAssumption DEF PCs, UnderLock, OwnsStream, Unlocked, InExclusive
<1>1. ASSUME NEW t \in Threads, Begin(t) PROVE HandleInv'
  BY <1>1 DEF Begin, HandleInv, FirstStep, shared, handles, Goto, Alive,
     Holding
<1>2. ASSUME NEW t \in Threads, BeginExclusive(t) PROVE HandleInv'
  BY <1>2 DEF BeginExclusive, HandleInv, shared, handles, Goto, Alive,
     Holding, Exclusives
<1>3. ASSUME NEW t \in Threads, Return(t) PROVE HandleInv'
  BY <1>3 DEF Return, TypeOK, HandleInv, shared, handles, Goto, Alive,
     Holding, Exclusives
<1>4. ASSUME NEW t \in Threads, Lock(t) PROVE HandleInv'
  BY <1>4 DEF Lock, HandleInv, locals, handles, Goto, Alive, Holding,
     Exclusives
<1>5. ASSUME NEW t \in Threads, CheckActive(t) PROVE HandleInv'
  BY <1>5, RefuseEffect DEF CheckActive, TypeOK, HandleInv, handles, Goto,
     SawInactive, Alive, Holding, Exclusives
<1>6. ASSUME NEW t \in Threads, CheckUsable(t) PROVE HandleInv'
  BY <1>6, RefuseEffect DEF CheckUsable, TypeOK, HandleInv, handles, Goto,
     SawInactive, Alive, Holding, Exclusives
<1>7. ASSUME NEW t \in Threads, Take(t) PROVE HandleInv'
  BY <1>7, RefuseEffect DEF Take, TypeOK, HandleInv, handles, Goto, LockInv,
     ActiveInv, SawInactive, Alive, Holding, Exclusives
<1>8. ASSUME NEW t \in Threads, SendCommand(t) PROVE HandleInv'
  BY <1>8 DEF SendCommand, HandleInv, handles, Goto, Alive, Holding,
     Exclusives
<1>9. ASSUME NEW t \in Threads, SendStore(t) PROVE HandleInv'
  BY <1>9 DEF SendStore, TypeOK, HandleInv, handles, Goto, Alive, Holding,
     Exclusives
<1>10. ASSUME NEW t \in Threads, RequestOffset(t) PROVE HandleInv'
  BY <1>10 DEF RequestOffset, TypeOK, HandleInv, handles, Goto, Alive,
     Holding, Exclusives
<1>11. ASSUME NEW t \in Threads, Retr(t) PROVE HandleInv'
  BY <1>11 DEF Retr, TypeOK, HandleInv, handles, Goto, Alive, Holding,
     Exclusives
<1>12. ASSUME NEW t \in Threads, ResetMarker(t) PROVE HandleInv'
  BY <1>12, SuccessIsNoError DEF ResetMarker, TypeOK, HandleInv, handles,
     Goto, ActiveInv, Alive, Holding, Exclusives
<1>13. ASSUME NEW t \in Threads, RetryRetr(t) PROVE HandleInv'
  BY <1>13 DEF RetryRetr, TypeOK, HandleInv, handles, Goto, Alive, Holding,
     Exclusives
<1>14. ASSUME NEW t \in Threads, StartTransfer(t) PROVE HandleInv'
  BY <1>14 DEF StartTransfer, TypeOK, HandleInv, Goto, ActiveInv,
     SawInactive, Alive, Holding, Exclusives
<1>15. ASSUME NEW t \in Threads, Record(t) PROVE HandleInv'
  BY <1>15 DEF Record, HandleInv, locals, handles, Goto, Alive, Holding,
     Exclusives
<1>16. ASSUME NEW t \in Threads, Fail(t) PROVE HandleInv'
  BY <1>16, RefuseEffect DEF Fail, TypeOK, HandleInv, handles, Alive,
     Holding, Exclusives
<1>17. ASSUME NEW t \in Threads, Unlock(t) PROVE HandleInv'
  BY <1>17 DEF Unlock, TypeOK, HandleInv, handles, Goto, ReturnWith, Alive,
     Holding, Exclusives
<1>18. ASSUME NEW t \in Threads, ReRecord(t) PROVE HandleInv'
  BY <1>18 DEF ReRecord, TypeOK, HandleInv, handles, Goto, ReturnWith,
     BorrowInv, ActiveInv, SawInactive, Alive, Holding, Exclusives
<1>19. ASSUME NEW t \in Threads, Classify(t) PROVE HandleInv'
  BY SMTT(30), <1>19, SuccessIsNoError DEF Classify, TypeOK, HandleInv, shared,
     handles, Goto, ReturnWith, LockInv, BorrowInv, ActiveInv, SawInactive,
     Alive, Holding, Exclusives
<1>20. ASSUME NEW t \in Threads, Raise(t) PROVE HandleInv'
  BY <1>20 DEF Raise, HandleInv, locals, handles, Goto, ActiveInv, Alive,
     Holding, Exclusives
<1>21. ASSUME NEW t \in Threads, ListCommand(t) PROVE HandleInv'
  BY <1>21 DEF ListCommand, TypeOK, HandleInv, handles, Goto, SawInactive,
     Alive, Holding, Exclusives
<1>22. ASSUME NEW t \in Threads, ListTransfer(t) PROVE HandleInv'
  BY <1>22 DEF ListTransfer, HandleInv, handles, Goto, Alive, Holding,
     Exclusives
<1>23. ASSUME NEW t \in Threads, ListRecord(t) PROVE HandleInv'
  BY <1>23 DEF ListRecord, HandleInv, locals, handles, Goto, Alive, Holding,
     Exclusives
<1>24. ASSUME NEW t \in Threads, GiveBack(t) PROVE HandleInv'
  BY <1>24 DEF GiveBack, HandleInv, locals, handles, Goto, Alive, Holding,
     Exclusives
<1>25. ASSUME NEW t \in Threads, Lower(t) PROVE HandleInv'
  BY <1>25 DEF Lower, TypeOK, HandleInv, handles, Goto, ReturnWith, Alive,
     Holding, Exclusives
<1>26. ASSUME NEW t \in Threads, SkipPrefix(t) PROVE HandleInv'
  BY <1>26 DEF SkipPrefix, HandleInv, shared, locals, Goto, Alive, Holding,
     Exclusives
<1>27. ASSUME NEW t \in Threads, SkipFails(t) PROVE HandleInv'
  BY <1>27 DEF SkipFails, TypeOK, HandleInv, locals, Goto, Alive, Holding,
     Exclusives
<1>28. ASSUME NEW t \in Threads, AwaitCleanup(t) PROVE HandleInv'
  BY <1>28 DEF AwaitCleanup, HandleInv, shared, handles, ReturnWith, Goto,
     Alive, Holding, Exclusives
<1>29. ASSUME NEW t \in Threads, Deliver(t) PROVE HandleInv'
  BY <1>29 DEF Deliver, TypeOK, HandleInv, shared, ReturnWith, Goto, Alive,
     Holding, Exclusives
<1>30. ASSUME NEW t \in Threads, ObserveUsable(t) PROVE HandleInv'
  BY <1>30 DEF ObserveUsable, TypeOK, HandleInv, shared, handles, Goto,
     ReturnWith, Alive, Holding, Exclusives
<1>31. ASSUME NEW t \in Threads, ObserveStream(t) PROVE HandleInv'
  BY <1>31 DEF ObserveStream, TypeOK, HandleInv, shared, handles, Goto,
     ReturnWith, ActiveInv, SawInactive, Alive, Holding, Exclusives
<1>32. ASSUME NEW t \in Threads, ObserveActive(t) PROVE HandleInv'
  BY <1>32 DEF ObserveActive, HandleInv, shared, handles, ReturnWith, Goto,
     Alive, Holding, Exclusives
<1>33. ASSUME NEW t \in Threads, WelcomeMessage(t) PROVE HandleInv'
  BY <1>33 DEF WelcomeMessage, HandleInv, shared, handles, ReturnWith, Goto,
     Alive, Holding, Exclusives
<1>34. ASSUME NEW t \in Threads, ConnectCheckActive(t) PROVE HandleInv'
  BY <1>34 DEF ConnectCheckActive, TypeOK, HandleInv, shared, handles, Goto,
     ReturnWith, ActiveInv, Alive, Holding, Exclusives
<1>35. ASSUME NEW t \in Threads, ConnectReset(t) PROVE HandleInv'
  BY <1>35 DEF ConnectReset, TypeOK, HandleInv, handles, Goto, ReturnWith,
     ActiveInv, SawInactive, Alive, Holding, Exclusives
<1>36. ASSUME NEW t \in Threads, Dial(t) PROVE HandleInv'
  BY <1>36 DEF Dial, TypeOK, HandleInv, handles, ReturnWith, Goto,
     ActiveInv, Alive, Holding, Exclusives
<1>37. ASSUME NEW t \in Threads, DisconnectCheckActive(t) PROVE HandleInv'
  BY <1>37, SuccessIsNoError DEF DisconnectCheckActive, TypeOK, HandleInv,
     shared, handles, Goto, ReturnWith, ActiveInv, Alive, Holding,
     Exclusives
<1>38. ASSUME NEW t \in Threads, HangUp(t) PROVE HandleInv'
  BY <1>38 DEF HangUp, TypeOK, HandleInv, handles, Goto, ReturnWith,
     BorrowInv, ActiveInv, SawInactive, Alive, Holding, Exclusives
<1>39. ASSUME NEW t \in Threads, Quit(t) PROVE HandleInv'
  BY <1>39 DEF Quit, HandleInv, handles, ReturnWith, Goto, Alive, Holding,
     Exclusives
<1>40. ASSUME NEW t \in Threads, Accessor(t) PROVE HandleInv'
  BY <1>40 DEF Accessor, TypeOK, HandleInv, shared, handles, Goto,
     ReturnWith, SawInactive, Alive, Holding, Exclusives
<1>41. ASSUME NEW t \in Threads, RawCommands(t) PROVE HandleInv'
  BY <1>41 DEF RawCommands, HandleInv, shared, handles, ReturnWith, Goto,
     Alive, Holding, Exclusives
<1>42. ASSUME NEW h \in Handles, Read(h) PROVE HandleInv'
  BY <1>42 DEF Read, HandleInv, shared, locals, Alive, Holding, Exclusives
<1>43. ASSUME NEW h \in Handles, Finish(h) PROVE HandleInv'
  BY <1>43 DEF Finish, HandleInv, shared, locals, Alive, Holding, Exclusives
<1>44. ASSUME NEW h \in Handles, Drain(h) PROVE HandleInv'
  BY <1>44 DEF Drain, HandleInv, locals, Alive, Holding, Exclusives
<1>45. ASSUME NEW h \in Handles, Finalize(h) PROVE HandleInv'
  BY <1>45 DEF Finalize, HandleInv, locals, Alive, Holding, Exclusives
<1>46. ASSUME NEW h \in Handles, Invalidate(h) PROVE HandleInv'
  BY <1>46 DEF Invalidate, HandleInv, locals, Alive, Holding, Exclusives
<1>47. ASSUME NEW h \in Handles, Release(h) PROVE HandleInv'
  BY <1>47 DEF Release, TypeOK, HandleInv, locals, Alive, Holding,
     Exclusives
<1>u. CASE UNCHANGED vars
  BY <1>u DEF HandleInv, SawInactive, Alive, Holding, vars, shared, locals, handles
<1> QED
  BY <1>1, <1>2, <1>3, <1>4, <1>5, <1>6, <1>7, <1>8, <1>9, <1>10, <1>11,
     <1>12, <1>13, <1>14, <1>15, <1>16, <1>17, <1>18, <1>19, <1>20, <1>21,
     <1>22, <1>23, <1>24, <1>25, <1>26, <1>27, <1>28, <1>29, <1>30, <1>31,
     <1>32, <1>33, <1>34, <1>35, <1>36, <1>37, <1>38, <1>39, <1>40, <1>41,
     <1>42, <1>43, <1>44, <1>45, <1>46, <1>47, <1>u
  DEF Next, ThreadStep, CleanupStep, CheckOperationState, DropExclusiveStream

(* Whoever damages the connection records it before anybody else can pass  *)
(* check_operation_state.                                                  *)
LEMMA CleanInvStep ==
    ASSUME TypeOK, LockInv, BorrowInv, ActiveInv, HandleInv, CleanInv, [Next]_vars
    PROVE  CleanInv'
<1> USE FtpFsAssumption DEF PCs, UnderLock, OwnsStream, Unlocked, InExclusive
<1>1. ASSUME NEW t \in Threads, Begin(t) PROVE CleanInv'
  BY <1>1 DEF Begin, CleanInv, FirstStep, shared, handles, Goto, Excused,
     Clean
<1>2. ASSUME NEW t \in Threads, BeginExclusive(t) PROVE CleanInv'
  BY <1>2 DEF BeginExclusive, CleanInv, shared, handles, Goto, Excused,
     Clean, Exclusives
<1>3. ASSUME NEW t \in Threads, Return(t) PROVE CleanInv'
  BY <1>3 DEF Return, CleanInv, shared, handles, Goto, Excused, Clean
<1>4. ASSUME NEW t \in Threads, Lock(t) PROVE CleanInv'
  BY <1>4 DEF Lock, CleanInv, locals, handles, Goto, Excused, Clean
<1>5. ASSUME NEW t \in Threads, CheckActive(t) PROVE CleanInv'
  BY <1>5, RefuseEffect DEF CheckActive, TypeOK, CleanInv, handles, Goto,
     Excused, Clean
<1>6. ASSUME NEW t \in Threads, CheckUsable(t) PROVE CleanInv'
  BY <1>6, RefuseEffect DEF CheckUsable, TypeOK, CleanInv, handles, Goto,
     LockInv, ActiveInv, HandleInv, SawInactive, Alive, Excused, Clean
<1>7. ASSUME NEW t \in Threads, Take(t) PROVE CleanInv'
  BY <1>7, RefuseEffect DEF Take, TypeOK, CleanInv, Goto, Clean
<1>8. ASSUME NEW t \in Threads, SendCommand(t) PROVE CleanInv'
  BY <1>8, SuccessIsNoError, CommandAnswers DEF SendCommand, TypeOK,
     CleanInv, handles, Goto, LockInv, BorrowInv, ActiveInv, HandleInv,
     SawInactive, Alive, Excused, Clean
<1>9. ASSUME NEW t \in Threads, SendStore(t) PROVE CleanInv'
  BY <1>9, DataCommandAnswers DEF SendStore, TypeOK, CleanInv, MarkUnusableIf, handles,
     Goto, LockInv, BorrowInv, ActiveInv, HandleInv, SawInactive, Alive,
     Excused, Clean
<1>10. ASSUME NEW t \in Threads, RequestOffset(t) PROVE CleanInv'
  <2>1. /\ UNCHANGED <<connection_usable, hstate, reconnect>>
        /\ pc[t] = "rest" /\ connection_usable /\ Clean
    BY <1>10 DEF RequestOffset, handles, CleanInv
  <2>2. \A u \in Threads : u # t => pc[u] \in (Unlocked \ {"lower"}) \cup {"idle", "return"}
    BY <2>1 DEF ActiveInv, BorrowInv, LockInv, TypeOK, SawInactive
  <2>3. \A h \in Handles : hstate[h] = "free"
    BY <2>1 DEF HandleInv, Alive, ActiveInv, SawInactive
  <2>4. CASE UNCHANGED <<chan, err, resumed>> /\ Goto(t, "retr")
    BY <2>1, <2>2, <2>3, <2>4 DEF TypeOK, CleanInv, Goto, Excused, Clean
  <2>5. ASSUME NEW a \in SetMarker(chan), chan' = a.chan, a.err = Success,
               resumed' = [resumed EXCEPT ![t] = TRUE], Goto(t, "retr"), UNCHANGED err
        PROVE  CleanInv'
    BY SMTT(30), <2>1, <2>2, <2>3, <2>5, SetMarkerAnswers, SuccessIsNoError
    DEF TypeOK, CleanInv, Goto, Excused, Clean
  <2>6. ASSUME NEW a \in SetMarker(chan), chan' = a.chan, a.err \in ReplyCodes \ {"r421"},
               UNCHANGED <<resumed, err>>, Goto(t, "retr")
        PROVE  CleanInv'
    <3>1. ~TransferSetupRequiresReconnect(a.err) /\ a.err # Success
      BY <2>6, PlainRefusals, SuccessIsNoError DEF FtpError
    <3> QED
      BY SMTT(30), <2>1, <2>2, <2>3, <2>6, <3>1, SetMarkerAnswers
      DEF TypeOK, CleanInv, Goto, Excused, Clean
  <2>7. ASSUME NEW a \in SetMarker(chan), chan' = a.chan,
               a.err \in FtpError \ (ReplyCodes \ {"r421"}),
               err' = [err EXCEPT ![t] = a.err], UNCHANGED resumed, Goto(t, "fail")
        PROVE  CleanInv'
    <3>1. a.err # Success
      BY <2>7, SuccessIsNoError
    <3> QED
      BY SMTT(30), <2>1, <2>2, <2>3, <2>7, <3>1, SetMarkerAnswers
      DEF TypeOK, CleanInv, Goto, Excused, Clean
  <2> QED
    BY <1>10, <2>4, <2>5, <2>6, <2>7 DEF RequestOffset
<1>11. ASSUME NEW t \in Threads, Retr(t) PROVE CleanInv'
  BY <1>11, DataCommandAnswers DEF Retr, TypeOK, CleanInv, MarkUnusableIf,
     handles, Goto, LockInv, BorrowInv, ActiveInv, HandleInv, SawInactive,
     Alive, Excused, Clean
<1>12. ASSUME NEW t \in Threads, ResetMarker(t) PROVE CleanInv'
  BY <1>12, ClearMarkerAnswers DEF ResetMarker, TypeOK, CleanInv, handles,
     Goto, LockInv, BorrowInv, ActiveInv, HandleInv, SawInactive, Alive,
     Clean, Exclusives, Holding
<1>13. ASSUME NEW t \in Threads, RetryRetr(t) PROVE CleanInv'
  BY <1>13, DataCommandAnswers DEF RetryRetr, TypeOK, CleanInv,
     MarkUnusableIf, handles, Goto, LockInv, BorrowInv, ActiveInv,
     HandleInv, SawInactive, Alive, Excused, Clean
<1>14. ASSUME NEW t \in Threads, StartTransfer(t) PROVE CleanInv'
  BY <1>14, SuccessIsNoError DEF StartTransfer, CleanInv, Goto, HandleInv,
     Clean
<1>15. ASSUME NEW t \in Threads, Record(t) PROVE CleanInv'
  BY <1>15 DEF Record, TypeOK, CleanInv, MarkUnusableIf, locals, handles,
     Goto, LockInv, BorrowInv, ActiveInv, SawInactive, Clean
<1>16. ASSUME NEW t \in Threads, Fail(t) PROVE CleanInv'
  BY <1>16, FirstCause, RefuseEffect DEF Fail, TypeOK, CleanInv,
     MarkUnusableIf, handles, LockInv, BorrowInv, ActiveInv, SawInactive,
     Clean
<1>17. ASSUME NEW t \in Threads, Unlock(t) PROVE CleanInv'
  BY <1>17 DEF Unlock, TypeOK, CleanInv, handles, Goto, ReturnWith, Excused,
     Clean
<1>18. ASSUME NEW t \in Threads, ReRecord(t) PROVE CleanInv'
  BY <1>18 DEF ReRecord, TypeOK, CleanInv, MarkUnusableIf, handles, Goto,
     ReturnWith, Excused, Clean
<1>19. ASSUME NEW t \in Threads, Classify(t) PROVE CleanInv'
  BY <1>19 DEF Classify, TypeOK, CleanInv, shared, handles, Goto,
     ReturnWith, SawInactive, Alive, Excused, Clean
<1>20. ASSUME NEW t \in Threads, Raise(t) PROVE CleanInv'
  BY <1>20 DEF Raise, CleanInv, locals, Goto, Clean
<1>21. ASSUME NEW t \in Threads, ListCommand(t) PROVE CleanInv'
  BY <1>21, DataCommandAnswers DEF ListCommand, TypeOK, CleanInv,
     MarkUnusableIf, handles, Goto, BorrowInv, ActiveInv, HandleInv,
     SawInactive, Alive, Excused, Clean
<1>22. ASSUME NEW t \in Threads, ListTransfer(t) PROVE CleanInv'
  BY <1>22, CompletionAnswers DEF ListTransfer, TypeOK, CleanInv, handles,
     Goto, LockInv, ActiveInv, HandleInv, SawInactive, Alive, Excused, Clean
<1>23. ASSUME NEW t \in Threads, ListRecord(t) PROVE CleanInv'
  BY <1>23 DEF ListRecord, TypeOK, CleanInv, MarkUnusableIf, locals,
     handles, Goto, ActiveInv, SawInactive, Clean
<1>24. ASSUME NEW t \in Threads, GiveBack(t) PROVE CleanInv'
  BY <1>24 DEF GiveBack, CleanInv, locals, handles, Goto, Excused, Clean
<1>25. ASSUME NEW t \in Threads, Lower(t) PROVE CleanInv'
  BY <1>25 DEF Lower, TypeOK, CleanInv, handles, Goto, ReturnWith, Excused,
     Clean
<1>26. ASSUME NEW t \in Threads, SkipPrefix(t) PROVE CleanInv'
  BY <1>26 DEF SkipPrefix, CleanInv, shared, locals, Goto, Excused, Clean
<1>27. ASSUME NEW t \in Threads, SkipFails(t) PROVE CleanInv'
  BY <1>27, FaultyChannel DEF SkipFails, TypeOK, CleanInv, locals, Goto,
     HandleInv, Clean, Exclusives, Holding
<1>28. ASSUME NEW t \in Threads, AwaitCleanup(t) PROVE CleanInv'
  BY <1>28 DEF AwaitCleanup, CleanInv, shared, handles, ReturnWith, Goto,
     Excused, Clean
<1>29. ASSUME NEW t \in Threads, Deliver(t) PROVE CleanInv'
  BY <1>29 DEF Deliver, CleanInv, shared, ReturnWith, Goto, HandleInv,
     Clean, Exclusives, Holding
<1>30. ASSUME NEW t \in Threads, ObserveUsable(t) PROVE CleanInv'
  BY <1>30 DEF ObserveUsable, TypeOK, CleanInv, shared, handles, Goto,
     ReturnWith, Excused, Clean
<1>31. ASSUME NEW t \in Threads, ObserveStream(t) PROVE CleanInv'
  BY <1>31 DEF ObserveStream, TypeOK, CleanInv, shared, handles, Goto,
     ReturnWith, Excused, Clean
<1>32. ASSUME NEW t \in Threads, ObserveActive(t) PROVE CleanInv'
  BY <1>32 DEF ObserveActive, CleanInv, shared, handles, ReturnWith, Goto,
     Excused, Clean
<1>33. ASSUME NEW t \in Threads, WelcomeMessage(t) PROVE CleanInv'
  BY <1>33 DEF WelcomeMessage, CleanInv, shared, handles, ReturnWith, Goto,
     Excused, Clean
<1>34. ASSUME NEW t \in Threads, ConnectCheckActive(t) PROVE CleanInv'
  BY <1>34 DEF ConnectCheckActive, TypeOK, CleanInv, shared, handles, Goto,
     ReturnWith, Excused, Clean
<1>35. ASSUME NEW t \in Threads, ConnectReset(t) PROVE CleanInv'
  BY <1>35, FreshChannel DEF ConnectReset, TypeOK, CleanInv, handles, Goto,
     ReturnWith, BorrowInv, Excused, Clean
<1>36. ASSUME NEW t \in Threads, Dial(t) PROVE CleanInv'
  BY <1>36, FreshChannel DEF Dial, TypeOK, CleanInv, handles, ReturnWith,
     Goto, Excused, Clean
<1>37. ASSUME NEW t \in Threads, DisconnectCheckActive(t) PROVE CleanInv'
  BY <1>37 DEF DisconnectCheckActive, TypeOK, CleanInv, shared, handles,
     Goto, ReturnWith, Excused, Clean
<1>38. ASSUME NEW t \in Threads, HangUp(t) PROVE CleanInv'
  BY <1>38, FreshChannel DEF HangUp, TypeOK, CleanInv, handles, Goto,
     ReturnWith, LockInv, BorrowInv, ActiveInv, HandleInv, SawInactive,
     Alive, Excused, Clean
<1>39. ASSUME NEW t \in Threads, Quit(t) PROVE CleanInv'
  BY <1>39, FreshChannel DEF Quit, CleanInv, ReturnWith, Goto, BorrowInv,
     Clean
<1>40. ASSUME NEW t \in Threads, Accessor(t) PROVE CleanInv'
  BY <1>40 DEF Accessor, TypeOK, CleanInv, shared, handles, Goto,
     ReturnWith, BorrowInv, HandleInv, Alive, Excused, Clean
<1>41. ASSUME NEW t \in Threads, RawCommands(t) PROVE CleanInv'
  BY <1>41 DEF RawCommands, CleanInv, shared, ReturnWith, Goto, Clean
<1>42. ASSUME NEW h \in Handles, Read(h) PROVE CleanInv'
  BY <1>42 DEF Read, CleanInv, shared, locals, Clean
<1>43. ASSUME NEW h \in Handles, Finish(h) PROVE CleanInv'
  BY <1>43 DEF Finish, CleanInv, shared, locals, Clean
<1>44. ASSUME NEW h \in Handles, Drain(h) PROVE CleanInv'
  BY <1>44, FaultyChannel DEF Drain, TypeOK, CleanInv, locals, Clean
<1>45. ASSUME NEW h \in Handles, Finalize(h) PROVE CleanInv'
  BY SMTT(30), <1>45, SuccessIsNoError, CompletionAnswers DEF Finalize, TypeOK,
     CleanInv, locals, LockInv, BorrowInv, ActiveInv, HandleInv,
     SawInactive, Alive, Excused, Clean, Exclusives, Holding
<1>46. ASSUME NEW h \in Handles, Invalidate(h) PROVE CleanInv'
  BY <1>46 DEF Invalidate, CleanInv, ActiveInv, HandleInv, SawInactive,
     Alive
<1>47. ASSUME NEW h \in Handles, Release(h) PROVE CleanInv'
  BY <1>47 DEF Release, CleanInv, locals, Clean
<1>u. CASE UNCHANGED vars
  BY <1>u DEF CleanInv, SawInactive, Alive, Excused, Clean, Holding, vars, shared, locals, handles
<1> QED
  BY <1>1, <1>2, <1>3, <1>4, <1>5, <1>6, <1>7, <1>8, <1>9, <1>10, <1>11,
     <1>12, <1>13, <1>14, <1>15, <1>16, <1>17, <1>18, <1>19, <1>20, <1>21,
     <1>22, <1>23, <1>24, <1>25, <1>26, <1>27, <1>28, <1>29, <1>30, <1>31,
     <1>32, <1>33, <1>34, <1>35, <1>36, <1>37, <1>38, <1>39, <1>40, <1>41,
     <1>42, <1>43, <1>44, <1>45, <1>46, <1>47, <1>u
  DEF Next, ThreadStep, CleanupStep, CheckOperationState, DropExclusiveStream

(***************************************************************************)
(* The inductive invariant and what follows from it.                       *)
(***************************************************************************)

(* A client just built by FtpFs::new has no stream, and nobody uses it.    *)
LEMMA IInvInit == Init => IInv
<1> SUFFICES ASSUME Init PROVE IInv
  OBVIOUS
<1> USE FtpFsAssumption DEF Init
<1>1. TypeOK
  BY TypeInit
<1>2. LockInv
  BY DEF LockInv, UnderLock
<1>3. BorrowInv
  BY DEF BorrowInv, InExclusive, OwnsStream
<1>4. ActiveInv
  BY DEF ActiveInv, OwnsStream, SawInactive, UnderLock
<1>5. HandleInv
  BY DEF HandleInv, Alive, Holding, OwnsStream
<1>6. CleanInv
  <2>1. Clean
    BY FreshChannel DEF Init, Clean
  <2>2. /\ \A t \in Threads : pc[t] = "idle"
        /\ \A h \in Handles : hstate[h] = "free"
    OBVIOUS
  <2> QED
    BY <2>1, <2>2 DEF CleanInv
<1> QED
  BY <1>1, <1>2, <1>3, <1>4, <1>5, <1>6 DEF IInv

(* No step of any thread, handle or cleanup leaves the invariant.          *)
LEMMA IInvStep == IInv /\ [Next]_vars => IInv'
<1> SUFFICES ASSUME IInv, [Next]_vars PROVE IInv'
  OBVIOUS
<1>1. TypeOK /\ LockInv /\ BorrowInv /\ ActiveInv /\ HandleInv /\ CleanInv
  BY DEF IInv
<1>2. TypeOK'
  BY <1>1, TypeStep
<1>3. LockInv' /\ BorrowInv'
  BY <1>1, LockInvStep, BorrowInvStep
<1>4. ActiveInv' /\ HandleInv'
  BY <1>1, ActiveInvStep, HandleInvStep
<1>5. CleanInv'
  BY <1>1, CleanInvStep
<1> QED
  BY <1>2, <1>3, <1>4, <1>5 DEF IInv

(* Every reachable state satisfies the inductive invariant.                *)
THEOREM IInvCorrect == Spec => []IInv
<1>1. Init => IInv
  BY IInvInit
<1>2. IInv /\ [Next]_vars => IInv'
  BY IInvStep
<1> QED
  BY <1>1, <1>2, PTL DEF Spec

(* check_operation_state: no thread writes a command on the control        *)
(* connection while replies of an earlier exchange are still outstanding.  *)
THEOREM CommandsInStep == Spec => []CommandsOnSyncedChannel
<1>1. IInv => CommandsOnSyncedChannel
  BY DEF IInv, CleanInv, Clean, CommandsOnSyncedChannel, BeginsExchange
<1> QED
  BY <1>1, IInvCorrect, PTL

(* The mutex, transfer_active and the borrow checker together give the     *)
(* control connection at most one user: a thread under the mutex, a LIST   *)
(* that carried the stream off, or one transfer handle.                    *)
THEOREM OneUserOfTheConnection == Spec => []ControlChannelExclusive
<1>1. IInv => ControlChannelExclusive
  <2> SUFFICES ASSUME IInv PROVE ControlChannelExclusive
    OBVIOUS
  <2> USE DEF IInv
  <2>1. ASSUME NEW t \in Threads, NEW u \in Threads,
               pc[t] \in InExchange, pc[u] \in InExchange
        PROVE  t = u
    BY <2>1 DEF LockInv, BorrowInv, ActiveInv, InExchange, BeginsExchange,
                UnderLock, OwnsStream, SawInactive, InExclusive
  <2>2. \A h, k \in Handles : Alive(h) /\ Alive(k) => h = k
    BY DEF HandleInv
  <2>3. ASSUME NEW t \in Threads, NEW h \in Handles, pc[t] \in InExchange
        PROVE  ~Alive(h)
    BY <2>3 DEF HandleInv, ActiveInv, InExchange, BeginsExchange, UnderLock,
                OwnsStream, SawInactive
  <2> QED
    BY <2>1, <2>2, <2>3 DEF ControlChannelExclusive
<1> QED
  BY <1>1, IInvCorrect, PTL

(* reset_restart_marker: an operation other than the RETR it was meant for *)
(* never begins with a restart marker pending at the server.               *)
THEOREM MarkersAreCleared == Spec => []NoStrayRestartMarker
<1>1. IInv => NoStrayRestartMarker
  BY DEF IInv, CleanInv, Clean, NoStrayRestartMarker, BeginsExchange
<1> QED
  BY <1>1, IInvCorrect, PTL

(* connect, disconnect, run_exclusive and LIST refuse to touch the stream  *)
(* while a transfer stream is alive, so the session stays under it.        *)
THEOREM StreamsKeepTheirSession == Spec => []HandleKeepsSession
<1>1. IInv => HandleKeepsSession
  BY DEF IInv, HandleInv, HandleKeepsSession
<1> QED
  BY <1>1, IInvCorrect, PTL

(* Most steps leave connection_usable alone, MarkUnusableIf and            *)
(* TransferGuard::invalidate only lower it; connect's reset and            *)
(* disconnect raise it, and both leave no stream behind.                   *)
LEMMA UsableStep ==
    ASSUME [Next]_vars
    PROVE  [~connection_usable /\ connection_usable' => ~stream']_vars
<1>1. ASSUME NEW t \in Threads, Begin(t) \/ BeginExclusive(t) \/ Return(t)
            \/ Lock(t) \/ CheckActive(t) \/ CheckUsable(t) \/ Take(t) \/
            SendCommand(t) \/ RequestOffset(t) \/ StartTransfer(t) \/
            Unlock(t) \/ Classify(t) \/ Raise(t) \/ ListTransfer(t) \/
            GiveBack(t) \/ Lower(t) \/ SkipPrefix(t) \/ SkipFails(t) \/
            AwaitCleanup(t) \/ Deliver(t) \/ ObserveUsable(t) \/
            ObserveStream(t) \/ ObserveActive(t) \/ WelcomeMessage(t) \/
            ConnectCheckActive(t) \/ Dial(t) \/ DisconnectCheckActive(t) \/
            Accessor(t) \/ RawCommands(t)
     PROVE  connection_usable' = connection_usable
  BY <1>1 DEF Begin, BeginExclusive, Return, Lock, CheckActive, CheckUsable,
     Take, SendCommand, RequestOffset, StartTransfer, Unlock, Classify,
     Raise, ListTransfer, GiveBack, Lower, SkipPrefix, SkipFails,
     AwaitCleanup, Deliver, ObserveUsable, ObserveStream, ObserveActive,
     WelcomeMessage, ConnectCheckActive, Dial, DisconnectCheckActive,
     Accessor, RawCommands, shared
<1>2. ASSUME NEW t \in Threads, SendStore(t) \/ Retr(t) \/ RetryRetr(t) \/
            Record(t) \/ Fail(t) \/ ReRecord(t) \/ ListCommand(t) \/
            ListRecord(t) \/ Quit(t)
     PROVE  connection_usable' => connection_usable
  BY <1>2 DEF SendStore, Retr, RetryRetr, Record, Fail, ReRecord,
     ListCommand, ListRecord, Quit, MarkUnusableIf
<1>3. ASSUME NEW t \in Threads, ResetMarker(t) \/ ConnectReset(t) \/
            HangUp(t)
     PROVE  connection_usable' => connection_usable \/ ~stream'
  BY <1>3 DEF ResetMarker, ConnectReset, HangUp
<1>4. ASSUME NEW h \in Handles, Read(h) \/ Finish(h) \/ Drain(h) \/
            Finalize(h) \/ Release(h)
     PROVE  connection_usable' = connection_usable
  BY <1>4 DEF Read, Finish, Drain, Finalize, Release, shared
<1>5. ASSUME NEW h \in Handles, Invalidate(h)
     PROVE  ~connection_usable'
  BY <1>5 DEF Invalidate
<1>u. CASE UNCHANGED vars
  BY <1>u
<1> QED
  BY <1>1, <1>2, <1>3, <1>4, <1>5, <1>u
  DEF Next, ThreadStep, CleanupStep, CheckOperationState, DropExclusiveStream

(* A connection given up becomes usable again only by dropping its stream: *)
(* no path declares a connection whose replies are out of step usable.     *)
THEOREM UsableOnlyByReconnecting == Spec => UsableAgainOnlyWithoutStream
<1>1. [Next]_vars => [~connection_usable /\ connection_usable' => ~stream']_vars
  BY UsableStep
<1> QED
  BY <1>1, PTL DEF Spec, UsableAgainOnlyWithoutStream

-----------------------------------------------------------------------------
(* What the client tells its callers: is_connected says "yes", and an       *)
(* operation NotConnected, only of a client that has a session, or has none; *)
(* the stream open() returns begins where it was asked to; and a connection *)
(* called unusable has given a reason.  Each claim rides on an invariant of *)
(* its own, inductive beside IInv.                                         *)

(* An answer lives until its call has returned, and transfer_active stands *)
(* for a stream that is in its place or carried by a LIST.                 *)
AnswerInv ==
    /\ \A t \in Threads : res[t] # "none" => pc[t] = "return"
    /\ transfer_active => SessionExists
    /\ SessionAnswersAreTrue

(* Where a RETR of this thread starts, as far as REST has told.            *)
ServedFrom(t) == IF resumed[t] THEN want[t] ELSE 0

(* How far REST and RETR have come, per step, and what a handle under way  *)
(* was started with.                                                       *)
OffsetInv ==
    /\ \A t \in Threads : pc[t] = "idle" =>
          want[t] = 0 /\ ~resumed[t] /\ start[t] = 0 /\ probes[t] = 0
    /\ \A t \in Threads : want[t] = 0 \/ op[t] = "open"
    /\ \A t \in Threads : pc[t] \in {"rest", "retr", "reset", "retry"} => op[t] = "open"
    /\ \A t \in Threads :
          \/ pc[t] \in {"lock", "check_active", "check_usable", "take"} /\ probes[t] = 0
          \/ pc[t] \in {"send", "rest"}
          => ~resumed[t] /\ start[t] = 0
    /\ \A t \in Threads : pc[t] = "rest" => want[t] = 1
    /\ \A t \in Threads : pc[t] = "retr" =>
          (resumed[t] <=> chan.marker) /\ (resumed[t] => want[t] = 1)
    /\ \A t \in Threads : pc[t] = "retry" => ~resumed[t]
    /\ \A t \in Threads : pc[t] = "start" => start[t] = ServedFrom(t)
    /\ \A t \in Threads :
          pc[t] \in {"unlock", "skip", "deliver"} /\ held[t] # NoHandle =>
             hinfo[held[t]].want = want[t]
    /\ \A t \in Threads :
          pc[t] \in {"unlock", "skip"} /\ held[t] # NoHandle =>
             hinfo[held[t]].pos = ServedFrom(t)
    /\ \A t \in Threads : pc[t] = "skip" => ~resumed[t]
    /\ \A t \in Threads : pc[t] = "deliver" => hinfo[held[t]].pos = want[t]
    /\ ReadStartsAtOffset

(* What is known of the connection when a step is about to give it up.     *)
ReasonInv ==
    /\ UnusableForAReason
    /\ \A t \in Threads : pc[t] = "dial" => connection_usable
    /\ \A t \in Threads : pc[t] = "quit" => ~stream
    /\ \A t \in Threads : pc[t] = "reset" =>
          (chan.marker \/ chan.fault) /\ (connection_usable \/ chan.fault)
    /\ \A t \in Threads :
          pc[t] \in {"record", "fail"} /\ TransferSetupRequiresReconnect(err[t]) => chan.fault
    /\ \A t \in Threads :
          /\ pc[t] = "list_record"
          /\ reconnect[t] \/ TransferSetupRequiresReconnect(err[t])
          => chan.fault
    /\ \A h \in Handles : hfail[h] => Alive(h) /\ chan.fault
    /\ \A h \in Handles : hstate[h] = "invalidate" => chan.fault
    /\ \A h \in Handles : hstate[h] = "finalize" /\ hinfo[h].tail > 0 => chan.fault
    /\ \A h \in Handles : hinfo[h].eof => hinfo[h].tail = 0

-----------------------------------------------------------------------------
(* A refused operation answers as its caller is told, never with a boolean.*)
LEMMA RefuseAnswer ==
    ASSUME NEW t \in Threads, NEW answer, Refuse(t, answer)
    PROVE  /\ lock' = NoThread
           /\ pc' = [pc EXCEPT ![t] = "return"]
           /\ \E outcome \in {answer, "ok", "failed"} : res' = [res EXCEPT ![t] = outcome]
BY DEF Refuse, ReturnWith, Goto, Outcomes

(* A read meets the end of the file only when the socket has no more.      *)
LEMMA EofIsEmpty ==
    ASSUME NEW i \in HandleInfo, i.eof => i.tail = 0
    PROVE  AfterRead(i).eof => AfterRead(i).tail = 0
BY InfoFields DEF AfterRead, AfterReading, Readable, Info

-----------------------------------------------------------------------------
(* Answers.                                                                *)

(* A call that has just begun has answered nothing.                        *)
LEMMA AnswerInvInit == Init => AnswerInv
BY DEF Init, AnswerInv, SessionAnswersAreTrue, SessionExists

(* The answer "true" is given while there is a session, and no session ends*)
(* while a call of another thread is on its way back: that takes &mut self.*)
LEMMA AnswerInvStep ==
    ASSUME IInv, AnswerInv, [Next]_vars
    PROVE  AnswerInv'
<1> USE FtpFsAssumption DEF IInv
<1>1. ASSUME NEW t \in Threads, Begin(t) PROVE AnswerInv'
  BY <1>1 DEF Begin, TypeOK, AnswerInv, shared, handles, Goto, FirstStep,
     OwnsStream, SessionAnswersAreTrue, SessionExists
<1>2. ASSUME NEW t \in Threads, BeginExclusive(t) PROVE AnswerInv'
  BY <1>2 DEF BeginExclusive, TypeOK, AnswerInv, shared, handles, Goto,
     Exclusives, OwnsStream, SessionAnswersAreTrue, SessionExists
<1>3. ASSUME NEW t \in Threads, Return(t) PROVE AnswerInv'
  BY <1>3 DEF Return, TypeOK, AnswerInv, shared, handles, Goto, OwnsStream,
     SessionAnswersAreTrue, SessionExists
<1>4. ASSUME NEW t \in Threads, Lock(t) PROVE AnswerInv'
  BY <1>4 DEF Lock, TypeOK, AnswerInv, locals, handles, Goto, OwnsStream,
     SessionAnswersAreTrue, SessionExists
<1>5. ASSUME NEW t \in Threads, CheckActive(t) PROVE AnswerInv'
  BY <1>5, RefuseAnswer DEF CheckActive, TypeOK, AnswerInv, handles, Goto,
     OwnsStream, SessionAnswersAreTrue, SessionExists
<1>6. ASSUME NEW t \in Threads, CheckUsable(t) PROVE AnswerInv'
  BY <1>6, RefuseAnswer DEF CheckUsable, TypeOK, AnswerInv, handles, Goto,
     ReturnWith, OwnsStream, SessionAnswersAreTrue, SessionExists
<1>7. ASSUME NEW t \in Threads, Take(t) PROVE AnswerInv'
  <2>1. stream \/ ~SessionExists
    BY <1>7 DEF Take, ActiveInv, SawInactive, UnderLock, LockInv, SessionExists
  <2>2. pc[t] = "take" /\ transfer_active' = transfer_active /\ TypeOK /\ AnswerInv
    BY <1>7 DEF Take
  <2>3. CASE ~stream /\ Refuse(t, "NotConnected") /\ stream' = stream
    <3>1. ~SessionExists'
      BY <2>1, <2>2, <2>3, RefuseAnswer DEF SessionExists, TypeOK, OwnsStream
    <3> QED
      BY <2>1, <2>2, <2>3, <3>1, RefuseAnswer DEF AnswerInv, TypeOK,
         SessionAnswersAreTrue
  <2>4. CASE stream /\ Refuse(t, "ok") /\ stream' = stream
    BY <2>2, <2>4, RefuseAnswer DEF AnswerInv, TypeOK, SessionAnswersAreTrue, SessionExists
  <2>5. CASE /\ stream /\ res' = res
             /\ \/ stream' = FALSE /\ pc' = [pc EXCEPT ![t] = "raise"]
                \/ stream' = stream /\ \E label \in {"send", "rest", "retr"} :
                                         pc' = [pc EXCEPT ![t] = label]
    BY <2>2, <2>5 DEF AnswerInv, TypeOK, SessionAnswersAreTrue,
       SessionExists, OwnsStream
  <2> QED
    BY <1>7, <2>3, <2>4, <2>5 DEF Take, Goto
<1>8. ASSUME NEW t \in Threads, SendCommand(t) PROVE AnswerInv'
  BY <1>8 DEF SendCommand, TypeOK, AnswerInv, handles, Goto, OwnsStream,
     SessionAnswersAreTrue, SessionExists
<1>9. ASSUME NEW t \in Threads, SendStore(t) PROVE AnswerInv'
  BY <1>9 DEF SendStore, TypeOK, AnswerInv, handles, Goto, MarkUnusableIf,
     OwnsStream, SessionAnswersAreTrue, SessionExists
<1>10. ASSUME NEW t \in Threads, RequestOffset(t) PROVE AnswerInv'
  BY <1>10 DEF RequestOffset, TypeOK, AnswerInv, handles, Goto, OwnsStream,
     SessionAnswersAreTrue, SessionExists
<1>11. ASSUME NEW t \in Threads, Retr(t) PROVE AnswerInv'
  BY <1>11 DEF Retr, TypeOK, AnswerInv, handles, Goto, MarkUnusableIf,
     OwnsStream, SessionAnswersAreTrue, SessionExists
<1>12. ASSUME NEW t \in Threads, ResetMarker(t) PROVE AnswerInv'
  BY <1>12 DEF ResetMarker, TypeOK, AnswerInv, handles, Goto, OwnsStream,
     SessionAnswersAreTrue, SessionExists
<1>13. ASSUME NEW t \in Threads, RetryRetr(t) PROVE AnswerInv'
  BY <1>13 DEF RetryRetr, TypeOK, AnswerInv, handles, Goto, MarkUnusableIf,
     OwnsStream, SessionAnswersAreTrue, SessionExists
<1>14. ASSUME NEW t \in Threads, StartTransfer(t) PROVE AnswerInv'
  BY <1>14 DEF StartTransfer, TypeOK, AnswerInv, Goto, Info, ActiveInv,
     SessionAnswersAreTrue, SessionExists
<1>15. ASSUME NEW t \in Threads, Record(t) PROVE AnswerInv'
  BY <1>15 DEF Record, TypeOK, AnswerInv, locals, handles, Goto,
     MarkUnusableIf, OwnsStream, SessionAnswersAreTrue, SessionExists
<1>16. ASSUME NEW t \in Threads, Fail(t) PROVE AnswerInv'
  BY <1>16, RefuseAnswer DEF Fail, TypeOK, AnswerInv, handles, MarkUnusableIf,
     ReturnWith, Goto, OwnsStream, SessionAnswersAreTrue, SessionExists
<1>17. ASSUME NEW t \in Threads, Unlock(t) PROVE AnswerInv'
  BY <1>17 DEF Unlock, TypeOK, AnswerInv, handles, Goto, ReturnWith,
     OwnsStream, SessionAnswersAreTrue, SessionExists
<1>18. ASSUME NEW t \in Threads, ReRecord(t) PROVE AnswerInv'
  BY <1>18 DEF ReRecord, TypeOK, AnswerInv, handles, Goto, ReturnWith,
     MarkUnusableIf, OwnsStream, SessionAnswersAreTrue, SessionExists
<1>19. ASSUME NEW t \in Threads, Classify(t) PROVE AnswerInv'
  BY <1>19 DEF Classify, TypeOK, AnswerInv, shared, handles, Goto, ReturnWith,
     Outcomes, OwnsStream, SessionAnswersAreTrue, SessionExists
<1>20. ASSUME NEW t \in Threads, Raise(t) PROVE AnswerInv'
  BY <1>20 DEF Raise, TypeOK, AnswerInv, locals, handles, Goto, OwnsStream,
     SessionAnswersAreTrue, SessionExists
<1>21. ASSUME NEW t \in Threads, ListCommand(t) PROVE AnswerInv'
  BY <1>21 DEF ListCommand, TypeOK, AnswerInv, handles, Goto, MarkUnusableIf,
     OwnsStream, SessionAnswersAreTrue, SessionExists
<1>22. ASSUME NEW t \in Threads, ListTransfer(t) PROVE AnswerInv'
  BY <1>22 DEF ListTransfer, TypeOK, AnswerInv, handles, Goto, OwnsStream,
     SessionAnswersAreTrue, SessionExists
<1>23. ASSUME NEW t \in Threads, ListRecord(t) PROVE AnswerInv'
  BY <1>23 DEF ListRecord, TypeOK, AnswerInv, locals, handles, Goto,
     MarkUnusableIf, OwnsStream, SessionAnswersAreTrue, SessionExists
<1>24. ASSUME NEW t \in Threads, GiveBack(t) PROVE AnswerInv'
  BY <1>24 DEF GiveBack, TypeOK, AnswerInv, locals, handles, Goto, OwnsStream,
     SessionAnswersAreTrue, SessionExists
<1>25. ASSUME NEW t \in Threads, Lower(t) PROVE AnswerInv'
  BY <1>25 DEF Lower, TypeOK, AnswerInv, handles, Goto, ReturnWith,
     OwnsStream, SessionAnswersAreTrue, SessionExists
<1>26. ASSUME NEW t \in Threads, SkipPrefix(t) PROVE AnswerInv'
  BY <1>26 DEF SkipPrefix, TypeOK, AnswerInv, shared, locals, Goto, Info,
     OwnsStream, SessionAnswersAreTrue, SessionExists
<1>27. ASSUME NEW t \in Threads, SkipFails(t) PROVE AnswerInv'
  BY <1>27 DEF SkipFails, TypeOK, AnswerInv, locals, Goto, OwnsStream,
     SessionAnswersAreTrue, SessionExists
<1>28. ASSUME NEW t \in Threads, AwaitCleanup(t) PROVE AnswerInv'
  BY <1>28 DEF AwaitCleanup, TypeOK, AnswerInv, shared, handles, ReturnWith,
     Goto, OwnsStream, SessionAnswersAreTrue, SessionExists
<1>29. ASSUME NEW t \in Threads, Deliver(t) PROVE AnswerInv'
  BY <1>29 DEF Deliver, TypeOK, AnswerInv, shared, ReturnWith, Goto,
     OwnsStream, SessionAnswersAreTrue, SessionExists
<1>30. ASSUME NEW t \in Threads, ObserveUsable(t) PROVE AnswerInv'
  BY <1>30 DEF ObserveUsable, TypeOK, AnswerInv, shared, handles, Goto,
     ReturnWith, OwnsStream, SessionAnswersAreTrue, SessionExists
<1>31. ASSUME NEW t \in Threads, ObserveStream(t) PROVE AnswerInv'
  BY <1>31 DEF ObserveStream, TypeOK, AnswerInv, shared, handles, Goto,
     ReturnWith, OwnsStream, SessionAnswersAreTrue, SessionExists
<1>32. ASSUME NEW t \in Threads, ObserveActive(t) PROVE AnswerInv'
  BY <1>32 DEF ObserveActive, TypeOK, AnswerInv, shared, handles, ReturnWith,
     Goto, OwnsStream, SessionAnswersAreTrue, SessionExists
<1>33. ASSUME NEW t \in Threads, WelcomeMessage(t) PROVE AnswerInv'
  BY <1>33 DEF WelcomeMessage, TypeOK, AnswerInv, shared, handles, ReturnWith,
     Goto, OwnsStream, SessionAnswersAreTrue, SessionExists
<1>34. ASSUME NEW t \in Threads, ConnectCheckActive(t) PROVE AnswerInv'
  BY <1>34 DEF ConnectCheckActive, TypeOK, AnswerInv, shared, handles, Goto,
     ReturnWith, OwnsStream, SessionAnswersAreTrue, SessionExists
<1>35. ASSUME NEW t \in Threads, ConnectReset(t) PROVE AnswerInv'
  BY <1>35 DEF ConnectReset, TypeOK, AnswerInv, handles, Goto, ReturnWith,
     BorrowInv, ActiveInv, SawInactive, InExclusive, SessionAnswersAreTrue
<1>36. ASSUME NEW t \in Threads, Dial(t) PROVE AnswerInv'
  <2>1. \A u \in Threads : u # t => pc[u] = "idle" /\ res[u] = "none"
    BY <1>36 DEF Dial, BorrowInv, InExclusive, AnswerInv
  <2> QED
    BY <1>36, <2>1 DEF Dial, TypeOK, AnswerInv, handles, ReturnWith, Goto, OwnsStream,
       SessionAnswersAreTrue, SessionExists
<1>37. ASSUME NEW t \in Threads, DisconnectCheckActive(t) PROVE AnswerInv'
  BY <1>37 DEF DisconnectCheckActive, TypeOK, AnswerInv, shared, handles,
     Goto, ReturnWith, OwnsStream, SessionAnswersAreTrue, SessionExists
<1>38. ASSUME NEW t \in Threads, HangUp(t) PROVE AnswerInv'
  <2>1. \A u \in Threads : u # t => pc[u] = "idle" /\ res[u] = "none"
    BY <1>38 DEF HangUp, BorrowInv, InExclusive, AnswerInv
  <2>2. ~transfer_active
    BY <1>38 DEF HangUp, ActiveInv, SawInactive
  <2>3. /\ pc[t] = "hang_up" /\ transfer_active' = transfer_active
        /\ \/ ~stream' /\ res' = res /\ pc' = [pc EXCEPT ![t] = "quit"]
           \/ /\ ~stream' /\ pc' = [pc EXCEPT ![t] = "return"]
              /\ \E answer \in {"NotConnected", "Unusable"} :
                    res' = [res EXCEPT ![t] = answer]
    BY <1>38 DEF HangUp, Goto, ReturnWith
  <2>4. ~SessionExists'
    BY <2>1, <2>3 DEF SessionExists, TypeOK, OwnsStream
  <2> QED
    BY <2>1, <2>2, <2>3, <2>4 DEF TypeOK, AnswerInv, SessionAnswersAreTrue
<1>39. ASSUME NEW t \in Threads, Quit(t) PROVE AnswerInv'
  BY <1>39 DEF Quit, TypeOK, AnswerInv, handles, ReturnWith, MarkUnusableIf,
     Goto, OwnsStream, SessionAnswersAreTrue, SessionExists
<1>40. ASSUME NEW t \in Threads, Accessor(t) PROVE AnswerInv'
  BY <1>40 DEF Accessor, TypeOK, AnswerInv, shared, handles, Goto, ReturnWith,
     OwnsStream, SessionAnswersAreTrue, SessionExists
<1>41. ASSUME NEW t \in Threads, RawCommands(t) PROVE AnswerInv'
  BY <1>41 DEF RawCommands, TypeOK, AnswerInv, shared, handles, ReturnWith,
     Goto, OwnsStream, SessionAnswersAreTrue, SessionExists
<1>42. ASSUME NEW h \in Handles, Read(h) PROVE AnswerInv'
  BY <1>42 DEF Read, TypeOK, AnswerInv, shared, locals, AfterRead,
     AfterReading, Info, SessionAnswersAreTrue, SessionExists
<1>43. ASSUME NEW h \in Handles, Finish(h) PROVE AnswerInv'
  BY <1>43 DEF Finish, TypeOK, AnswerInv, shared, locals,
     SessionAnswersAreTrue, SessionExists
<1>44. ASSUME NEW h \in Handles, Drain(h) PROVE AnswerInv'
  BY <1>44 DEF Drain, TypeOK, AnswerInv, locals, Info, SessionAnswersAreTrue,
     SessionExists
<1>45. ASSUME NEW h \in Handles, Finalize(h) PROVE AnswerInv'
  BY <1>45 DEF Finalize, TypeOK, AnswerInv, locals, SessionAnswersAreTrue,
     SessionExists
<1>46. ASSUME NEW h \in Handles, Invalidate(h) PROVE AnswerInv'
  BY <1>46 DEF Invalidate, TypeOK, AnswerInv, locals, SessionAnswersAreTrue,
     SessionExists
<1>47. ASSUME NEW h \in Handles, Release(h) PROVE AnswerInv'
  BY <1>47 DEF Release, TypeOK, AnswerInv, locals, NoInfo, Info,
     SessionAnswersAreTrue, SessionExists
<1>u. CASE UNCHANGED vars
  BY <1>u DEF AnswerInv, vars, shared, locals, handles, SessionAnswersAreTrue,
     SessionExists
<1> QED
  BY <1>1, <1>2, <1>3, <1>4, <1>5, <1>6, <1>7, <1>8, <1>9, <1>10, <1>11,
     <1>12, <1>13, <1>14, <1>15, <1>16, <1>17, <1>18, <1>19, <1>20, <1>21,
     <1>22, <1>23, <1>24, <1>25, <1>26, <1>27, <1>28, <1>29, <1>30, <1>31,
     <1>32, <1>33, <1>34, <1>35, <1>36, <1>37, <1>38, <1>39, <1>40, <1>41,
     <1>42, <1>43, <1>44, <1>45, <1>46, <1>47, <1>u
  DEF Next, ThreadStep, CleanupStep, CheckOperationState, DropExclusiveStream

(* is_connected answers true only while the client has a session, and an   *)
(* operation NotConnected only while it has none: a LIST that holds the    *)
(* stream has raised the flag under the lock it took it with, and puts the *)
(* stream back before the flag falls, so nobody meets the empty Option.    *)
THEOREM AnswersAreTrue == Spec => []SessionAnswersAreTrue
<1>1. Init => AnswerInv
  BY AnswerInvInit
<1>2. IInv /\ AnswerInv /\ [Next]_vars => AnswerInv'
  BY AnswerInvStep
<1>3. AnswerInv => SessionAnswersAreTrue
  BY DEF AnswerInv
<1> QED
  BY <1>1, <1>2, <1>3, IInvCorrect, PTL DEF Spec

-----------------------------------------------------------------------------
(* Offsets.                                                                *)

(* Before the first open() nobody has asked for an offset.                 *)
LEMMA OffsetInvInit == Init => OffsetInv
BY DEF Init, OffsetInv, ReadStartsAtOffset, Holding

(* request_offset, retr_as_stream, reset_restart_marker and skip_prefix    *)
(* hand the offset on: the RETR starts at 0 or at the offset, as resumed   *)
(* says, and what REST has not skipped skip_prefix does.                   *)
LEMMA OffsetInvStep ==
    ASSUME IInv, OffsetInv, [Next]_vars
    PROVE  OffsetInv'
<1> USE FtpFsAssumption DEF IInv
<1>1. ASSUME NEW t \in Threads, Begin(t) PROVE OffsetInv'
  BY <1>1 DEF Begin, TypeOK, shared, handles, Goto, FirstStep, OffsetInv,
     ReadStartsAtOffset, ServedFrom
<1>2. ASSUME NEW t \in Threads, BeginExclusive(t) PROVE OffsetInv'
  BY <1>2 DEF BeginExclusive, TypeOK, shared, handles, Goto, Exclusives,
     OffsetInv, ReadStartsAtOffset
<1>3. ASSUME NEW t \in Threads, Return(t) PROVE OffsetInv'
  BY <1>3 DEF Return, TypeOK, shared, handles, Goto, OffsetInv,
     ReadStartsAtOffset, ServedFrom
<1>4. ASSUME NEW t \in Threads, Lock(t) PROVE OffsetInv'
  BY <1>4 DEF Lock, TypeOK, locals, handles, Goto, OffsetInv,
     ReadStartsAtOffset, ServedFrom
<1>5. ASSUME NEW t \in Threads, CheckActive(t) PROVE OffsetInv'
  BY <1>5 DEF CheckActive, TypeOK, handles, Goto, Refuse, ReturnWith,
     OffsetInv, ReadStartsAtOffset, ServedFrom
<1>6. ASSUME NEW t \in Threads, CheckUsable(t) PROVE OffsetInv'
  BY <1>6 DEF CheckUsable, TypeOK, handles, Goto, Refuse, ReturnWith,
     OffsetInv, ReadStartsAtOffset, ServedFrom
<1>7. ASSUME NEW t \in Threads, Take(t) PROVE OffsetInv'
  BY <1>7 DEF Take, TypeOK, handles, Goto, Refuse, ReturnWith, OffsetInv,
     CleanInv, Clean, ReadStartsAtOffset, ServedFrom
<1>8. ASSUME NEW t \in Threads, SendCommand(t) PROVE OffsetInv'
  BY <1>8, CommandAnswers DEF SendCommand, TypeOK, handles, Goto, OffsetInv,
     HandleInv, ReadStartsAtOffset, ServedFrom
<1>9. ASSUME NEW t \in Threads, SendStore(t) PROVE OffsetInv'
  BY <1>9, DataCommandAnswers DEF SendStore, TypeOK, handles, Goto,
     MarkUnusableIf, OffsetInv, CleanInv, Clean, ReadStartsAtOffset,
     ServedFrom
<1>10. ASSUME NEW t \in Threads, RequestOffset(t) PROVE OffsetInv'
  <2> DEFINE Rest == chan.synced /\ ~chan.marker /\ op[t] = "open" /\ want[t] = 1
                     /\ ~resumed[t] /\ start[t] = 0
  <2>1. Rest /\ chan \in Channel /\ \A u \in Threads \ {t} : pc[u] # "retr"
    BY <1>10 DEF RequestOffset, TypeOK, CleanInv, Clean, OffsetInv, LockInv,
       UnderLock
  <2>2. PICK label \in {"retr", "fail"} : pc' = [pc EXCEPT ![t] = label]
    BY <1>10 DEF RequestOffset, Goto
  <2>3. /\ UNCHANGED <<op, probes, want, start, held, hstate, hinfo>>
        /\ \A u \in Threads \ {t} : resumed'[u] = resumed[u]
    BY <1>10 DEF RequestOffset, handles, TypeOK
  <2>4. label = "retr" => (resumed'[t] <=> chan'.marker)
    <3>1. CASE UNCHANGED <<chan, err, resumed>>
      BY <2>1, <3>1
    <3>2. CASE \E a \in SetMarker(chan) :
                  /\ chan' = a.chan
                  /\ \/ a.err = Success /\ resumed' = [resumed EXCEPT ![t] = TRUE]
                     \/ a.err # Success /\ UNCHANGED resumed
      BY <2>1, <3>2, SetMarkerAnswers DEF TypeOK
    <3>3. CASE label = "fail"
      BY <3>3
    <3> QED
      BY <1>10, <2>2, <3>1, <3>2, <3>3, SuccessIsNoError DEF RequestOffset,
         TypeOK, FtpError
  <2> QED
    BY <1>10, <2>1, <2>2, <2>3, <2>4 DEF RequestOffset, TypeOK, OffsetInv,
       ReadStartsAtOffset, ServedFrom
<1>11. ASSUME NEW t \in Threads, Retr(t) PROVE OffsetInv'
  BY <1>11, DataCommandAnswers DEF Retr, TypeOK, handles, Goto,
     MarkUnusableIf, OffsetInv, LockInv, UnderLock, ReadStartsAtOffset,
     ServedFrom
<1>12. ASSUME NEW t \in Threads, ResetMarker(t) PROVE OffsetInv'
  BY <1>12, ClearMarkerAnswers DEF ResetMarker, TypeOK, handles, Goto,
     OffsetInv, LockInv, UnderLock, ReadStartsAtOffset, ServedFrom
<1>13. ASSUME NEW t \in Threads, RetryRetr(t) PROVE OffsetInv'
  BY <1>13, DataCommandAnswers DEF RetryRetr, TypeOK, handles, Goto,
     MarkUnusableIf, OffsetInv, CleanInv, Clean, ReadStartsAtOffset,
     ServedFrom
<1>14. ASSUME NEW t \in Threads, StartTransfer(t) PROVE OffsetInv'
  BY <1>14 DEF StartTransfer, TypeOK, Goto, Info, OffsetInv, HandleInv,
     Holding, ReadStartsAtOffset, ServedFrom
<1>15. ASSUME NEW t \in Threads, Record(t) PROVE OffsetInv'
  BY <1>15 DEF Record, TypeOK, locals, handles, Goto, MarkUnusableIf,
     OffsetInv, HandleInv, ReadStartsAtOffset, ServedFrom
<1>16. ASSUME NEW t \in Threads, Fail(t) PROVE OffsetInv'
  BY <1>16 DEF Fail, TypeOK, handles, Refuse, MarkUnusableIf, ReturnWith,
     Goto, OffsetInv, ReadStartsAtOffset, ServedFrom
<1>17. ASSUME NEW t \in Threads, Unlock(t) PROVE OffsetInv'
  BY <1>17 DEF Unlock, TypeOK, handles, Goto, ReturnWith, OffsetInv,
     ReadStartsAtOffset, ServedFrom
<1>18. ASSUME NEW t \in Threads, ReRecord(t) PROVE OffsetInv'
  BY <1>18 DEF ReRecord, TypeOK, handles, Goto, ReturnWith, MarkUnusableIf,
     OffsetInv, ReadStartsAtOffset, ServedFrom
<1>19. ASSUME NEW t \in Threads, Classify(t) PROVE OffsetInv'
  BY <1>19 DEF Classify, TypeOK, shared, handles, Goto, ReturnWith, OffsetInv,
     ReadStartsAtOffset, ServedFrom
<1>20. ASSUME NEW t \in Threads, Raise(t) PROVE OffsetInv'
  BY <1>20 DEF Raise, TypeOK, locals, handles, Goto, OffsetInv,
     ReadStartsAtOffset, ServedFrom
<1>21. ASSUME NEW t \in Threads, ListCommand(t) PROVE OffsetInv'
  BY <1>21, DataCommandAnswers DEF ListCommand, TypeOK, handles, Goto,
     MarkUnusableIf, OffsetInv, CleanInv, Clean, ReadStartsAtOffset,
     ServedFrom
<1>22. ASSUME NEW t \in Threads, ListTransfer(t) PROVE OffsetInv'
  BY <1>22, CompletionAnswers, FaultyChannel DEF ListTransfer, TypeOK,
     handles, Goto, OffsetInv, ActiveInv, OwnsStream, ReadStartsAtOffset,
     ServedFrom
<1>23. ASSUME NEW t \in Threads, ListRecord(t) PROVE OffsetInv'
  BY <1>23 DEF ListRecord, TypeOK, locals, handles, Goto, MarkUnusableIf,
     OffsetInv, ReadStartsAtOffset, ServedFrom
<1>24. ASSUME NEW t \in Threads, GiveBack(t) PROVE OffsetInv'
  BY <1>24 DEF GiveBack, TypeOK, locals, handles, Goto, OffsetInv,
     ReadStartsAtOffset, ServedFrom
<1>25. ASSUME NEW t \in Threads, Lower(t) PROVE OffsetInv'
  BY <1>25 DEF Lower, TypeOK, handles, Goto, ReturnWith, OffsetInv,
     ReadStartsAtOffset, ServedFrom
<1>26. ASSUME NEW t \in Threads, SkipPrefix(t) PROVE OffsetInv'
  <2>1. held[t] \in Handles /\ held[t] # NoHandle /\ hstate[held[t]] = "held"
    BY <1>26 DEF SkipPrefix, HandleInv, Holding
  <2>2. hinfo[held[t]].pos = 0 /\ want[t] \in 0..1
    BY <1>26, <2>1 DEF SkipPrefix, TypeOK, OffsetInv, ServedFrom
  <2>3. PICK tail \in 0..1, short \in BOOLEAN :
           hinfo' = [hinfo EXCEPT ![held[t]] =
                        Info(@.dir, @.want, @.pos + want[t], tail, @.remaining, short)]
    BY <1>26 DEF SkipPrefix
  <2>4. /\ hinfo'[held[t]].want = hinfo[held[t]].want
        /\ hinfo'[held[t]].pos = want[t]
        /\ \A h \in Handles \ {held[t]} : hinfo'[h] = hinfo[h]
    BY <2>1, <2>2, <2>3 DEF TypeOK, Info
  <2> QED
    BY <1>26, <2>1, <2>4 DEF SkipPrefix, TypeOK, shared, locals, Goto, OffsetInv,
       HandleInv, Holding, ReadStartsAtOffset, ServedFrom
<1>27. ASSUME NEW t \in Threads, SkipFails(t) PROVE OffsetInv'
  BY <1>27, FaultyChannel DEF SkipFails, TypeOK, locals, Goto, OffsetInv,
     ReadStartsAtOffset, ServedFrom
<1>28. ASSUME NEW t \in Threads, AwaitCleanup(t) PROVE OffsetInv'
  BY <1>28 DEF AwaitCleanup, TypeOK, shared, handles, ReturnWith, Goto,
     OffsetInv, ReadStartsAtOffset, ServedFrom
<1>29. ASSUME NEW t \in Threads, Deliver(t) PROVE OffsetInv'
  BY <1>29 DEF Deliver, TypeOK, shared, ReturnWith, Goto, OffsetInv,
     ReadStartsAtOffset, ServedFrom
<1>30. ASSUME NEW t \in Threads, ObserveUsable(t) PROVE OffsetInv'
  BY <1>30 DEF ObserveUsable, TypeOK, shared, handles, Goto, ReturnWith,
     OffsetInv, ReadStartsAtOffset, ServedFrom
<1>31. ASSUME NEW t \in Threads, ObserveStream(t) PROVE OffsetInv'
  BY <1>31 DEF ObserveStream, TypeOK, shared, handles, Goto, ReturnWith,
     OffsetInv, ReadStartsAtOffset, ServedFrom
<1>32. ASSUME NEW t \in Threads, ObserveActive(t) PROVE OffsetInv'
  BY <1>32 DEF ObserveActive, TypeOK, shared, handles, ReturnWith, Goto,
     OffsetInv, ReadStartsAtOffset, ServedFrom
<1>33. ASSUME NEW t \in Threads, WelcomeMessage(t) PROVE OffsetInv'
  BY <1>33 DEF WelcomeMessage, TypeOK, shared, handles, ReturnWith, Goto,
     OffsetInv, ReadStartsAtOffset, ServedFrom
<1>34. ASSUME NEW t \in Threads, ConnectCheckActive(t) PROVE OffsetInv'
  BY <1>34 DEF ConnectCheckActive, TypeOK, shared, handles, Goto, ReturnWith,
     OffsetInv, BorrowInv, InExclusive, ReadStartsAtOffset
<1>35. ASSUME NEW t \in Threads, ConnectReset(t) PROVE OffsetInv'
  BY <1>35 DEF ConnectReset, TypeOK, handles, Goto, ReturnWith, OffsetInv,
     BorrowInv, InExclusive, ReadStartsAtOffset
<1>36. ASSUME NEW t \in Threads, Dial(t) PROVE OffsetInv'
  BY <1>36 DEF Dial, TypeOK, handles, ReturnWith, Goto, OffsetInv, BorrowInv,
     InExclusive, ReadStartsAtOffset
<1>37. ASSUME NEW t \in Threads, DisconnectCheckActive(t) PROVE OffsetInv'
  BY <1>37 DEF DisconnectCheckActive, TypeOK, shared, handles, Goto,
     ReturnWith, OffsetInv, BorrowInv, InExclusive, ReadStartsAtOffset
<1>38. ASSUME NEW t \in Threads, HangUp(t) PROVE OffsetInv'
  BY <1>38 DEF HangUp, TypeOK, handles, Goto, ReturnWith, OffsetInv,
     BorrowInv, InExclusive, ReadStartsAtOffset
<1>39. ASSUME NEW t \in Threads, Quit(t) PROVE OffsetInv'
  BY <1>39 DEF Quit, TypeOK, handles, ReturnWith, MarkUnusableIf, Goto,
     OffsetInv, BorrowInv, InExclusive, ReadStartsAtOffset
<1>40. ASSUME NEW t \in Threads, Accessor(t) PROVE OffsetInv'
  BY <1>40 DEF Accessor, TypeOK, shared, handles, Goto, ReturnWith, OffsetInv,
     BorrowInv, InExclusive, ReadStartsAtOffset
<1>41. ASSUME NEW t \in Threads, RawCommands(t) PROVE OffsetInv'
  BY <1>41 DEF RawCommands, TypeOK, shared, handles, ReturnWith, Goto,
     OffsetInv, BorrowInv, InExclusive, ReadStartsAtOffset
<1>42. ASSUME NEW h \in Handles, Read(h) PROVE OffsetInv'
  BY <1>42 DEF Read, TypeOK, shared, locals, AfterRead, AfterReading, Info,
     OffsetInv, ReadStartsAtOffset, ServedFrom
<1>43. ASSUME NEW h \in Handles, Finish(h) PROVE OffsetInv'
  BY <1>43 DEF Finish, TypeOK, shared, locals, OffsetInv, ReadStartsAtOffset,
     ServedFrom
<1>44. ASSUME NEW h \in Handles, Drain(h) PROVE OffsetInv'
  BY SMTT(30), <1>44, FaultyChannel DEF Drain, TypeOK, locals, Info, OffsetInv, LockInv,
     BorrowInv, ActiveInv, HandleInv, CleanInv, Clean, SawInactive, Alive,
     Holding, UnderLock, OwnsStream, InExclusive, ReadStartsAtOffset,
     ServedFrom
<1>45. ASSUME NEW h \in Handles, Finalize(h) PROVE OffsetInv'
  BY <1>45, CompletionAnswers DEF Finalize, TypeOK, locals, OffsetInv,
     CleanInv, Clean, ReadStartsAtOffset, ServedFrom
<1>46. ASSUME NEW h \in Handles, Invalidate(h) PROVE OffsetInv'
  BY <1>46 DEF Invalidate, TypeOK, locals, OffsetInv, ReadStartsAtOffset,
     ServedFrom
<1>47. ASSUME NEW h \in Handles, Release(h) PROVE OffsetInv'
  BY <1>47 DEF Release, TypeOK, locals, NoInfo, Info, OffsetInv, ActiveInv,
     HandleInv, SawInactive, Alive, Holding, UnderLock, InExclusive,
     ReadStartsAtOffset
<1>u. CASE UNCHANGED vars
  BY <1>u DEF vars, shared, locals, handles, OffsetInv, ReadStartsAtOffset,
     ServedFrom
<1> QED
  BY <1>1, <1>2, <1>3, <1>4, <1>5, <1>6, <1>7, <1>8, <1>9, <1>10, <1>11,
     <1>12, <1>13, <1>14, <1>15, <1>16, <1>17, <1>18, <1>19, <1>20, <1>21,
     <1>22, <1>23, <1>24, <1>25, <1>26, <1>27, <1>28, <1>29, <1>30, <1>31,
     <1>32, <1>33, <1>34, <1>35, <1>36, <1>37, <1>38, <1>39, <1>40, <1>41,
     <1>42, <1>43, <1>44, <1>45, <1>46, <1>47, <1>u
  DEF Next, ThreadStep, CleanupStep, CheckOperationState, DropExclusiveStream

(* The stream open() returns begins at the requested offset, whether the   *)
(* server resumed, refused to, or was asked again after REST 0.            *)
THEOREM OffsetsAreHonoured == Spec => []ReadStartsAtOffset
<1>1. Init => OffsetInv
  BY OffsetInvInit
<1>2. IInv /\ OffsetInv /\ [Next]_vars => OffsetInv'
  BY OffsetInvStep
<1>3. OffsetInv => ReadStartsAtOffset
  BY DEF OffsetInv
<1> QED
  BY <1>1, <1>2, <1>3, IInvCorrect, PTL DEF Spec

-----------------------------------------------------------------------------
(* Reasons.                                                                *)

(* A new client is usable.                                                 *)
LEMMA ReasonInvInit == Init => ReasonInv
BY DEF Init, ReasonInv, UnusableForAReason, Alive, NoInfo, Info

(* A step marks the connection unusable on account of an error whose cause *)
(* the channel remembers, or of a marker that reset_restart_marker could   *)
(* not take back; cleanup that fails has met a fault too.                  *)
LEMMA ReasonInvStep ==
    ASSUME IInv, OffsetInv, ReasonInv, [Next]_vars
    PROVE  ReasonInv'
<1> USE FtpFsAssumption DEF IInv
<1>1. ASSUME NEW t \in Threads, Begin(t) PROVE ReasonInv'
  BY <1>1 DEF Begin, TypeOK, ReasonInv, shared, handles, Goto, FirstStep,
     Alive, OwnsStream, UnusableForAReason, SessionExists
<1>2. ASSUME NEW t \in Threads, BeginExclusive(t) PROVE ReasonInv'
  BY <1>2 DEF BeginExclusive, TypeOK, ReasonInv, shared, handles, Goto,
     Exclusives, Alive, OwnsStream, UnusableForAReason, SessionExists
<1>3. ASSUME NEW t \in Threads, Return(t) PROVE ReasonInv'
  BY <1>3 DEF Return, TypeOK, ReasonInv, shared, handles, Goto, Alive,
     OwnsStream, UnusableForAReason, SessionExists
<1>4. ASSUME NEW t \in Threads, Lock(t) PROVE ReasonInv'
  BY <1>4 DEF Lock, TypeOK, ReasonInv, locals, handles, Goto, Alive,
     OwnsStream, UnusableForAReason, SessionExists
<1>5. ASSUME NEW t \in Threads, CheckActive(t) PROVE ReasonInv'
  BY <1>5 DEF CheckActive, TypeOK, ReasonInv, handles, Goto, Refuse,
     ReturnWith, Alive, OwnsStream, UnusableForAReason, SessionExists
<1>6. ASSUME NEW t \in Threads, CheckUsable(t) PROVE ReasonInv'
  BY <1>6 DEF CheckUsable, TypeOK, ReasonInv, handles, Goto, Refuse,
     ReturnWith, Alive, OwnsStream, UnusableForAReason, SessionExists
<1>7. ASSUME NEW t \in Threads, Take(t) PROVE ReasonInv'
  BY <1>7 DEF Take, TypeOK, ReasonInv, handles, Goto, Refuse, ReturnWith,
     Alive, OwnsStream, UnusableForAReason, SessionExists
<1>8. ASSUME NEW t \in Threads, SendCommand(t) PROVE ReasonInv'
  BY <1>8, CommandAnswers DEF SendCommand, TypeOK, ReasonInv, handles, Goto,
     Alive, OwnsStream, UnusableForAReason, SessionExists
<1>9. ASSUME NEW t \in Threads, SendStore(t) PROVE ReasonInv'
  BY <1>9, DataCommandAnswers DEF SendStore, TypeOK, ReasonInv, handles, Goto,
     MarkUnusableIf, BorrowInv, CleanInv, Clean, Alive, InExclusive,
     UnusableForAReason
<1>10. ASSUME NEW t \in Threads, RequestOffset(t) PROVE ReasonInv'
  BY <1>10, SetMarkerAnswers DEF RequestOffset, TypeOK, ReasonInv, handles,
     Goto, ActiveInv, HandleInv, CleanInv, Clean, SawInactive, UnderLock,
     UnusableForAReason
<1>11. ASSUME NEW t \in Threads, Retr(t) PROVE ReasonInv'
  BY <1>11, DataCommandAnswers DEF Retr, TypeOK, ReasonInv, handles, Goto,
     MarkUnusableIf, LockInv, BorrowInv, ActiveInv, HandleInv, CleanInv,
     SawInactive, UnderLock, InExclusive, UnusableForAReason, OffsetInv
<1>12. ASSUME NEW t \in Threads, ResetMarker(t) PROVE ReasonInv'
  BY <1>12, ClearMarkerAnswers DEF ResetMarker, TypeOK, ReasonInv, handles,
     Goto, LockInv, BorrowInv, Alive, UnderLock, InExclusive,
     UnusableForAReason
<1>13. ASSUME NEW t \in Threads, RetryRetr(t) PROVE ReasonInv'
  BY <1>13, DataCommandAnswers DEF RetryRetr, TypeOK, ReasonInv, handles,
     Goto, MarkUnusableIf, BorrowInv, ActiveInv, CleanInv, Clean, Alive,
     InExclusive, UnusableForAReason, SessionExists
<1>14. ASSUME NEW t \in Threads, StartTransfer(t) PROVE ReasonInv'
  BY <1>14 DEF StartTransfer, TypeOK, ReasonInv, Goto, Info, Alive,
     OwnsStream, UnusableForAReason, SessionExists
<1>15. ASSUME NEW t \in Threads, Record(t) PROVE ReasonInv'
  BY <1>15 DEF Record, TypeOK, ReasonInv, locals, handles, Goto,
     MarkUnusableIf, BorrowInv, Alive, OwnsStream, InExclusive,
     UnusableForAReason, SessionExists
<1>16. ASSUME NEW t \in Threads, Fail(t) PROVE ReasonInv'
  BY <1>16, FirstCause DEF Fail, TypeOK, ReasonInv, handles, Refuse,
     MarkUnusableIf, ReturnWith, Goto, BorrowInv, ActiveInv, CleanInv, Alive,
     InExclusive, UnusableForAReason, SessionExists
<1>17. ASSUME NEW t \in Threads, Unlock(t) PROVE ReasonInv'
  BY <1>17 DEF Unlock, TypeOK, ReasonInv, handles, Goto, ReturnWith, Alive,
     OwnsStream, UnusableForAReason, SessionExists
<1>18. ASSUME NEW t \in Threads, ReRecord(t) PROVE ReasonInv'
  BY <1>18 DEF ReRecord, TypeOK, ReasonInv, handles, Goto, ReturnWith,
     MarkUnusableIf, CleanInv, Alive, OwnsStream, UnusableForAReason,
     SessionExists
<1>19. ASSUME NEW t \in Threads, Classify(t) PROVE ReasonInv'
  BY <1>19 DEF Classify, TypeOK, ReasonInv, shared, handles, Goto, ReturnWith,
     Alive, OwnsStream, UnusableForAReason, SessionExists
<1>20. ASSUME NEW t \in Threads, Raise(t) PROVE ReasonInv'
  BY <1>20 DEF Raise, TypeOK, ReasonInv, locals, handles, Goto, ActiveInv,
     HandleInv, CleanInv, UnusableForAReason
<1>21. ASSUME NEW t \in Threads, ListCommand(t) PROVE ReasonInv'
  BY <1>21, DataCommandAnswers DEF ListCommand, TypeOK, ReasonInv, handles,
     Goto, MarkUnusableIf, ActiveInv, HandleInv, CleanInv, SawInactive,
     OwnsStream, UnusableForAReason
<1>22. ASSUME NEW t \in Threads, ListTransfer(t) PROVE ReasonInv'
  <2>1. PICK readFails \in BOOLEAN :
        \E a \in Completion(IF readFails THEN Faulty(chan) ELSE chan, readFails) :
           /\ chan' = a.chan
           /\ err' = [err EXCEPT ![t] = IF a.err = Success /\ readFails
                                        THEN "ConnectionError" ELSE a.err]
           /\ reconnect' = [reconnect EXCEPT ![t] = readFails \/ a.err # Success]
    BY <1>22 DEF ListTransfer
  <2> DEFINE c == IF readFails THEN Faulty(chan) ELSE chan
  <2>2. c \in Channel /\ (readFails \/ chan.fault => c.fault)
    BY FaultyChannel DEF TypeOK
  <2>3. PICK a \in Completion(c, readFails) :
           /\ chan' = a.chan
           /\ err' = [err EXCEPT ![t] = IF a.err = Success /\ readFails
                                        THEN "ConnectionError" ELSE a.err]
           /\ reconnect' = [reconnect EXCEPT ![t] = readFails \/ a.err # Success]
    BY <2>1
  <2> HIDE DEF c
  <2>4. readFails \/ chan.fault \/ a.err # Success => chan'.fault
    BY <2>2, <2>3, CompletionAnswers
  <2>5. chan'.marker = chan.marker
    BY <2>2, <2>3, CompletionAnswers, FaultyChannel DEF c, TypeOK
  <2>6. reconnect'[t] \/ TransferSetupRequiresReconnect(err'[t]) => chan'.fault
    BY <2>3, <2>4, SuccessIsNoError DEF TypeOK
  <2>7. /\ pc' = [pc EXCEPT ![t] = "list_record"]
        /\ \A u \in Threads \ {t} : /\ pc'[u] = pc[u]
                                    /\ err'[u] = err[u]
                                    /\ reconnect'[u] = reconnect[u]
    BY <1>22, <2>3 DEF ListTransfer, TypeOK, Goto
  <2>8. SessionExists' <=> SessionExists
    BY <1>22, <2>7 DEF ListTransfer, TypeOK, SessionExists, OwnsStream
  <2> QED
    BY <1>22, <2>4, <2>5, <2>6, <2>7, <2>8 DEF ListTransfer, ReasonInv,
       handles, TypeOK, UnusableForAReason, Alive
<1>23. ASSUME NEW t \in Threads, ListRecord(t) PROVE ReasonInv'
  BY <1>23, FirstCause DEF ListRecord, TypeOK, ReasonInv, locals, handles,
     Goto, MarkUnusableIf, BorrowInv, HandleInv, OwnsStream, InExclusive,
     UnusableForAReason, SessionExists
<1>24. ASSUME NEW t \in Threads, GiveBack(t) PROVE ReasonInv'
  BY <1>24 DEF GiveBack, TypeOK, ReasonInv, locals, handles, Goto, BorrowInv,
     HandleInv, OwnsStream, InExclusive, UnusableForAReason, SessionExists
<1>25. ASSUME NEW t \in Threads, Lower(t) PROVE ReasonInv'
  BY <1>25 DEF Lower, TypeOK, ReasonInv, handles, Goto, ReturnWith, ActiveInv,
     HandleInv, UnusableForAReason, SessionExists
<1>26. ASSUME NEW t \in Threads, SkipPrefix(t) PROVE ReasonInv'
  BY <1>26 DEF SkipPrefix, TypeOK, ReasonInv, shared, locals, Goto, Info,
     HandleInv, Alive, Holding, UnusableForAReason, SessionExists
<1>27. ASSUME NEW t \in Threads, SkipFails(t) PROVE ReasonInv'
  BY <1>27, FaultyChannel DEF SkipFails, TypeOK, ReasonInv, locals, Goto,
     Alive, UnusableForAReason
<1>28. ASSUME NEW t \in Threads, AwaitCleanup(t) PROVE ReasonInv'
  BY <1>28 DEF AwaitCleanup, TypeOK, ReasonInv, shared, handles, ReturnWith,
     Goto, Alive, OwnsStream, UnusableForAReason, SessionExists
<1>29. ASSUME NEW t \in Threads, Deliver(t) PROVE ReasonInv'
  BY <1>29 DEF Deliver, TypeOK, ReasonInv, shared, ReturnWith, Goto, Alive,
     OwnsStream, UnusableForAReason, SessionExists
<1>30. ASSUME NEW t \in Threads, ObserveUsable(t) PROVE ReasonInv'
  BY <1>30 DEF ObserveUsable, TypeOK, ReasonInv, shared, handles, Goto,
     ReturnWith, Alive, OwnsStream, UnusableForAReason, SessionExists
<1>31. ASSUME NEW t \in Threads, ObserveStream(t) PROVE ReasonInv'
  BY <1>31 DEF ObserveStream, TypeOK, ReasonInv, shared, handles, Goto,
     ReturnWith, Alive, OwnsStream, UnusableForAReason, SessionExists
<1>32. ASSUME NEW t \in Threads, ObserveActive(t) PROVE ReasonInv'
  BY <1>32 DEF ObserveActive, TypeOK, ReasonInv, shared, handles, ReturnWith,
     Goto, Alive, OwnsStream, UnusableForAReason, SessionExists
<1>33. ASSUME NEW t \in Threads, WelcomeMessage(t) PROVE ReasonInv'
  BY <1>33 DEF WelcomeMessage, TypeOK, ReasonInv, shared, handles, ReturnWith,
     Goto, Alive, OwnsStream, UnusableForAReason, SessionExists
<1>34. ASSUME NEW t \in Threads, ConnectCheckActive(t) PROVE ReasonInv'
  BY <1>34 DEF ConnectCheckActive, TypeOK, ReasonInv, shared, handles, Goto,
     ReturnWith, Alive, OwnsStream, UnusableForAReason, SessionExists
<1>35. ASSUME NEW t \in Threads, ConnectReset(t) PROVE ReasonInv'
  BY <1>35, FreshChannel DEF ConnectReset, TypeOK, ReasonInv, handles, Goto,
     ReturnWith, BorrowInv, ActiveInv, HandleInv, SawInactive, Alive,
     InExclusive, UnusableForAReason
<1>36. ASSUME NEW t \in Threads, Dial(t) PROVE ReasonInv'
  BY <1>36, FreshChannel DEF Dial, TypeOK, ReasonInv, handles, ReturnWith,
     Goto, BorrowInv, ActiveInv, HandleInv, SawInactive, Alive, InExclusive,
     UnusableForAReason
<1>37. ASSUME NEW t \in Threads, DisconnectCheckActive(t) PROVE ReasonInv'
  BY <1>37 DEF DisconnectCheckActive, TypeOK, ReasonInv, shared, handles,
     Goto, ReturnWith, Alive, OwnsStream, UnusableForAReason, SessionExists
<1>38. ASSUME NEW t \in Threads, HangUp(t) PROVE ReasonInv'
  BY <1>38, FreshChannel DEF HangUp, TypeOK, ReasonInv, handles, Goto,
     ReturnWith, BorrowInv, ActiveInv, HandleInv, SawInactive, Alive,
     OwnsStream, InExclusive, UnusableForAReason, SessionExists
<1>39. ASSUME NEW t \in Threads, Quit(t) PROVE ReasonInv'
  BY <1>39, FreshChannel DEF Quit, TypeOK, ReasonInv, handles, ReturnWith,
     MarkUnusableIf, Goto, BorrowInv, HandleInv, Alive, OwnsStream,
     InExclusive, UnusableForAReason, SessionExists
<1>40. ASSUME NEW t \in Threads, Accessor(t) PROVE ReasonInv'
  BY <1>40 DEF Accessor, TypeOK, ReasonInv, shared, handles, Goto, ReturnWith,
     Alive, OwnsStream, UnusableForAReason, SessionExists
<1>41. ASSUME NEW t \in Threads, RawCommands(t) PROVE ReasonInv'
  BY <1>41 DEF RawCommands, TypeOK, ReasonInv, shared, handles, ReturnWith,
     Goto, Alive, OwnsStream, UnusableForAReason, SessionExists
<1>42. ASSUME NEW h \in Handles, Read(h) PROVE ReasonInv'
  BY <1>42, EofIsEmpty DEF Read, TypeOK, ReasonInv, shared, locals, AfterRead,
     AfterReading, Info, Alive, UnusableForAReason, SessionExists
<1>43. ASSUME NEW h \in Handles, Finish(h) PROVE ReasonInv'
  BY <1>43 DEF Finish, TypeOK, ReasonInv, shared, locals, Alive,
     UnusableForAReason, SessionExists
<1>44. ASSUME NEW h \in Handles, Drain(h) PROVE ReasonInv'
  BY <1>44, FaultyChannel DEF Drain, TypeOK, ReasonInv, locals, Info, Alive,
     UnusableForAReason, SessionExists
<1>45. ASSUME NEW h \in Handles, Finalize(h) PROVE ReasonInv'
  <2>1. PICK a \in Completion(chan, hinfo[h].tail > 0) :
           /\ chan' = a.chan
           /\ hfail' = [hfail EXCEPT ![h] = @ \/ a.err # Success]
           /\ hstate' = [hstate EXCEPT ![h] =
                 IF hfail[h] \/ a.err # Success THEN "invalidate" ELSE "release"]
    BY <1>45 DEF Finalize
  <2>2. chan \in Channel /\ (hinfo[h].tail > 0) \in BOOLEAN
    BY DEF TypeOK
  <2>3. /\ chan.fault \/ a.err # Success => chan'.fault
        /\ chan'.marker = chan.marker
    BY <1>45, <2>1, <2>2, CompletionAnswers DEF Finalize, ReasonInv
  <2> QED
    BY <1>45, <2>1, <2>3 DEF Finalize, TypeOK, ReasonInv, locals,
       UnusableForAReason, SessionExists, Alive
<1>46. ASSUME NEW h \in Handles, Invalidate(h) PROVE ReasonInv'
  BY <1>46 DEF Invalidate, TypeOK, ReasonInv, locals, ActiveInv, HandleInv,
     SawInactive, Alive, UnusableForAReason
<1>47. ASSUME NEW h \in Handles, Release(h) PROVE ReasonInv'
  BY <1>47 DEF Release, TypeOK, ReasonInv, locals, NoInfo, Info, Alive,
     UnusableForAReason, SessionExists
<1>u. CASE UNCHANGED vars
  BY <1>u DEF ReasonInv, vars, shared, locals, handles, UnusableForAReason,
     SessionExists, Alive
<1> QED
  BY <1>1, <1>2, <1>3, <1>4, <1>5, <1>6, <1>7, <1>8, <1>9, <1>10, <1>11,
     <1>12, <1>13, <1>14, <1>15, <1>16, <1>17, <1>18, <1>19, <1>20, <1>21,
     <1>22, <1>23, <1>24, <1>25, <1>26, <1>27, <1>28, <1>29, <1>30, <1>31,
     <1>32, <1>33, <1>34, <1>35, <1>36, <1>37, <1>38, <1>39, <1>40, <1>41,
     <1>42, <1>43, <1>44, <1>45, <1>46, <1>47, <1>u
  DEF Next, ThreadStep, CleanupStep, CheckOperationState, DropExclusiveStream

(* The client gives a connection up only for a reason: something failed on *)
(* it, or a restart marker could not be cleared.  Refusals, partly read    *)
(* downloads and exhausted byte budgets cost nobody the session.           *)
THEOREM NothingIsGivenUpLightly == Spec => []UnusableForAReason
<1>1. Init => OffsetInv /\ ReasonInv
  BY OffsetInvInit, ReasonInvInit
<1>2. IInv /\ OffsetInv /\ [Next]_vars => OffsetInv'
  BY OffsetInvStep
<1>3. IInv /\ OffsetInv /\ ReasonInv /\ [Next]_vars => ReasonInv'
  BY ReasonInvStep
<1>4. ReasonInv => UnusableForAReason
  BY DEF ReasonInv
<1> QED
  BY <1>1, <1>2, <1>3, <1>4, IInvCorrect, PTL DEF Spec

-----------------------------------------------------------------------------
(* What connect() leaves behind.                                           *)

(* The session a successful connect() hands to its caller.                 *)
Dialled(t) ==
    pc[t] \in {"connect", "connect_reset", "dial"} /\ pc'[t] = "return"
    /\ res'[t] \in {"ok", "AlreadyConnected"}

(* While connect() runs nobody else is in a call, so nobody may know of    *)
(* damage that is not in the flag yet; the streams are the exception, and  *)
(* connect() looked at transfer_active first.                              *)
LEMMA ConnectFindsItClean ==
    ASSUME IInv, NEW t \in Threads, pc[t] \in {"connect_reset", "dial"}
    PROVE  ~transfer_active /\ (chan.synced \/ ~connection_usable)
<1> USE DEF IInv
<1>1. ~transfer_active
  BY DEF ActiveInv, SawInactive
<1>2. \A u \in Threads : pc[u] \in {"idle", "connect_reset", "dial"}
  BY DEF BorrowInv, InExclusive
<1>3. ~Excused
  BY <1>1, <1>2 DEF Excused, HandleInv, Alive
<1> QED
  BY <1>1, <1>3 DEF CleanInv, Clean

(* A step of somebody else leaves connect() where it is, and of connect()'s*)
(* own steps only the reset and the dial end in such an answer.            *)
LEMMA OnlyTheseConnect ==
    ASSUME IInv, [Next]_vars, NEW t \in Threads, Dialled(t)
    PROVE  ConnectReset(t) \/ Dial(t)
<1> USE DEF IInv, Dialled
<1>1. pc'[t] # pc[t]
  OBVIOUS
<1>2. ~UNCHANGED vars
  BY <1>1 DEF vars
<1>3. ASSUME NEW h \in Handles, Read(h) \/ Finish(h) \/ CleanupStep(h)
      PROVE  pc' = pc
  BY <1>3 DEF Read, Finish, CleanupStep, Drain, Finalize, Invalidate, Release
<1>4. PICK u \in Threads : Begin(u) \/ BeginExclusive(u) \/ ThreadStep(u)
  BY <1>1, <1>2, <1>3 DEF Next
<1>5. \A v \in Threads : v # t => pc[v] = "idle"
  BY DEF BorrowInv, InExclusive
<1>6. ASSUME Begin(u) \/ BeginExclusive(u)
      PROVE  FALSE
  BY <1>5, <1>6 DEF Begin, BeginExclusive, InExclusive
<1>7. pc[u] # "idle"
  BY <1>4, <1>6 DEF ThreadStep, CheckOperationState, DropExclusiveStream, Return, Lock,
     CheckActive, CheckUsable, Take, SendCommand, SendStore, RequestOffset, Retr,
     ResetMarker, RetryRetr, StartTransfer, Record, Fail, Unlock, ReRecord, Classify,
     Raise, ListCommand, ListTransfer, ListRecord, GiveBack, Lower, SkipPrefix,
     SkipFails, AwaitCleanup, Deliver, ObserveUsable, ObserveStream, ObserveActive,
     WelcomeMessage, ConnectCheckActive, ConnectReset, Dial, DisconnectCheckActive,
     HangUp, Quit, Accessor, RawCommands
<1>8. u = t
  BY <1>5, <1>7
<1>9. ConnectCheckActive(t) \/ ConnectReset(t) \/ Dial(t)
  BY <1>4, <1>6, <1>8 DEF ThreadStep, CheckOperationState, DropExclusiveStream, Return,
     Lock, CheckActive, CheckUsable, Take, SendCommand, SendStore, RequestOffset, Retr,
     ResetMarker, RetryRetr, StartTransfer, Record, Fail, Unlock, ReRecord, Classify,
     Raise, ListCommand, ListTransfer, ListRecord, GiveBack, Lower, SkipPrefix,
     SkipFails, AwaitCleanup, Deliver, ObserveUsable, ObserveStream, ObserveActive,
     WelcomeMessage, DisconnectCheckActive, HangUp, Quit, Accessor, RawCommands
<1>10. ~ConnectCheckActive(t)
  BY DEF ConnectCheckActive, ReturnWith, Goto, TypeOK
<1> QED
  BY <1>9, <1>10

(* The reset answers AlreadyConnected over a session nobody damaged; the   *)
(* dial puts a fresh one in its place, with the flag the reset raised.     *)
LEMMA ConnectLeavesStep ==
    ASSUME IInv, ReasonInv, [Next]_vars, NEW t \in Threads, Dialled(t)
    PROVE  stream' /\ connection_usable' /\ ~transfer_active' /\ chan'.synced
<1> USE DEF IInv, Dialled
<1>1. CASE ConnectReset(t)
  <2>1. /\ connection_usable /\ stream /\ transfer_active' = transfer_active
        /\ stream' = stream /\ connection_usable' = connection_usable /\ chan' = chan
    BY <1>1 DEF ConnectReset, Goto, TypeOK
  <2>2. ~transfer_active /\ (chan.synced \/ ~connection_usable)
    BY <1>1, ConnectFindsItClean DEF ConnectReset
  <2> QED
    BY <2>1, <2>2
<1>2. CASE Dial(t)
  <2>1. /\ stream' = TRUE /\ chan' = Fresh /\ connection_usable' = connection_usable
        /\ transfer_active' = transfer_active
    BY <1>2 DEF Dial, ReturnWith, TypeOK
  <2>2. ~transfer_active /\ connection_usable
    BY <1>2, ConnectFindsItClean DEF Dial, ReasonInv
  <2> QED
    BY <2>1, <2>2 DEF Fresh, ChannelState
<1> QED
  BY <1>1, <1>2, OnlyTheseConnect

(* Whatever an earlier QUIT, cleanup or failed dial left in the flag and in*)
(* the Option, a connect() that reports success, or AlreadyConnected,      *)
(* leaves its caller a session the next operation can use.                 *)
THEOREM ConnectLeavesASession == Spec => ConnectLeavesItUsable
<1>1. Init => OffsetInv /\ ReasonInv
  BY OffsetInvInit, ReasonInvInit
<1>2. IInv /\ OffsetInv /\ [Next]_vars => OffsetInv'
  BY OffsetInvStep
<1>3. IInv /\ OffsetInv /\ ReasonInv /\ [Next]_vars => ReasonInv'
  BY ReasonInvStep
<1>4. IInv /\ ReasonInv /\ [Next]_vars =>
        [\A t \in Threads :
            pc[t] \in {"connect", "connect_reset", "dial"}
            /\ pc'[t] = "return" /\ res'[t] \in {"ok", "AlreadyConnected"}
            => stream' /\ connection_usable' /\ ~transfer_active' /\ chan'.synced]_vars
  BY ConnectLeavesStep DEF Dialled
<1> QED
  BY <1>1, <1>2, <1>3, <1>4, IInvCorrect, PTL DEF Spec, ConnectLeavesItUsable

-----------------------------------------------------------------------------
(* FtpFs implements ManagedControl: every step of a thread, of a transfer  *)
(* stream or of a cleanup is, under the mapping of FtpFsManaged, one step  *)
(* of the abstract client or none.                                         *)

(* What a step needs to know besides IInv: connect() dials on a usable      *)
(* client without a stream, QUIT is sent on a stream already given up, and  *)
(* a command that made no transfer stream leaves transfer_active down.      *)
SessionInv ==
    /\ \A t \in Threads : pc[t] = "dial" => ~stream /\ connection_usable
    /\ \A t \in Threads : pc[t] = "quit" => ~stream
    /\ \A t \in Threads : pc[t] = "unlock" /\ held[t] = NoHandle => ~transfer_active

-----------------------------------------------------------------------------
(* A thread that has the connection, and one that carries the stream.       *)
Using(t) == pc[t] \in InCall \ {"quit"} /\ held[t] = NoHandle

Carrying(t) == pc[t] \in OwnsStream \cup {"raise"}

ManagedStep == [Managed!Next]_(Managed!mcvars)

(* What the abstract client sees of a state is determined by who uses the   *)
(* connection, whether there is a session, and its two verdicts.            *)
LEMMA StutterBridge ==
    ASSUME SessionExists' <=> SessionExists,
           ConnectionUsers' = ConnectionUsers,
           SessionExists => (Clean' <=> Clean),
           SessionExists => (connection_usable' <=> connection_usable)
    PROVE  ManagedStep
BY DEF ManagedStep, Managed!mcvars, Clean

(* The owner of the connection may spoil it and may say so; what was said  *)
(* stays said.                                                             *)
LEMMA UseBridge ==
    ASSUME NEW a \in Threads \cup Handles,
           ConnectionUsers = {a}, ConnectionUsers' = {a},
           SessionExists' <=> SessionExists,
           connection_usable' => connection_usable
    PROVE  ManagedStep
<1>1. Managed!Use(a)
  BY DEF Managed!Use
<1> QED
  BY <1>1 DEF ManagedStep, Managed!Next

(* The owner may let go of a connection that is clean or said not to be.   *)
LEMMA ReleaseBridge ==
    ASSUME NEW a \in Threads \cup Handles,
           ConnectionUsers = {a}, ConnectionUsers' = {},
           SessionExists' <=> SessionExists,
           connection_usable' => connection_usable,
           chan' = chan,
           Clean \/ ~connection_usable'
    PROVE  ManagedStep
<1>1. Managed!Release(a)
  BY DEF Managed!Release, Clean
<1> QED
  BY <1>1 DEF ManagedStep, Managed!Next

(* A free connection that is clean and usable may be taken.                *)
LEMMA AcquireBridge ==
    ASSUME NEW a \in Threads \cup Handles,
           ConnectionUsers = {}, ConnectionUsers' = {a},
           SessionExists, SessionExists',
           Clean, connection_usable,
           chan' = chan, connection_usable' = connection_usable
    PROVE  ManagedStep
<1>1. Managed!Acquire(a)
  BY DEF Managed!Acquire, Managed!Free, Clean
<1> QED
  BY <1>1 DEF ManagedStep, Managed!Next

(* The call that has the connection gives it to its transfer stream.       *)
LEMMA HandOverBridge ==
    ASSUME NEW a \in Threads \cup Handles, NEW b \in Threads \cup Handles,
           ConnectionUsers = {a}, ConnectionUsers' = {b},
           SessionExists' <=> SessionExists,
           Clean,
           chan' = chan, connection_usable' = connection_usable
    PROVE  ManagedStep
<1>1. Managed!HandOver(a, b)
  BY DEF Managed!HandOver, Clean
<1> QED
  BY <1>1 DEF ManagedStep, Managed!Next

(* A new session begins clean, and is marked by nobody.                    *)
LEMMA ConnectBridge ==
    ASSUME ~SessionExists, SessionExists',
           ConnectionUsers' = ConnectionUsers,
           Clean', connection_usable'
    PROVE  ManagedStep
<1>1. Managed!Connect
  BY DEF Managed!Connect, Clean
<1> QED
  BY <1>1 DEF ManagedStep, Managed!Next

(* A session nobody uses may end, whatever had become of it.               *)
LEMMA HangUpBridge ==
    ASSUME SessionExists, ~SessionExists',
           ConnectionUsers = {}, ConnectionUsers' = {}
    PROVE  ManagedStep
<1>1. Managed!HangUp
  BY DEF Managed!HangUp, Managed!Free
<1> QED
  BY <1>1 DEF ManagedStep, Managed!Next

-----------------------------------------------------------------------------
(* Who uses the connection, before and after a step.                        *)

(* A connection is free when no thread is in a call and no stream alive.   *)
LEMMA NoUsers ==
    ASSUME \A u \in Threads : ~Using(u),
           \A h \in Handles : ~Alive(h)
    PROVE  ConnectionUsers = {}
BY DEF ConnectionUsers, Using

(* A thread that alone is in a call is the one user.                       *)
LEMMA OneThread ==
    ASSUME NEW t \in Threads, Using(t),
           \A u \in Threads \ {t} : ~Using(u),
           \A h \in Handles : ~Alive(h)
    PROVE  ConnectionUsers = {t}
BY DEF ConnectionUsers, Using

(* So is a transfer stream that alone is alive.                            *)
LEMMA OneHandle ==
    ASSUME NEW h \in Handles, Alive(h),
           \A u \in Threads : ~Using(u),
           \A k \in Handles \ {h} : ~Alive(k)
    PROVE  ConnectionUsers = {h}
BY DEF ConnectionUsers, Using

(* A thread that has passed check_operation_state, or that has the mutex to *)
(* let go of, is the only user; nor does anybody carry the stream.          *)
LEMMA ThreadIsAlone ==
    ASSUME IInv, SessionInv, NEW t \in Threads,
           \/ Using(t)
           \/ pc[t] \in {"take", "connect_reset", "dial", "hang_up", "quit"}
    PROVE  /\ \A u \in Threads \ {t} : ~Using(u) /\ ~Carrying(u)
           /\ \A h \in Handles : ~Alive(h)
<1> USE DEF IInv
<1>1. ASSUME NEW u \in Threads \ {t} PROVE ~Using(u) /\ ~Carrying(u)
  BY <1>1 DEF Using, Carrying, InCall, InExchange, BeginsExchange, SessionInv,
     LockInv, BorrowInv, ActiveInv, UnderLock, OwnsStream, InExclusive, SawInactive
<1>2. ~transfer_active \/ pc[t] \in OwnsStream
  BY DEF Using, InCall, InExchange, BeginsExchange, SessionInv,
     ActiveInv, UnderLock, OwnsStream, SawInactive
<1> QED
  BY <1>1, <1>2 DEF HandleInv

(* So is a transfer stream.                                                 *)
LEMMA HandleIsAlone ==
    ASSUME IInv, SessionInv, NEW h \in Handles, Alive(h)
    PROVE  /\ ConnectionUsers = {h}
           /\ \A u \in Threads : ~Using(u) /\ ~Carrying(u)
           /\ \A k \in Handles \ {h} : ~Alive(k)
<1> USE DEF IInv
<1>1. transfer_active /\ stream /\ \A k \in Handles \ {h} : ~Alive(k)
  BY DEF HandleInv
<1>2. ASSUME NEW u \in Threads PROVE ~Using(u) /\ ~Carrying(u)
  BY <1>1 DEF Using, Carrying, InCall, InExchange, BeginsExchange, SessionInv,
     HandleInv, ActiveInv, UnderLock, OwnsStream, SawInactive
<1> QED
  BY <1>1, <1>2, OneHandle

(* A step of one thread that moves nobody else.                             *)
LEMMA OthersStay ==
    ASSUME TypeOK, NEW t \in Threads, NEW label,
           pc' = [pc EXCEPT ![t] = label],
           \A u \in Threads \ {t} : held'[u] = held[u]
    PROVE  /\ \A u \in Threads \ {t} : (Using(u)' <=> Using(u)) /\ (Carrying(u)' <=> Carrying(u))
           /\ Using(t)' <=> label \in InCall \ {"quit"} /\ held'[t] = NoHandle
           /\ Carrying(t)' <=> label \in OwnsStream \cup {"raise"}
BY DEF TypeOK, Using, Carrying

(* There is a session while the stream is in its place or carried by LIST. *)
LEMMA SessionByCarrying ==
    /\ SessionExists <=> stream \/ \E t \in Threads : Carrying(t)
    /\ SessionExists' <=> stream' \/ \E t \in Threads : Carrying(t)'
BY DEF SessionExists, Carrying

(* A step outside the use of the connection, on the way to it or after it.  *)
LEMMA OutsideStep ==
    ASSUME TypeOK, NEW t \in Threads, NEW label,
           ~Using(t), ~Carrying(t), label \notin InCall \ {"quit"},
           pc' = [pc EXCEPT ![t] = label],
           \A u \in Threads \ {t} : held'[u] = held[u],
           \A h \in Handles : Alive(h)' <=> Alive(h),
           stream' = stream, chan' = chan,
           connection_usable' = connection_usable
    PROVE  ManagedStep
<1>1. ~Using(t)' /\ ~Carrying(t)'
  BY OthersStay DEF InCall, InExchange, BeginsExchange, OwnsStream
<1>2. \A u \in Threads : (Using(u)' <=> Using(u)) /\ (Carrying(u)' <=> Carrying(u))
  BY <1>1, OthersStay
<1>3. ConnectionUsers' = ConnectionUsers
  BY <1>2 DEF ConnectionUsers, Using
<1>4. SessionExists' <=> SessionExists
  BY <1>2, SessionByCarrying
<1> QED
  BY <1>3, <1>4, StutterBridge DEF Clean

(* A step of the thread that uses the connection, and goes on using it.     *)
LEMMA InsideStep ==
    ASSUME IInv, SessionInv, NEW t \in Threads, NEW label,
           Using(t), label \in InCall \ {"quit"},
           pc[t] \in OwnsStream \cup {"raise"} <=> label \in OwnsStream \cup {"raise"},
           pc' = [pc EXCEPT ![t] = label],
           held' = held, hstate' = hstate, stream' = stream,
           connection_usable' => connection_usable
    PROVE  ManagedStep
<1>0. TypeOK
  BY DEF IInv
<1>1. Using(t)' /\ (Carrying(t)' <=> Carrying(t))
  BY <1>0, OthersStay DEF Using, Carrying
<1>2. \A u \in Threads : (Using(u)' <=> Using(u)) /\ (Carrying(u)' <=> Carrying(u))
  BY <1>0, <1>1, OthersStay
<1>3. ConnectionUsers = {t}
  BY ThreadIsAlone, OneThread
<1>4. ConnectionUsers' = ConnectionUsers
  BY <1>2 DEF ConnectionUsers, Using, Alive
<1>5. SessionExists' <=> SessionExists
  BY <1>2, SessionByCarrying
<1> QED
  BY <1>3, <1>4, <1>5, UseBridge

(* The thread that uses the connection lets go of it, the stream in place.  *)
LEMMA LeaveStep ==
    ASSUME IInv, SessionInv, NEW t \in Threads, NEW label,
           Using(t), label \notin InCall \ {"quit"},
           pc' = [pc EXCEPT ![t] = label],
           held' = held, hstate' = hstate,
           (stream' = stream /\ ~Carrying(t)) \/ (stream' /\ SessionExists),
           chan' = chan,
           connection_usable' => connection_usable,
           Clean \/ ~connection_usable'
    PROVE  ManagedStep
<1>0. TypeOK
  BY DEF IInv
<1>1. ~Using(t)'
  BY <1>0, OthersStay
<1>2. \A u \in Threads : ~Using(u)'
  BY <1>0, <1>1, OthersStay, ThreadIsAlone
<1>3. ConnectionUsers = {t}
  BY ThreadIsAlone, OneThread
<1>4. ConnectionUsers' = {}
  BY <1>2, ThreadIsAlone DEF ConnectionUsers, Using, Alive
<1>5. SessionExists' <=> SessionExists
  BY <1>0, OthersStay, SessionByCarrying DEF OwnsStream, InCall, InExchange, BeginsExchange
<1> QED
  BY <1>3, <1>4, <1>5, ReleaseBridge

(* A cleanup step, or a failed skip, of the transfer stream that has the    *)
(* connection.                                                              *)
LEMMA HandleStep ==
    ASSUME IInv, SessionInv, NEW h \in Handles, Alive(h),
           \A u \in Threads : (Using(u)' <=> Using(u)) /\ (Carrying(u)' <=> Carrying(u)),
           \A k \in Handles : Alive(k)' <=> Alive(k),
           stream' = stream,
           connection_usable' => connection_usable
    PROVE  ManagedStep
<1>1. ConnectionUsers = {h}
  BY HandleIsAlone
<1>2. ConnectionUsers' = ConnectionUsers
  BY DEF ConnectionUsers, Using
<1>3. SessionExists' <=> SessionExists
  BY SessionByCarrying
<1> QED
  BY <1>1, <1>2, <1>3, UseBridge

-----------------------------------------------------------------------------
(* The borrow checker keeps dialling and hanging up from every other call, *)
(* and a handle keeps transfer_active up.                                   *)
LEMMA SessionInvStep ==
    ASSUME IInv, SessionInv, [Next]_vars
    PROVE  SessionInv'
<1> USE FtpFsAssumption DEF IInv
<1>1. ASSUME NEW t \in Threads, Begin(t) PROVE SessionInv'
  BY <1>1 DEF Begin, SessionInv, shared, Goto, FirstStep
<1>2. ASSUME NEW t \in Threads, BeginExclusive(t) PROVE SessionInv'
  BY <1>2 DEF BeginExclusive, SessionInv, Goto, Exclusives
<1>3. ASSUME NEW t \in Threads, Return(t) PROVE SessionInv'
  BY <1>3 DEF Return, SessionInv, shared, Goto
<1>4. ASSUME NEW t \in Threads, Lock(t) PROVE SessionInv'
  BY <1>4 DEF Lock, SessionInv, locals, Goto
<1>5. ASSUME NEW t \in Threads, CheckActive(t) PROVE SessionInv'
  BY <1>5 DEF CheckActive, TypeOK, SessionInv, Goto, Refuse, ReturnWith
<1>6. ASSUME NEW t \in Threads, CheckUsable(t) PROVE SessionInv'
  BY <1>6 DEF CheckUsable, TypeOK, SessionInv, Goto, Refuse, ReturnWith
<1>7. ASSUME NEW t \in Threads, Take(t) PROVE SessionInv'
  BY <1>7 DEF Take, TypeOK, SessionInv, Goto, Refuse, ReturnWith
<1>8. ASSUME NEW t \in Threads, SendCommand(t) PROVE SessionInv'
  BY <1>8 DEF SendCommand, SessionInv, Goto, ActiveInv, SawInactive,
     UnderLock
<1>9. ASSUME NEW t \in Threads, SendStore(t) PROVE SessionInv'
  BY <1>9 DEF SendStore, SessionInv, Goto, ActiveInv
<1>10. ASSUME NEW t \in Threads, RequestOffset(t) PROVE SessionInv'
  BY <1>10 DEF RequestOffset, TypeOK, SessionInv, Goto
<1>11. ASSUME NEW t \in Threads, Retr(t) PROVE SessionInv'
  BY <1>11 DEF Retr, SessionInv, Goto, ActiveInv
<1>12. ASSUME NEW t \in Threads, ResetMarker(t) PROVE SessionInv'
  BY <1>12 DEF ResetMarker, TypeOK, SessionInv, Goto, ActiveInv
<1>13. ASSUME NEW t \in Threads, RetryRetr(t) PROVE SessionInv'
  BY <1>13 DEF RetryRetr, SessionInv, Goto, ActiveInv
<1>14. ASSUME NEW t \in Threads, StartTransfer(t) PROVE SessionInv'
  BY <1>14 DEF StartTransfer, TypeOK, SessionInv, Goto, LockInv, UnderLock
<1>15. ASSUME NEW t \in Threads, Record(t) PROVE SessionInv'
  BY <1>15 DEF Record, SessionInv, Goto, ActiveInv, SawInactive, UnderLock
<1>16. ASSUME NEW t \in Threads, Fail(t) PROVE SessionInv'
  BY <1>16 DEF Fail, SessionInv, Refuse, ReturnWith, Goto, ActiveInv
<1>17. ASSUME NEW t \in Threads, Unlock(t) PROVE SessionInv'
  BY <1>17 DEF Unlock, TypeOK, SessionInv, Goto, ReturnWith
<1>18. ASSUME NEW t \in Threads, ReRecord(t) PROVE SessionInv'
  BY <1>18 DEF ReRecord, TypeOK, SessionInv, Goto, ReturnWith, BorrowInv,
     InExclusive
<1>19. ASSUME NEW t \in Threads, Classify(t) PROVE SessionInv'
  BY <1>19 DEF Classify, TypeOK, SessionInv, shared, Goto, ReturnWith
<1>20. ASSUME NEW t \in Threads, Raise(t) PROVE SessionInv'
  BY <1>20 DEF Raise, SessionInv, Goto, LockInv, UnderLock
<1>21. ASSUME NEW t \in Threads, ListCommand(t) PROVE SessionInv'
  BY <1>21 DEF ListCommand, TypeOK, SessionInv, Goto, ActiveInv,
     SawInactive, OwnsStream
<1>22. ASSUME NEW t \in Threads, ListTransfer(t) PROVE SessionInv'
  BY <1>22 DEF ListTransfer, SessionInv, Goto
<1>23. ASSUME NEW t \in Threads, ListRecord(t) PROVE SessionInv'
  BY <1>23 DEF ListRecord, SessionInv, locals, Goto, ActiveInv, SawInactive,
     OwnsStream
<1>24. ASSUME NEW t \in Threads, GiveBack(t) PROVE SessionInv'
  BY <1>24 DEF GiveBack, SessionInv, locals, Goto, ActiveInv, SawInactive,
     OwnsStream
<1>25. ASSUME NEW t \in Threads, Lower(t) PROVE SessionInv'
  BY <1>25 DEF Lower, TypeOK, SessionInv, Goto, ReturnWith
<1>26. ASSUME NEW t \in Threads, SkipPrefix(t) PROVE SessionInv'
  BY <1>26 DEF SkipPrefix, SessionInv, shared, locals, Goto
<1>27. ASSUME NEW t \in Threads, SkipFails(t) PROVE SessionInv'
  BY <1>27 DEF SkipFails, SessionInv, locals, Goto
<1>28. ASSUME NEW t \in Threads, AwaitCleanup(t) PROVE SessionInv'
  BY <1>28 DEF AwaitCleanup, SessionInv, shared, ReturnWith, Goto
<1>29. ASSUME NEW t \in Threads, Deliver(t) PROVE SessionInv'
  BY <1>29 DEF Deliver, SessionInv, shared, ReturnWith, Goto
<1>30. ASSUME NEW t \in Threads, ObserveUsable(t) PROVE SessionInv'
  BY <1>30 DEF ObserveUsable, TypeOK, SessionInv, shared, Goto, ReturnWith
<1>31. ASSUME NEW t \in Threads, ObserveStream(t) PROVE SessionInv'
  BY <1>31 DEF ObserveStream, TypeOK, SessionInv, shared, Goto, ReturnWith
<1>32. ASSUME NEW t \in Threads, ObserveActive(t) PROVE SessionInv'
  BY <1>32 DEF ObserveActive, SessionInv, shared, ReturnWith, Goto
<1>33. ASSUME NEW t \in Threads, WelcomeMessage(t) PROVE SessionInv'
  BY <1>33 DEF WelcomeMessage, SessionInv, shared, ReturnWith, Goto
<1>34. ASSUME NEW t \in Threads, ConnectCheckActive(t) PROVE SessionInv'
  BY <1>34 DEF ConnectCheckActive, TypeOK, SessionInv, shared, Goto,
     ReturnWith
<1>35. ASSUME NEW t \in Threads, ConnectReset(t) PROVE SessionInv'
  BY <1>35 DEF ConnectReset, TypeOK, SessionInv, Goto, ReturnWith
<1>36. ASSUME NEW t \in Threads, Dial(t) PROVE SessionInv'
  BY <1>36 DEF Dial, TypeOK, SessionInv, ReturnWith, Goto, BorrowInv,
     InExclusive
<1>37. ASSUME NEW t \in Threads, DisconnectCheckActive(t) PROVE SessionInv'
  BY <1>37 DEF DisconnectCheckActive, TypeOK, SessionInv, shared, Goto,
     ReturnWith
<1>38. ASSUME NEW t \in Threads, HangUp(t) PROVE SessionInv'
  BY <1>38 DEF HangUp, TypeOK, SessionInv, Goto, ReturnWith
<1>39. ASSUME NEW t \in Threads, Quit(t) PROVE SessionInv'
  BY <1>39 DEF Quit, SessionInv, ReturnWith, Goto, BorrowInv, InExclusive
<1>40. ASSUME NEW t \in Threads, Accessor(t) PROVE SessionInv'
  BY <1>40 DEF Accessor, TypeOK, SessionInv, shared, Goto, ReturnWith
<1>41. ASSUME NEW t \in Threads, RawCommands(t) PROVE SessionInv'
  BY <1>41 DEF RawCommands, SessionInv, shared, ReturnWith, Goto
<1>42. ASSUME NEW h \in Handles, Read(h) PROVE SessionInv'
  BY <1>42 DEF Read, SessionInv, shared, locals
<1>43. ASSUME NEW h \in Handles, Finish(h) PROVE SessionInv'
  BY <1>43 DEF Finish, SessionInv, shared, locals
<1>44. ASSUME NEW h \in Handles, Drain(h) PROVE SessionInv'
  BY <1>44 DEF Drain, SessionInv, locals
<1>45. ASSUME NEW h \in Handles, Finalize(h) PROVE SessionInv'
  BY <1>45 DEF Finalize, SessionInv, locals
<1>46. ASSUME NEW h \in Handles, Invalidate(h) PROVE SessionInv'
  BY <1>46 DEF Invalidate, SessionInv, locals, HandleInv, Alive
<1>47. ASSUME NEW h \in Handles, Release(h) PROVE SessionInv'
  BY <1>47 DEF Release, SessionInv
<1>u. CASE UNCHANGED vars
  BY <1>u DEF SessionInv, vars, shared, locals, handles
<1> QED
  BY <1>1, <1>2, <1>3, <1>4, <1>5, <1>6, <1>7, <1>8, <1>9, <1>10, <1>11,
     <1>12, <1>13, <1>14, <1>15, <1>16, <1>17, <1>18, <1>19, <1>20, <1>21,
     <1>22, <1>23, <1>24, <1>25, <1>26, <1>27, <1>28, <1>29, <1>30, <1>31,
     <1>32, <1>33, <1>34, <1>35, <1>36, <1>37, <1>38, <1>39, <1>40, <1>41,
     <1>42, <1>43, <1>44, <1>45, <1>46, <1>47, <1>u
  DEF Next, ThreadStep, CleanupStep, CheckOperationState, DropExclusiveStream

-----------------------------------------------------------------------------
(* Steps of the abstract client, action by action.                          *)

(* Before and after the use of the connection: nothing the abstract client  *)
(* knows of changes.                                                        *)
LEMMA UnseenActions ==
    ASSUME IInv, NEW t \in Threads,
           \/ Begin(t) \/ BeginExclusive(t) \/ Return(t)
           \/ Lock(t) \/ CheckActive(t) \/ CheckUsable(t)
           \/ ReRecord(t) \/ Classify(t) \/ Lower(t)
           \/ SkipPrefix(t) \/ AwaitCleanup(t) \/ Deliver(t)
           \/ ObserveUsable(t) \/ ObserveStream(t) \/ ObserveActive(t) \/ WelcomeMessage(t)
           \/ ConnectCheckActive(t) \/ DisconnectCheckActive(t)
    PROVE  ManagedStep
<1> USE DEF IInv, Begin, BeginExclusive, Return, Lock, CheckActive, CheckUsable, ReRecord,
            Classify, Lower, SkipPrefix, AwaitCleanup, Deliver, ObserveUsable, ObserveStream,
            ObserveActive, WelcomeMessage, ConnectCheckActive, DisconnectCheckActive
<1>1. ~Using(t) /\ ~Carrying(t)
  BY DEF Using, Carrying, InCall, InExchange, BeginsExchange, OwnsStream
<1>2. PICK label : label \notin InCall \ {"quit"} /\ pc' = [pc EXCEPT ![t] = label]
  BY DEF Refuse, ReturnWith, Goto, FirstStep, Exclusives,
     InCall, InExchange, BeginsExchange
<1>3. stream' = stream /\ chan' = chan
  BY DEF shared
<1>4. connection_usable' = connection_usable
  BY DEF shared,
     TypeOK, CleanInv, MarkUnusableIf
<1>5. \A u \in Threads \ {t} : held'[u] = held[u]
  BY DEF locals,
     TypeOK
<1>6. \A h \in Handles : Alive(h)' <=> Alive(h)
  BY DEF handles,
     TypeOK, HandleInv, Holding, Alive
<1> QED
  BY <1>1, <1>2, <1>3, <1>4, <1>5, <1>6, OutsideStep

(* Exchanges and their recording, by the thread that has the connection.    *)
LEMMA UseActions ==
    ASSUME IInv, SessionInv, NEW t \in Threads,
           \/ SendCommand(t) \/ SendStore(t)
           \/ RequestOffset(t) \/ Retr(t) \/ ResetMarker(t) \/ RetryRetr(t)
           \/ Record(t)
           \/ Raise(t) \/ ListCommand(t) \/ ListTransfer(t) \/ ListRecord(t)
    PROVE  ManagedStep
<1> USE DEF SendCommand, SendStore, RequestOffset, Retr, ResetMarker, RetryRetr, Record,
            Raise, ListCommand, ListTransfer, ListRecord
<1>1. Using(t)
  BY DEF IInv, HandleInv, Using, InCall, InExchange, BeginsExchange
<1>2. PICK label :
         /\ label \in InCall \ {"quit"}
         /\ pc[t] \in OwnsStream \cup {"raise"} <=> label \in OwnsStream \cup {"raise"}
         /\ pc' = [pc EXCEPT ![t] = label]
  BY DEF Goto, InCall, InExchange, BeginsExchange, OwnsStream
<1>3. held' = held /\ hstate' = hstate /\ stream' = stream
  BY DEF locals, handles
<1>4. connection_usable' => connection_usable
  BY DEF MarkUnusableIf
<1> QED
  BY <1>1, <1>2, <1>3, <1>4, InsideStep

(* Sent on a stream that was found in its place, on a connection in step.   *)
LEMMA TakeAcquires ==
    ASSUME IInv, SessionInv, NEW t \in Threads, Take(t)
    PROVE  ManagedStep
<1> USE DEF IInv
<1>1. /\ pc[t] = "take" /\ connection_usable /\ Clean /\ held[t] = NoHandle
      /\ ~Using(t) /\ ~Carrying(t)
      /\ held' = held /\ hstate' = hstate
      /\ chan' = chan /\ connection_usable' = connection_usable
  BY DEF Take, CleanInv, HandleInv, Using, Carrying, InCall, InExchange, BeginsExchange,
     OwnsStream, handles
<1>2. CASE stream' = stream /\ pc' = [pc EXCEPT ![t] = "return"]
  BY <1>1, <1>2, OutsideStep DEF InCall, InExchange, BeginsExchange, Alive
<1>3. CASE /\ stream
           /\ \E label \in {"raise", "send", "rest", "retr"} :
                 /\ pc' = [pc EXCEPT ![t] = label]
                 /\ stream' \/ label = "raise"
  <2>1. PICK label \in {"raise", "send", "rest", "retr"} :
           pc' = [pc EXCEPT ![t] = label] /\ (stream' \/ label = "raise")
    BY <1>3
  <2>2. /\ \A u \in Threads \ {t} : ~Using(u)
        /\ \A h \in Handles : ~Alive(h)
    BY <1>1, ThreadIsAlone
  <2>3. ConnectionUsers = {}
    BY <1>1, <2>2, NoUsers
  <2>4. Using(t)' /\ (label = "raise" => Carrying(t)')
    BY <1>1, <2>1, OthersStay DEF InCall, InExchange, BeginsExchange
  <2>5. \A u \in Threads \ {t} : ~Using(u)'
    BY <1>1, <2>1, <2>2, OthersStay
  <2>6. ConnectionUsers' = {t}
    BY <1>1, <2>2, <2>4, <2>5 DEF ConnectionUsers, Using, Alive
  <2>7. SessionExists /\ SessionExists'
    BY <1>3, <2>1, <2>4, SessionByCarrying
  <2> QED
    BY <1>1, <2>3, <2>6, <2>7, AcquireBridge
<1> QED
  BY <1>2, <1>3, RefuseEffect DEF Take, Goto

(* A call that ends without a transfer stream lets go of the connection     *)
(* only when whatever it spoiled is recorded.                               *)
LEMMA ReleaseActions ==
    ASSUME IInv, SessionInv, NEW t \in Threads,
           \/ Unlock(t) /\ held[t] = NoHandle
           \/ Fail(t) \/ GiveBack(t) \/ RawCommands(t)
    PROVE  ManagedStep
<1> USE DEF IInv, Unlock, Fail, GiveBack, RawCommands
<1>1. Using(t)
  BY DEF HandleInv, Using, InCall, InExchange, BeginsExchange
<1>2. PICK label : label \notin InCall \ {"quit"} /\ pc' = [pc EXCEPT ![t] = label]
  BY RefuseEffect DEF Goto, ReturnWith, InCall, InExchange, BeginsExchange
<1>3. held' = held /\ hstate' = hstate /\ chan' = chan
  BY DEF shared, locals, handles
<1>4. \/ stream' = stream /\ ~Carrying(t)
      \/ stream' /\ SessionExists
  BY DEF shared, Carrying, OwnsStream, SessionExists
<1>5. connection_usable' => connection_usable
  BY DEF shared, MarkUnusableIf
<1>6. Clean \/ ~connection_usable'
  <2>1. CASE Fail(t)
    BY <2>1, FirstCause DEF CleanInv, MarkUnusableIf
  <2>2. CASE RawCommands(t)
    BY <2>2 DEF CleanInv
  <2>3. CASE pc[t] \in {"unlock", "give_back"} /\ connection_usable' = connection_usable
    <3>1. ~Excused
      BY <1>1, <2>3, ThreadIsAlone DEF Excused, HandleInv, Using, Alive, InCall,
         InExchange, BeginsExchange
    <3> QED
      BY <2>3, <3>1 DEF CleanInv
  <2> QED
    BY <2>1, <2>2, <2>3
<1> QED
  BY <1>1, <1>2, <1>3, <1>4, <1>5, <1>6, LeaveStep

(* start_transfer: the connection goes to the stream, clean.                *)
LEMMA StartTransferHandsOver ==
    ASSUME IInv, SessionInv, NEW t \in Threads, StartTransfer(t)
    PROVE  ManagedStep
<1> USE FtpFsAssumption DEF IInv
<1>1. /\ Using(t) /\ ~Carrying(t) /\ Clean
      /\ chan' = chan /\ connection_usable' = connection_usable /\ stream' = stream
      /\ pc' = [pc EXCEPT ![t] = "unlock"]
  BY DEF StartTransfer, HandleInv, CleanInv, Using, Carrying, InCall, InExchange,
     BeginsExchange, OwnsStream, Goto
<1>2. PICK h \in Handles :
         hstate' = [hstate EXCEPT ![h] = "held"] /\ held' = [held EXCEPT ![t] = h]
  BY DEF StartTransfer
<1>3. /\ \A u \in Threads \ {t} : ~Using(u) /\ ~Carrying(u)
      /\ \A k \in Handles : ~Alive(k)
  BY <1>1, ThreadIsAlone
<1>4. ConnectionUsers = {t}
  BY <1>1, <1>3, OneThread
<1>5. /\ \A u \in Threads : ~Using(u)' /\ ~Carrying(u)'
      /\ Alive(h)' /\ \A k \in Handles \ {h} : ~Alive(k)'
  <2>1. \A u \in Threads \ {t} : held'[u] = held[u]
    BY <1>2 DEF TypeOK
  <2>2. \A u \in Threads \ {t} : ~Using(u)' /\ ~Carrying(u)'
    BY <1>1, <1>3, <2>1, OthersStay
  <2>3. held'[t] = h
    BY <1>2 DEF TypeOK
  <2>4. ~Using(t)' /\ ~Carrying(t)'
    BY <1>1, <2>3 DEF Using, Carrying, OwnsStream, TypeOK
  <2>5. Alive(h)' /\ \A k \in Handles \ {h} : ~Alive(k)'
    BY <1>2, <1>3 DEF Alive, TypeOK
  <2> QED
    BY <2>2, <2>4, <2>5
<1>6. ConnectionUsers' = {h}
  BY <1>5 DEF ConnectionUsers, Using
<1>7. SessionExists' <=> SessionExists
  BY <1>1, <1>3, <1>5, SessionByCarrying
<1> QED
  BY <1>1, <1>4, <1>6, <1>7, HandOverBridge

(* with_stream unlocks; the stream it made already has the connection.      *)
LEMMA UnlockAfterHandOver ==
    ASSUME IInv, NEW t \in Threads, Unlock(t), held[t] # NoHandle
    PROVE  ManagedStep
<1> USE DEF IInv, Unlock
<1>1. ~Using(t) /\ ~Carrying(t)
  BY DEF Using, Carrying, OwnsStream
<1>2. PICK label : label \notin InCall \ {"quit"} /\ pc' = [pc EXCEPT ![t] = label]
  BY DEF Goto, ReturnWith, InCall, InExchange, BeginsExchange
<1> QED
  BY <1>1, <1>2, OutsideStep DEF handles, Alive

(* connect(): an unusable stream is hung up first, then a new one dialled.  *)
LEMMA ConnectSteps ==
    ASSUME IInv, SessionInv, NEW t \in Threads, ConnectReset(t) \/ Dial(t)
    PROVE  ManagedStep
<1> USE DEF IInv
<1>1. /\ ~Using(t) /\ ~Carrying(t)
      /\ held' = held /\ hstate' = hstate
  BY DEF ConnectReset, Dial, Using, Carrying, InCall, InExchange, BeginsExchange,
     OwnsStream, handles
<1>2. /\ \A u \in Threads : ~Using(u) /\ ~Carrying(u)
      /\ \A h \in Handles : ~Alive(h)
  BY <1>1, ThreadIsAlone DEF ConnectReset, Dial
<1>3. PICK label \in {"dial", "return"} : pc' = [pc EXCEPT ![t] = label]
  BY DEF ConnectReset, Dial, ReturnWith, Goto
<1>4. \A u \in Threads : ~Using(u)' /\ ~Carrying(u)'
  <2>1. \A u \in Threads \ {t} : ~Using(u)' /\ ~Carrying(u)'
    BY <1>1, <1>2, <1>3, OthersStay
  <2>2. ~Using(t)' /\ ~Carrying(t)'
    BY <1>1, <1>3, OthersStay DEF InCall, InExchange, BeginsExchange, OwnsStream
  <2> QED
    BY <2>1, <2>2
<1>5. ConnectionUsers = {} /\ ConnectionUsers' = {}
  BY <1>1, <1>2, <1>4 DEF ConnectionUsers, Using, Alive
<1>6. (SessionExists <=> stream) /\ (SessionExists' <=> stream')
  BY <1>2, <1>4, SessionByCarrying
<1>7. CASE stream' = stream /\ chan' = chan /\ connection_usable' = connection_usable
  BY <1>5, <1>6, <1>7, StutterBridge DEF Clean
<1>8. CASE ConnectReset(t) /\ ~stream'
  BY <1>5, <1>6, <1>8, StutterBridge, HangUpBridge
<1>9. CASE Dial(t) /\ stream' /\ chan' = Fresh /\ connection_usable' = connection_usable
  <2>1. ~stream /\ connection_usable /\ Clean'
    BY <1>9, FreshChannel DEF Dial, SessionInv, Clean
  <2> QED
    BY <1>5, <1>6, <1>9, <2>1, ConnectBridge
<1> QED
  BY <1>7, <1>8, <1>9 DEF ConnectReset, Dial

(* disconnect(): the stream is given up before QUIT is sent on it.          *)
LEMMA DisconnectSteps ==
    ASSUME IInv, SessionInv, NEW t \in Threads, HangUp(t) \/ Quit(t)
    PROVE  ManagedStep
<1> USE DEF IInv
<1>1. /\ ~Using(t) /\ ~Carrying(t)
      /\ held' = held /\ hstate' = hstate
  BY DEF HangUp, Quit, Using, Carrying, InCall, InExchange, BeginsExchange,
     OwnsStream, handles
<1>2. /\ \A u \in Threads : ~Using(u) /\ ~Carrying(u)
      /\ \A h \in Handles : ~Alive(h)
  BY <1>1, ThreadIsAlone DEF HangUp, Quit
<1>3. PICK label \in {"quit", "return"} : pc' = [pc EXCEPT ![t] = label]
  BY DEF HangUp, Quit, ReturnWith, Goto
<1>4. \A u \in Threads : ~Using(u)' /\ ~Carrying(u)'
  <2>1. \A u \in Threads \ {t} : ~Using(u)' /\ ~Carrying(u)'
    BY <1>1, <1>2, <1>3, OthersStay
  <2>2. ~Using(t)' /\ ~Carrying(t)'
    BY <1>1, <1>3, OthersStay DEF InCall, InExchange, BeginsExchange, OwnsStream
  <2> QED
    BY <2>1, <2>2
<1>5. ConnectionUsers = {} /\ ConnectionUsers' = {}
  BY <1>1, <1>2, <1>4 DEF ConnectionUsers, Using, Alive
<1>6. (SessionExists <=> stream) /\ (SessionExists' <=> stream')
  BY <1>2, <1>4, SessionByCarrying
<1>7. ~stream'
  BY DEF HangUp, Quit, SessionInv
<1> QED
  BY <1>5, <1>6, <1>7, StutterBridge, HangUpBridge

(* stream(): refused, or the caller's from now on.                          *)
LEMMA AccessorAcquires ==
    ASSUME IInv, NEW t \in Threads, Accessor(t)
    PROVE  ManagedStep
<1> USE DEF IInv
<1>1. /\ pc[t] = "accessor" /\ held[t] = NoHandle /\ ~Using(t) /\ ~Carrying(t)
      /\ held' = held /\ hstate' = hstate /\ stream' = stream
      /\ chan' = chan /\ connection_usable' = connection_usable
  BY DEF Accessor, HandleInv, Using, Carrying, InCall, InExchange, BeginsExchange,
     OwnsStream, shared, handles
<1>2. CASE pc' = [pc EXCEPT ![t] = "return"]
  BY <1>1, <1>2, OutsideStep DEF InCall, InExchange, BeginsExchange, Alive
<1>3. CASE /\ pc' = [pc EXCEPT ![t] = "raw"]
           /\ stream /\ connection_usable /\ ~transfer_active
  <2>1. /\ \A u \in Threads \ {t} : ~Using(u)
        /\ \A h \in Handles : ~Alive(h)
    BY <1>1, <1>3 DEF BorrowInv, InExclusive, HandleInv, Using, InCall, InExchange,
       BeginsExchange
  <2>2. ConnectionUsers = {}
    BY <1>1, <2>1, NoUsers
  <2>3. Using(t)'
    BY <1>1, <1>3, OthersStay DEF InCall, InExchange, BeginsExchange
  <2>4. \A u \in Threads \ {t} : ~Using(u)'
    BY <1>1, <1>3, <2>1, OthersStay
  <2>5. ConnectionUsers' = {t}
    BY <1>1, <2>1, <2>3, <2>4 DEF ConnectionUsers, Using, Alive
  <2>6. SessionExists /\ SessionExists'
    BY <1>1, <1>3 DEF SessionExists
  <2>7. Clean
    <3>1. \A u \in Threads : pc[u] = "accessor" \/ pc[u] = "idle"
      BY <1>1 DEF BorrowInv, InExclusive
    <3>2. ~Excused
      BY <2>1, <3>1 DEF Excused, Alive
    <3> QED
      BY <1>3, <3>2 DEF CleanInv
  <2> QED
    BY <1>1, <1>3, <2>2, <2>5, <2>6, <2>7, AcquireBridge
<1> QED
  BY <1>2, <1>3 DEF Accessor, Goto, ReturnWith

(* Reading and cleaning up, by the stream that has the connection; a failed *)
(* skip begins the cleanup.                                                 *)
LEMMA StreamActions ==
    ASSUME IInv, SessionInv,
           \/ \E t \in Threads : SkipFails(t)
           \/ \E h \in Handles : Read(h) \/ Finish(h) \/ Drain(h) \/ Finalize(h) \/ Invalidate(h)
    PROVE  ManagedStep
<1> USE DEF IInv, SkipFails, Read, Finish, Drain, Finalize, Invalidate
<1>1. PICK h \in Handles : Alive(h) /\ \A k \in Handles : Alive(k)' <=> Alive(k)
  BY DEF HandleInv, Holding, TypeOK, Alive, handles
<1>2. \A u \in Threads : (Using(u)' <=> Using(u)) /\ (Carrying(u)' <=> Carrying(u))
  BY DEF TypeOK, Using, Carrying, InCall, InExchange, BeginsExchange, OwnsStream,
     Goto, locals
<1>3. stream' = stream /\ (connection_usable' => connection_usable)
  BY DEF shared
<1> QED
  BY <1>1, <1>2, <1>3, HandleStep

(* TransferGuard::drop: what the cleanup spoiled has been recorded.         *)
LEMMA ReleaseStep ==
    ASSUME IInv, SessionInv, NEW h \in Handles, Release(h)
    PROVE  ManagedStep
<1> USE DEF IInv, Release
<1>1. Alive(h) /\ (Clean \/ ~connection_usable)
  BY DEF Alive, CleanInv
<1>2. /\ pc' = pc /\ held' = held /\ stream' = stream /\ chan' = chan
      /\ connection_usable' = connection_usable
  BY DEF locals
<1>3. \A k \in Handles : ~Alive(k)'
  BY <1>1, HandleIsAlone DEF Alive, TypeOK
<1>4. ConnectionUsers = {h} /\ ConnectionUsers' = {}
  BY <1>1, <1>2, <1>3, HandleIsAlone DEF ConnectionUsers, Using
<1>5. SessionExists' <=> SessionExists
  BY <1>2 DEF SessionExists
<1> QED
  BY <1>1, <1>2, <1>4, <1>5, ReleaseBridge

-----------------------------------------------------------------------------
(* A new client: no session, nobody using it, nothing to be marked.         *)
LEMMA ManagedInit == Init => Managed!Init /\ SessionInv
<1> SUFFICES ASSUME Init PROVE Managed!Init /\ SessionInv
  OBVIOUS
<1>1. ~SessionExists
  BY DEF Init, SessionExists, OwnsStream
<1>2. ConnectionUsers = {}
  BY DEF Init, ConnectionUsers, Alive, InCall, InExchange, BeginsExchange
<1>3. SessionInv
  BY DEF Init, SessionInv
<1> QED
  BY <1>1, <1>2, <1>3 DEF Managed!Init

(* Every step of FtpFs is a step of the abstract client or none.            *)
LEMMA ManagedNext ==
    ASSUME IInv, SessionInv, [Next]_vars
    PROVE  ManagedStep
<1>1. CASE UNCHANGED vars
  <2>1. SessionExists' = SessionExists /\ ConnectionUsers' = ConnectionUsers
    BY <1>1 DEF vars, shared, locals, handles, SessionExists, ConnectionUsers, Alive
  <2> QED
    BY <1>1, <2>1, StutterBridge DEF Clean, vars, shared
<1>2. CASE \E t \in Threads : Begin(t) \/ BeginExclusive(t) \/ ThreadStep(t)
  <2>1. PICK t \in Threads : Begin(t) \/ BeginExclusive(t) \/ ThreadStep(t)
    BY <1>2
  <2> QED
    BY <2>1, UnseenActions, UseActions, TakeAcquires, ReleaseActions,
       StartTransferHandsOver, UnlockAfterHandOver, ConnectSteps, DisconnectSteps,
       AccessorAcquires, StreamActions
    DEF ThreadStep, CheckOperationState, DropExclusiveStream
<1>3. CASE \E h \in Handles : Read(h) \/ Finish(h) \/ CleanupStep(h)
  BY <1>3, StreamActions, ReleaseStep DEF CleanupStep
<1> QED
  BY <1>1, <1>2, <1>3 DEF Next

(* Threads, the mutex, the two flags, the Option a LIST empties and the     *)
(* guards of transfer streams amount to one owner of the connection at a    *)
(* time, who never lets go of it spoiled and unmarked.                      *)
THEOREM ManagedClient == Spec => ImplementsManagedControl
<1>1. Init => Managed!Init /\ SessionInv
  BY ManagedInit
<1>2. IInv /\ SessionInv /\ [Next]_vars => SessionInv' /\ ManagedStep
  BY SessionInvStep, ManagedNext
<1> QED
  BY <1>1, <1>2, IInvCorrect, PTL DEF Spec, ImplementsManagedControl, Managed!Spec, ManagedStep
=============================================================================
