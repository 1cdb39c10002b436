-------------------------- MODULE TransferEndProof --------------------------
(***************************************************************************)
(* Proofs about TransferEnd: the error chains that its wrappers build, and *)
(* what a transfer that has failed leaves behind.                          *)
(*                                                                         *)
(* A wrapper puts two members that are no FtpError in front of a chain, so *)
(* what could be found in the chain first is still found first             *)
(* (WrapKeepsTrace); two failures are never taken for none (CombineOk).    *)
(***************************************************************************)
EXTENDS TransferEnd, SequenceTheorems, TLAPS

(* A caller that walks the chain of err meets e as the first FtpError.     *)
Traceable(err, e) == \E i \in DOMAIN err.source : FirstFtpAt(err, i) /\ err.source[i] = e

WrapperNames == {"ListCleanupFailure", "WriteCleanupFailure", "CleanupFailure",
                 "SkipCleanupFailure"}

(* What a chain is made of.                                                *)
Links == FtpError \cup WrapperNames \cup {"io", "RemoteError"}

Completions == {Ok} \cup {FromFtp(e) : e \in FtpError}
Locals == {Ok, FromFtp("ConnectionError")} \cup IoErrors

(* The two failures of one end, combined, and what the caller is told.     *)
Ending == Combine(local, completion)
Told == IF transfer = "skip" THEN CombineSkip(Ending) ELSE Ending

(* Which failures there can be at which point, and that the connection is  *)
(* given up before the guard falls.                                        *)
IInv ==
    /\ transfer \in Transfers
    /\ pc \in {"local", "finish", "mark", "report", "done"}
    /\ IF transfer = "skip" THEN skip \in IoErrors ELSE skip = Ok
    /\ local \in Locals /\ completion \in Completions
    /\ pc = "local" => local = Ok
    /\ pc \in {"local", "finish"} => completion = Ok
    /\ active <=> pc # "done"
    /\ usable \in BOOLEAN
    /\ pc \in {"local", "finish", "mark"} => usable
    /\ pc \in {"report", "done"} => (usable <=> ~Failed)
    /\ pc = "done" => report = Told

-----------------------------------------------------------------------------
(* Chains.                                                                 *)

(* A chain with a wrapper in front.                                        *)
LEMMA WrapFacts ==
    ASSUME NEW name, NEW kind, NEW err, err.source \in Seq(Links), name \in Links
    PROVE  LET s == Wrap(name, kind, err).source
           IN  /\ Wrap(name, kind, err).kind = kind
               /\ s \in Seq(Links)
               /\ Len(s) = Len(err.source) + 2
               /\ s[1] = name /\ s[2] = "RemoteError"
               /\ \A i \in 1..Len(err.source) : s[i + 2] = err.source[i]
<1> DEFINE t == <<name, "RemoteError">>
           s == t \o err.source
<1>1. t \in Seq(Links) /\ Len(t) = 2 /\ t[1] = name /\ t[2] = "RemoteError"
  <2>1. name \in Links /\ "RemoteError" \in Links
    BY DEF Links
  <2>2. \A x \in Links, y \in Links :
           <<x, y>> \in Seq(Links) /\ Len(<<x, y>>) = 2 /\ <<x, y>>[1] = x /\ <<x, y>>[2] = y
    OBVIOUS
  <2> QED
    BY <2>1, <2>2
<1>2. /\ s \in Seq(Links) /\ Len(s) = 2 + Len(err.source)
      /\ \A i \in 1..(2 + Len(err.source)) :
            s[i] = IF i <= 2 THEN t[i] ELSE err.source[i - 2]
  BY <1>1, ConcatProperties
<1>3. Len(err.source) \in Nat
  OBVIOUS
<1>4. \A n \in Nat : \A i \in 1..n : i + 2 \in 1..(2 + n) /\ ~(i + 2 <= 2) /\ i + 2 - 2 = i
  OBVIOUS
<1>5. \A n \in Nat : 1 \in 1..(2 + n) /\ 2 \in 1..(2 + n) /\ 2 + n = n + 2
  OBVIOUS
<1>6. s[1] = name /\ s[2] = "RemoteError"
  BY <1>1, <1>2, <1>3, <1>5
<1>7. \A i \in 1..Len(err.source) : s[i + 2] = err.source[i]
  BY <1>2, <1>3, <1>4
<1> QED
  BY <1>2, <1>3, <1>5, <1>6, <1>7 DEF Wrap, RemoteError

(* What is found first in a chain is found first behind a wrapper.         *)
LEMMA WrapKeepsTrace ==
    ASSUME NEW name \in WrapperNames, NEW kind, NEW err, err.source \in Seq(Links),
           NEW e, Traceable(err, e)
    PROVE  Traceable(Wrap(name, kind, err), e)
<1> DEFINE w == Wrap(name, kind, err)
           s == w.source
<1>1. name \in Links /\ name \notin FtpError /\ "RemoteError" \notin FtpError
  BY DEF Links, WrapperNames, FtpError, TransportFailures, LibraryFailures, ReplyCodes
<1>2. /\ s \in Seq(Links) /\ Len(s) = Len(err.source) + 2
      /\ s[1] = name /\ s[2] = "RemoteError"
      /\ \A i \in 1..Len(err.source) : s[i + 2] = err.source[i]
  BY <1>1, WrapFacts
<1>3. PICK i \in 1..Len(err.source) : FirstFtpAt(err, i) /\ err.source[i] = e
  BY DEF Traceable
<1> HIDE DEF w
<1>4. /\ DOMAIN s = 1..(Len(err.source) + 2) /\ DOMAIN err.source = 1..Len(err.source)
      /\ Len(err.source) \in Nat
  BY <1>2
<1>5. i + 2 \in DOMAIN s /\ s[i + 2] = e /\ e \in FtpError
  BY <1>2, <1>3, <1>4 DEF FirstFtpAt
<1>6. ASSUME NEW j \in DOMAIN s, j < i + 2 PROVE s[j] \notin FtpError
  <2>1. CASE j = 1 \/ j = 2
    BY <1>1, <1>2, <2>1
  <2>2. CASE j > 2
    <3>1. j - 2 \in 1..Len(err.source) /\ j - 2 < i /\ j - 2 + 2 = j
      BY <1>4, <1>6, <2>2
    <3>2. s[j] = err.source[j - 2]
      BY <1>2, <3>1
    <3> QED
      BY <1>3, <1>4, <3>1, <3>2 DEF FirstFtpAt
  <2> QED
    BY <1>4, <2>1, <2>2
<1>7. FirstFtpAt(w, i + 2)
  BY <1>5, <1>6 DEF FirstFtpAt
<1> QED
  BY <1>5, <1>7 DEF w, Traceable

(* An error without a wrapper.                                             *)
LEMMA PlainErrors ==
    /\ Ok.source = <<>> /\ Ok.kind = "Ok" /\ Ok.source \in Seq(Links)
    /\ \A err \in Locals \cup Completions : err.source \in Seq(Links)
    /\ \A err \in Locals \cup Completions : err # Ok => err.source # <<>>
    /\ \A err \in Completions \ {Ok} : Traceable(err, err.source[1])
    /\ \A err \in IoErrors : err # Ok
<1>1. FtpError \subseteq Links /\ "io" \in Links /\ "ConnectionError" \in FtpError
  BY DEF Links, FtpError, TransportFailures, LibraryFailures, ReplyCodes
<1>2. Ok.source = <<>> /\ Ok.kind = "Ok"
  BY DEF Ok, RemoteError
<1>3. \A e \in FtpError : FromFtp(e).source = <<e>>
  BY DEF FromFtp, RemoteError
<1>4. \A err \in IoErrors : err.source = <<"io">>
  BY DEF IoErrors, RemoteError
<1>5. \A x \in Links : <<x>> \in Seq(Links) /\ <<x>> # <<>>
  OBVIOUS
<1>6. ASSUME NEW err \in Completions \ {Ok} PROVE Traceable(err, err.source[1])
  <2>1. PICK e \in FtpError : err = FromFtp(e)
    BY DEF Completions
  <2>2. err.source = <<e>> /\ DOMAIN <<e>> = {1} /\ <<e>>[1] = e
    BY <1>3, <2>1
  <2> QED
    BY <2>2 DEF Traceable, FirstFtpAt
<1>7. \A err \in Locals \cup Completions :
         err = Ok \/ err.source = <<"io">> \/ \E e \in FtpError : err.source = <<e>>
  BY <1>1, <1>3, <1>4 DEF Locals, Completions
<1>8. \A err \in Locals \cup Completions : err.source \in Seq(Links)
  <2>1. <<>> \in Seq(Links)
    OBVIOUS
  <2> QED
    BY <1>1, <1>2, <1>5, <1>7, <2>1
<1>9. \A err \in Locals \cup Completions : err # Ok => err.source # <<>>
  BY <1>1, <1>5, <1>7
<1> QED
  BY <1>2, <1>4, <1>5, <1>6, <1>8, <1>9

-----------------------------------------------------------------------------
(* Two failures in one error.                                              *)

(* What the end of a transfer comes to: a failure if there was one; the    *)
(* reply, if that failed, first in the chain; a wrapper if both failed.     *)
LEMMA CombineFacts ==
    ASSUME transfer \in Transfers, NEW l \in Locals, NEW c \in Completions
    PROVE  LET err == Combine(l, c)
           IN  /\ err.source \in Seq(Links)
               /\ err = Ok <=> l = Ok /\ c = Ok
               /\ c # Ok => Traceable(err, c.source[1])
               /\ l # Ok /\ c # Ok => err.source # <<>> /\ err.source[1] \in WrapperNames
<1>1. CASE l = Ok \/ c = Ok
  BY <1>1, PlainErrors DEF Combine
<1>2. CASE l # Ok /\ c # Ok
  <2>1. PICK name \in WrapperNames, kind \in {l.kind, c.kind} :
           Combine(l, c) = Wrap(name, kind, c)
    BY <1>2 DEF Combine, WrapperNames, Wrap, ListCleanupFailure
  <2>2. c.source \in Seq(Links) /\ Traceable(c, c.source[1]) /\ name \in Links
    BY <1>2, PlainErrors DEF Links
  <2>3. LET s == Combine(l, c).source
        IN  s \in Seq(Links) /\ Len(s) = Len(c.source) + 2 /\ s[1] = name
    BY <2>1, <2>2, WrapFacts
  <2>4. Combine(l, c).source # <<>>
    BY <2>2, <2>3
  <2>5. Traceable(Combine(l, c), c.source[1])
    BY <2>1, <2>2, WrapKeepsTrace
  <2> QED
    BY <1>2, <2>3, <2>4, <2>5, PlainErrors
<1> QED
  BY <1>1, <1>2

(* The same of what the caller is told.                                    *)
LEMMA ToldFacts ==
    ASSUME IInv
    PROVE  /\ Told = Ok <=> skip = Ok /\ ~Failed
           /\ completion # Ok => Traceable(Told, completion.source[1])
           /\ local # Ok /\ completion # Ok =>
                 Told.source # <<>> /\ Told.source \in Seq(Links) /\ Told.source[1] \in WrapperNames
           /\ skip # Ok => Told.kind = skip.kind
<1>1. /\ Ending.source \in Seq(Links)
      /\ Ending = Ok <=> ~Failed
      /\ completion # Ok => Traceable(Ending, completion.source[1])
      /\ local # Ok /\ completion # Ok => Ending.source # <<>> /\ Ending.source[1] \in WrapperNames
  BY CombineFacts DEF IInv, Ending, Failed
<1>2. CASE transfer # "skip"
  BY <1>1, <1>2 DEF Told, IInv
<1>3. CASE transfer = "skip"
  <2>1. skip # Ok /\ skip \in IoErrors
    BY <1>3, PlainErrors DEF IInv
  <2>2. CASE Ending = Ok
    BY <1>1, <1>3, <2>1, <2>2 DEF Told, CombineSkip, Failed
  <2>3. CASE Ending # Ok
    <3>1. Told = Wrap("SkipCleanupFailure", skip.kind, Ending)
      BY <1>3, <2>3 DEF Told, CombineSkip
    <3>2. "SkipCleanupFailure" \in WrapperNames /\ "SkipCleanupFailure" \in Links
      BY DEF WrapperNames, Links
    <3>3. /\ Told.kind = skip.kind /\ Told.source \in Seq(Links)
          /\ Len(Told.source) = Len(Ending.source) + 2 /\ Told.source[1] \in WrapperNames
      BY <1>1, <3>1, <3>2, WrapFacts
    <3>4. Told.source # <<>>
      BY <1>1, <3>3
    <3>5. completion # Ok => Traceable(Told, completion.source[1])
      BY <1>1, <3>1, <3>2, WrapKeepsTrace
    <3> QED
      BY <2>1, <3>3, <3>4, <3>5, PlainErrors
  <2> QED
    BY <2>2, <2>3
<1> QED
  BY <1>2, <1>3

-----------------------------------------------------------------------------
(* The invariant.                                                          *)

(* It holds before a transfer ends.                                        *)
LEMMA IInvInit == Init => IInv
BY PlainErrors DEF Init, IInv, Transfers, Locals, Completions, Failed

(* It is inductive.                                                        *)
LEMMA IInvStep == IInv /\ [Next]_vars => IInv'
<1> SUFFICES ASSUME IInv, [Next]_vars PROVE IInv'
  OBVIOUS
<1>1. CASE Local
  <2>1. local' \in Locals
    BY <1>1 DEF Local, IInv, Transfers, Locals
  <2> QED
    BY <1>1, <2>1 DEF Local, IInv
<1>2. CASE Finish
  <2>1. completion' \in Completions
    BY <1>2 DEF Finish, Completions
  <2> QED
    BY <1>2, <2>1 DEF Finish, IInv
<1>3. CASE Mark
  <2>1. Combine(local, completion) = Ok <=> ~Failed
    BY CombineFacts DEF IInv, Failed
  <2>2. usable' = ~Failed /\ Failed' = Failed
    BY <1>3, <2>1 DEF Mark, IInv, Failed
  <2> QED
    BY <1>3, <2>2 DEF Mark, IInv
<1>4. CASE Report
  <2>1. UNCHANGED <<transfer, skip, local, completion>> /\ report' = Told
    BY <1>4 DEF Report, Told, Ending
  <2>2. report' = Told' /\ Failed' = Failed
    BY <2>1 DEF Told, Ending, Combine, CombineSkip, Wrap, ListCleanupFailure, Failed
  <2>3. transfer = "list" /\ ~Failed => report' = Ok
    BY <2>1, ToldFacts DEF IInv
  <2>4. ~RemoteErrorRequiresReconnect(Ok)
    BY PlainErrors DEF RemoteErrorRequiresReconnect, FirstFtpAt
  <2>5. usable' = ~Failed
    <3>1. usable = ~Failed
      BY <1>4 DEF Report, IInv
    <3>2. usable' = (usable /\ ~(transfer = "list" /\ RemoteErrorRequiresReconnect(report')))
      BY <1>4 DEF Report
    <3> QED
      BY <2>3, <2>4, <3>1, <3>2
  <2> QED
    BY <1>4, <2>1, <2>2, <2>5 DEF Report, IInv
<1>5. CASE UNCHANGED vars
  BY <1>5 DEF vars, IInv, Told, Ending, Combine, CombineSkip, Wrap, ListCleanupFailure, Failed
<1> QED
  BY <1>1, <1>2, <1>3, <1>4, <1>5 DEF Next

(* The inductive invariant holds of every reachable state.                 *)
THEOREM IInvCorrect == Spec => []IInv
BY IInvInit, IInvStep, PTL DEF Spec

(* The reply of the server is the first FtpError of whatever the caller is *)
(* told, so that it can be classified (sync/stream.rs:91).                 *)
THEOREM RepliesAreTraceable == Spec => []CompletionIsTraceable
<1>1. IInv => CompletionIsTraceable
  <2> SUFFICES ASSUME IInv, Done, completion # Ok
               PROVE  \E i \in DOMAIN report.source :
                         FirstFtpAt(report, i) /\ report.source[i] = completion.source[1]
    BY DEF CompletionIsTraceable
  <2>1. report = Told
    BY DEF IInv, Done
  <2> QED
    BY <2>1, ToldFacts DEF Traceable
<1> QED
  BY <1>1, IInvCorrect, PTL

(* Nothing fails silently, two failures leave a wrapper that tells of both, *)
(* and no error is made up.                                                *)
THEOREM FailuresAreTold == Spec => []NothingIsLost
<1>1. IInv => NothingIsLost
  <2> SUFFICES ASSUME IInv, Done PROVE NothingIsLost
    BY DEF NothingIsLost
  <2> DEFINE failures == {f \in {"skip", "local", "completion"} :
                            CASE f = "skip" -> skip # Ok
                              [] f = "local" -> local # Ok
                              [] f = "completion" -> completion # Ok}
             wrappers == {i \in DOMAIN report.source :
                            report.source[i] \notin FtpError \cup {"io", "RemoteError"}}
  <2>1. report = Told
    BY DEF IInv, Done
  <2>2. failures = {} <=> report = Ok
    <3>1. failures = {} <=> skip = Ok /\ local = Ok /\ completion = Ok
      OBVIOUS
    <3> QED
      BY <2>1, <3>1, ToldFacts DEF Failed
  <2>3. local # Ok /\ completion # Ok => wrappers # {}
    <3> SUFFICES ASSUME local # Ok, completion # Ok PROVE 1 \in wrappers
      OBVIOUS
    <3>1. 1 \in DOMAIN report.source /\ report.source[1] \in WrapperNames
      BY <2>1, ToldFacts
    <3>2. \A name \in WrapperNames : name \notin FtpError \cup {"io", "RemoteError"}
      BY DEF WrapperNames, FtpError, TransportFailures, LibraryFailures, ReplyCodes
    <3> QED
      BY <3>1, <3>2
  <2>4. skip # Ok => report.kind = skip.kind
    BY <2>1, ToldFacts
  <2> QED
    BY <2>2, <2>3, <2>4 DEF NothingIsLost
<1> QED
  BY <1>1, IInvCorrect, PTL

(* When the client is free again the connection is lost to it exactly if    *)
(* the drain, the flush, the read or the completion failed.                *)
THEOREM FailuresCostTheConnection == Spec => []FailedEndCostsTheConnection
<1>1. IInv => FailedEndCostsTheConnection
  BY DEF IInv, FailedEndCostsTheConnection
<1> QED
  BY <1>1, IInvCorrect, PTL
=============================================================================
