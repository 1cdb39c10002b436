# A TLA+ model of remotefs-ftp

remotefs-ftp gives an FTP server the interface of a file system: `FtpFs` blocks,
`TokioFtpFs` is asynchronous, and both hand out transfer streams that live longer
than the call that opened them. FTP has one control connection on which replies
carry no identity: the next reply read belongs to the next command sent only as
long as everybody has read exactly their own. This development is about that
discipline: who may use the connection, what happens to it when something fails,
and who learns of it in time.

## 1. The system

| component | state | operations | where |
|---|---|---|---|
| blocking client `FtpFs` | `stream: Mutex<Option<FtpStream>>`, the atomics `transfer_active` and `connection_usable` | `connect`, `disconnect`, `stream` (`&mut self`); `list_dir`, `stat`, `exists`, `create_dir`, `remove_file`, `remove_dir`, `rename`, `open`, `create`, `append`, `exec`, `is_connected`, `welcome_message` (`&self`) | `src/client/sync.rs` |
| blocking transfer streams | the data connection (`inner`), `remaining`, `at_eof`, a `TransferGuard` | `read`, `write`, `flush`, `finish`, drop; internally `skip_prefix`, `finish_after_skip` | `src/client/sync/stream.rs` |
| transfer guard | clones of the two atomics | `invalidate`, drop | `src/client/guard.rs` |
| asynchronous client `TokioFtpFs` | the same under an async mutex, and copies of its own: `connected`, `welcome` | the same, each a future that may be dropped; `OperationGuard`, `StreamGuard` | `src/client/tokio.rs` |
| asynchronous transfer streams | as the blocking ones | `poll_read`, `finish().await`, a drop that cannot await | `src/client/tokio/stream.rs` |
| error classification | none | `ftp_error`, `transfer_setup_requires_reconnect`, `remote_error_requires_reconnect`, the refusal predicates | `src/client/error.rs` |
| path probes | none of their own; LISTs on the client | `classify_*`, `ancestor_proves_absent`, `destination_parent_is_missing`, `list_dir`, `stat` | both client files |
| LIST parser | none | `decode_list_bytes`, `parse_list_lines` | `src/client/list.rs` |
| remote paths | none | `remote_path`, `resolve`, `absolutize` | `src/client/path.rs`, `src/utils/path.rs` |
| options and TLS set-up | `username`, `password`, `mode`, `passive_stream_builder`, `secure`, the two waivers | the builder methods, `setup_tls_connector`; read by `connect` | both client files |
| control connection (external) | socket, deferred replies, restart marker | suppaftp's commands | not in the repository |

How they interact. A `&self` operation locks the mutex, runs
`check_operation_state` (two loads: is a transfer active, is the connection
usable), sends its commands, records a failure that puts the replies out of step,
and unlocks. `open`, `create` and `append` raise `transfer_active` before they
unlock and leave a stream whose guard lowers it, from any thread, with no lock.
The blocking LIST takes the stream *out* of the mutex, unlocks, transfers, and a
destructor puts it back; the asynchronous one keeps the mutex. A refused command
is followed by LISTs that look for the reason. The application's passive stream
builder runs inside suppaftp and clears `connection_usable` itself.

What is hard: the flags are read one by one and written without the mutex by
cleanups; every exchange can be refused, answered with 421, garbled or lost; REST
leaves state in the server that a failed RETR does not consume; cleanup can fail
twice; a future can be dropped at any await, and its destructors run in
declaration order. `PROJECT.json` lists these hazards line by line.

What makes each component correct:

* clients: one user of the control connection at a time; no command on a
  connection out of step; no restart marker left for somebody else; the session
  stays under a live stream; the connection is not given up for nothing;
  the mutex and `transfer_active` always come free.
* streams: the caller reads from the offset it asked for and within its budget;
  cleanup reads to the end exactly when it must, finalises whatever failed, and
  invalidates before it releases.
* classification: a verdict on the connection that does not depend on how the
  error was wrapped; of two failures neither is lost.
* probes: an absence, an existence, a kind is claimed only if it was so at some
  moment of the operation; where the tree can be listed the answer is exact; the
  number of LISTs is bounded by the depth of the path.
* parser, paths: a name is listed exactly as it is or the listing fails; a line
  that is no entry is never passed over; what is listed can be asked for; what is
  sent means the path it was made from.
* options: no credentials in clear for a client asked to be secure, and to no peer
  its options do not accept; a session is kept only when it is complete.

## 2. The modules

| module | models | notes |
|---|---|---|
| `FtpErrors` | `error.rs` | an error is its reply code or transport failure; a `RemoteError` a kind and a chain of sources |
| `ControlChannel` | suppaftp, network, server | operators from the state of the connection to the set of answers a call may get |
| `ReadStream` | the fields of a transfer stream, one `read` | shared by both clients |
| `FtpFs` | `sync.rs`, `sync/stream.rs`, `guard.rs` | threads and handles |
| `TokioFtpFs` | `tokio.rs`, `tokio/stream.rs`, `guard.rs` | tasks, handles, cancellation |
| `ManagedControl` | what both clients promise | abstract: one owner of the connection, who never lets go of it spoiled and unmarked |
| `FtpFsManaged`, `TokioFtpFsManaged` | | the refinement mappings |
| `PathProbe` | `list_dir`, `stat`, `exists`, `classify_*`, `ancestor_proves_absent` | one step per LIST, over a tree that others change |
| `TransferEnd` | the error paths of `finish_read`, `finish_write`, `finish_after_skip`, `read_list_bytes` | with `FtpErrors` |
| `Connect` | the builder methods, `connect` and `disconnect` exchange by exchange | what `Dial`, `HangUp` and `Quit` of the client models stand for |
| `RemotePath` | `path.rs`, `utils/path.rs` | operators on paths |
| `Listing` | `list.rs` | from the path sent to the entries listed |
| `MCFtpFs`, `MCTokioFtpFs`, `MCPathProbe`, `MCConnect`, `MCListing` | | symmetry sets, trees, names and lines for TLC |
| `ControlChannelProof` | | lemmas: what each exchange may answer and leave behind |
| `FtpFsProof` | | the inductive invariants of `FtpFs`, its theorems, and that it implements `ManagedControl` |
| `TokioFtpFsProof` | | the same for `TokioFtpFs` |
| `PathProbeProof` | | the inductive invariant of `PathProbe`, the account of its LISTs |
| `PathProbeExactProof` | | what the answers of `PathProbe` say of the server |
| `TransferEndProof` | | the chains of errors that `TransferEnd` builds |
| `ConnectProof` | | the inductive invariant of `Connect` and its theorems |
| `ListingProof` | | what the parser makes of a row of any length, and the inductive invariant of `Listing` |

**The connection.** `synced` says that the next reply belongs to the next command
and that the server has not announced its end; `marker`, that the server holds a
restart marker; `fault` remembers that server, network or builder ever failed, so
that a property can say "given up for a reason". An exchange on a synchronised
connection may succeed, be refused (502, 550, 553), fail on the data connection,
or lose step (421, a closed or garbled reply); on one out of step it reads an
answer to some other command, so any. The exception is REST 0, which follows a
failed RETR: what is left of that RETR is never the 350 it waits for, so out of
step it fails, and after a RETR whose refusal was read whole but not understood
it may succeed (`open()` retries then and records nothing; the replies are in step).
Assumed of the server: after a RETR answered 421 it does not accept REST 0. If one did,
`open()` would retry and never record the 421. The passive stream builder of the application
fails with an error of its own making, before the transfer command is sent or after it; then the
command's reply is left unread, and only the hook's mark (`hook`) keeps the next command off.
`Completion` is the answer that ends a
transfer: closing the data socket with bytes unread makes a healthy server send
426 and then 226, of which suppaftp reads one. All of this is external and is
modelled from the calls in `src/` and from what their comments say of the library.

**State and actions.** `pc[t]` is the place of a thread or task in its operation;
`op`, `err`, `want`, `resumed` and the others are locals of that operation. An
action is one access to shared state: locking, each load of
`check_operation_state`, `take`, one exchange with its effect on the connection
and on the flag the builder hook writes, each store. A handle is a transfer
stream: `held` while `open()` has it, `open` in the application's hands, then
`drain`, `finalize`, possibly `invalidate`, `release`. `finish()` and drop of the
blocking streams take the same steps; the asynchronous ones differ (`DropStream`,
`DropInner`, `CancelFinish`).

The borrow checker is modelled too: `BeginExclusive` needs every thread idle and
`Begin` needs no `&mut self` call in progress, but live handles borrow nothing.

Cancellation in `TokioFtpFs` is a step of its own at the program counters that
are awaits (`Awaiting`, `lock`, `skip`, `dial`, `quit`). It drops suppaftp's future
(`Abandoned`: nothing was sent yet, or a reply stays unread) and then runs the
destructors in the order Rust does: the mutex guard, then `OperationGuard`.

In the client models data is abstract: offsets are 0 or 1, and `pos` of a stream counts from where
the RETR started, so that a prefix that server and client both skip shows as 2. The bytes left on the data socket are 0 or 1,
the budget 0, 1 or unlimited; paths are gone; `MaxProbes` bounds the LISTs that a
refusal leads to. Which error the probes conclude is left open (`Outcomes`); `PathProbe` says.

**The abstract client.** `ManagedControl` knows a set of users with at most one
member, whether the connection is clean (in step, no restart marker) and whether it
is marked. A call acquires a clean, unmarked connection, may spoil it, hands it to a
transfer stream only clean, and releases it clean or marked. Under the mapping of
`FtpFsManaged` a user is a thread from `take` until it unlocks (or until the stream is
back, for a LIST) or a live transfer stream, and every step of `FtpFs` is one
abstract step or none. `TokioFtpFs` refines it only while one task uses the client
and no `finish()` future is dropped: the mutex guard falls before the mark is made
(findings 1 and 2 of section 6), which is exactly the step `Release` forbids.

**Probes.** A path is the sequence of its names, an answer to LIST a set of
entries. `parse_list_lines` puts every name below the path asked for, so the listing
of the file `/a` may be that of a directory `/a` with a file `a` in it; servers that
list a file with its entry, with nothing or with a refusal are the three `Styles`.
Calls nest, so the state is a stack of frames. `past` remembers the trees there have
been since the operation began: what an answer claims has to be true of one of them.

**Listings.** A text is a sequence of symbols that stand for the characters treated
alike. `Row` makes the line a server sends for an entry; the translated checks and
suppaftp's splitting (external) have to find the name in it again. Column arithmetic
of the aligned DOS layout is kept: a symbol has the width of what it stands for.

**Connecting.** `Connect` has one step per exchange, each of which may fail, and for
the asynchronous client may be where the call is dropped. `asked` and `spoken` are
history: the options a session was dialled with, the credentials sent and over what.

Definitions marked *Variant* are plausible mistakes in the definition that follows
them. No specification uses them; they show that each property can fail.

## 3. The runs

| run | instance | shows |
|---|---|---|
| `ftpfs_safety` | 2 threads, 2 handles, all kinds of operation, 1 probe | type invariant, eight safety properties, `ManagedControl` |
| `ftpfs_live` | 2 threads, 1 handle, open / list / connect | the mutex is let go of; cleanup lowers `transfer_active` |
| `tokio_shared` | 2 tasks, 2 handles, cancellable calls, 1 probe | exclusive use, damage is marked or about to be, answers of `is_connected` |
| `tokio_alone` | 1 task, 2 handles, cancellable calls, every operation, 2 probes | no command out of step, right offset, `ManagedControl` |
| `tokio_live` | 1 task, 2 handles, every operation, calls and finishes cancellable | the mutex comes free; `transfer_active` comes down however a stream ends |
| `pathprobe` | every tree over a chain of 3 paths, 3 styles, 8 operations, 1 change by others, LISTs may fail | claims are true, answers exact where they can be, LISTs bounded |
| `connect_options` | 6 builds, 3 builder calls, 2 dials | private credentials, accepted peers, complete sessions |
| `transfer_end` | every local failure with every completion | traceable errors, verdict on the connection |
| `listing_names` | 9 paths, about 135 names in 5 formats, 7 lines that are no entries | exact names, usable paths |
| `tokio_late_record`, `tokio_cancelled_finish`, `listing_arrows` | the smallest that shows it | a sentence of the documentation that the code contradicts (section 6) |

Bounds. Two actors are enough for every race on two flags and one mutex in which
each thread takes part with one operation at a time; the theorems of section 5
lift `ftpfs_safety` to any number. A second handle makes "only one is alive" a
claim. One operation of each kind of control flow is run: `rename` for the
commands that only send, `remove_dir` for the one that records twice, `exec` for
the one whose failure is the closure's, `create` for the stores; `create_dir`,
`remove_file` and `append` take the same steps. One probe is enough for an
operation to come back through the lock; the second in `tokio_alone` lets a probe
follow a probe. The liveness runs leave symmetry off; `tokio_live` has one task, as
neither of its properties is about getting the mutex. The restart marker and the way
back from unusable to usable have no property of their own in `tokio_alone`: both are
part of `ManagedControl` (a connection with a marker is not clean, and a mark never
goes away while there is a session).

`pathprobe` has names that repeat from level to level, because the ambiguity of LIST is
about a directory and a file of one name, and bounds the ancestor probe at 2 instead
of 8 so that giving up happens within three levels. One change during an operation
lets the tree differ on the two sides of any LIST. `MaxLists` is where the count of
LISTs starts over, above every bound `ProbesAreBounded` claims, so that a runaway
probe is a lasso and not an infinite run; with the check for deadlock the bound says
that every operation ends, as a step that sends no LIST returns or goes up. In `connect_options` two
dials make "the previous session" a case, and three builder calls reach every pair of
options and a change between the dials. `listing_names` takes every name of one and
two symbols, a blank between any two, and the names that imitate padding or an arrow;
a row depends on its name only through the blanks at its ends, the arrows in it and
the characters that are refused. Two rows and the three lines that servers add
before them are enough for a name to be lost, doubled or attributed to its neighbour.
Rows are parsed one by one, so `Listing` gives the directory one entry of any kind and at most one
plain file beside it, in the theorems of section 5 as well.

Nothing ever has to happen in the client models, so a client at rest is not stuck:
deadlock is checked in their runs and those of `PathProbe`. `Connect` stops when its
dials and builder calls are used up, `TransferEnd` and `Listing` when their one
transfer or listing is over; their runs say `CHECK_DEADLOCK FALSE`.

## 4. Fairness

`FairSpec` adds weak fairness of `ThreadStep(t)` (`TaskStep(t)`) and of
`CleanupStep(h)`. A thread inside a call is scheduled and suppaftp's calls return;
a runtime polls a future that can make progress; a destructor that has begun runs
to its end. There is no fairness on beginning a call, reading, finishing, dropping
or cancelling: nothing makes the application do so, and `transfer_active` may stay
up for as long as it keeps a stream. Weak fairness is not enough for a thread to
*get* the mutex while others keep taking it, and `std::sync::Mutex` promises no
more, so no property says that it does; `LockIsReleased` is about the holder.
An exchange that never returns (the clients set no timeout) is outside the fairness
assumption: the properties are about clients whose sockets eventually answer or fail.

## 5. Proofs

`FtpFs`, for every set of threads and handles and every `MaxProbes`, from
`FtpFsAssumption` alone (the null values are not members, `Ops` are operations):

| theorem of `FtpFsProof` | says |
|---|---|
| `TypeCorrect` | `Spec => []TypeOK` |
| `CommandsInStep` | `Spec => []CommandsOnSyncedChannel` |
| `OneUserOfTheConnection` | `Spec => []ControlChannelExclusive` |
| `MarkersAreCleared` | `Spec => []NoStrayRestartMarker` |
| `StreamsKeepTheirSession` | `Spec => []HandleKeepsSession` |
| `UsableOnlyByReconnecting` | `Spec => UsableAgainOnlyWithoutStream` |
| `AnswersAreTrue` | `Spec => []SessionAnswersAreTrue` |
| `ConnectLeavesASession` | `Spec => ConnectLeavesItUsable` |
| `OffsetsAreHonoured` | `Spec => []ReadStartsAtOffset` |
| `NothingIsGivenUpLightly` | `Spec => []UnusableForAReason` |
| `ManagedClient` | `Spec => ImplementsManagedControl` |

The inductive invariant `IInv` adds to `TypeOK`:

* `LockInv`: a thread is at a place under the mutex exactly when it holds it.
* `BorrowInv`: during a `&mut self` call everybody else is idle.
* `ActiveInv`: a LIST that carries the stream keeps the flag up and the Option
  empty, there is at most one, and whoever has got past the first load of
  `check_operation_state` still finds the flag down. The last part is why the mutex
  makes a load and a later use atomic: only a holder raises the flag.
* `HandleInv`: a live handle implies flag and stream, there is at most one, and
  the stream that `open()` has not returned is the one that thread holds.
* `CleanInv`: when the connection is not clean (out of step, or with a marker),
  either the flag says so, or somebody is *excused*: a thread between an exchange
  and its recording, still under the mutex or with the LIST's stream, or a handle
  about to invalidate, still holding its guard. Everybody past the second load
  finds the connection usable and clean. The order of the two loads matters
  exactly here: a handle may stop being excused between them, and has
  invalidated before it lets the first load pass.

TLC finds `IInv` (and `SessionInv`, below) true in all states of the instance of `ftpfs_safety` (a module
that EXTENDS `FtpFsProof` and `TLC`, with the constants of that run). `CleanInv`
alone is not inductive: that the excused thread cannot be overtaken needs
`ActiveInv` and `HandleInv`, and these need `LockInv` and `BorrowInv`. Each has a
lemma `...Step` with one step per action. `ControlChannelProof` states once what an
exchange can leave behind (`CommandAnswers`, `DataCommandAnswers`, ...), so that
no proof about a client looks into a set of answers.

The refinement needs three facts more, `SessionInv`: connect() dials on a usable client
without a stream, QUIT is sent on a stream already given up, and a command that made no
transfer stream leaves the flag down. `ThreadIsAlone` and `HandleIsAlone` then say that
whoever uses the connection is its only user. One `...Bridge` lemma per abstract action
says what a step has to do to be that action; the last section has one lemma for each
group of code steps that maps to the same abstract action (nothing, use, acquire,
release, hand over, connect, hang up). `CleanInv` is what makes a release allowed.

What the client tells its callers takes one invariant per claim, inductive beside `IInv`:

* `AnswerInv`: `transfer_active` stands for a session (in its place, or carried by a
  LIST), and an answer given (true, or NotConnected) stays true until its call has returned,
  because taking the session away, or making one, needs `&mut self` and so every other call to
  be over. That `take` finds an empty Option only where there is no session is `ActiveInv`: the LIST
  that holds the stream keeps the flag up for as long.
* `OffsetInv` follows the offset through `open()`. At RETR the server holds a marker
  exactly when this thread's REST was accepted; nobody else can have left one, which
  is where `CleanInv` comes in. The stream starts at `ServedFrom`, and who still skips
  locally has `resumed` down, so its stream starts at zero: the skip, which advances `pos` from wherever
  it is, ends at `want` and not beyond.
* `ReasonInv`: whoever is about to mark the connection (a thread in `reset`, `record`,
  `fail`, `list_record`, a handle that failed or is about to invalidate) has a failure
  behind it, or a marker in front of it. It needs from `OffsetInv` that the end of the file means an empty
  socket: only then does a `finalize` that reads nothing cost nothing.

`ConnectLeavesItUsable` follows from the same: in `connect_reset` and `dial` nobody else is in a call
(`BorrowInv`) and no handle is live (`ActiveInv`, `HandleInv`), so nobody is excused and the flag
tells the truth about the connection (`ConnectFindsItClean`); and at `dial` the flag is up
(`ReasonInv`), also where a failed QUIT had left it down without a stream.

`TokioFtpFs`, for every set of tasks and handles and every `MaxProbes`, from
`TokioFtpFsAssumption`:

| theorem of `TokioFtpFsProof` | under | says |
|---|---|---|
| `TypeCorrect` | | `Spec => []TypeOK` |
| `OneUserOfTheConnection` | | `Spec => []ControlChannelExclusive` |
| `StreamsKeepTheirSession` | | `Spec => []HandleKeepsSession` |
| `ConnectedIsTrue` | | `Spec => []ConnectedAnswerIsTrue` |
| `LossOfStepIsMarked` | `FinishRunsToItsEnd` | `Spec => []OutOfStepIsMarked` |
| `CommandsInStep` | `OneTask`, `FinishRunsToItsEnd` | `Spec => []CommandsOnSyncedChannel` |
| `OffsetsAreHonoured` | `OneTask`, `FinishRunsToItsEnd` | `Spec => []ReadStartsAtOffset` |
| `ManagedClient` | `OneTask`, `FinishRunsToItsEnd` | `Spec => ImplementsManagedControl` |

The first four hold whatever is cancelled. `FinishRunsToItsEnd` says that `finish` is not
in `Cancellable`: findings 1 and 2 of section 6 are the reasons for the hypotheses.
`tokio_cancelled_finish` (one task) and `tokio_late_record` (nothing cancelled) each drop one
of them and violate `CommandsOnSyncedChannel`; the instance of the former violates
`OutOfStepIsMarked` as well. `tokio_alone` satisfies both hypotheses, so the theorems are not empty.

The argument is that of `FtpFs` (`LockInv`, `BorrowInv`, `ActiveInv`, `HandleInv`, and
`AnswerInv` with `connected = stream`), with `PhaseInv`, which operations reach which step, and
with two differences. A cancelled future stops at an await only, so that what is true at
`Awaiting` places has to be true of what its destructors leave behind. And the mark is made after
the mutex has been released, so `Marks` (somebody is bound to mark the connection) takes the
place of the excuse that holds the mutex: `MarkedInv`, for any number of tasks. Only with one
task does nothing come between the release and the mark; `CleanInv` and
`OffsetInv` are then as for the blocking client. The refinement rests on `SoloInv`, which adds
the first two facts of `SessionInv`; the mapping counts a task among the users until its mark is
made, so the step that releases is `DropOperationGuard` or the late record, not the one that frees the
mutex, and with one task nobody can acquire in between. TLC finds all of them true in the states of
`tokio_alone`.

`PathProbe`, for every set of paths closed under parents, every limit of the ancestor probe and
number of changes, from `PathProbeAssumption`:

| theorem | module | says |
|---|---|---|
| `TypeCorrect` | `PathProbeProof` | `Spec => []TypeOK` |
| `AbsencesAreReal` | `PathProbeProof` | `Spec => []AbsenceIsReal` |
| `ListsAreBounded` | `PathProbeProof` | `Spec => []ProbesAreBounded` |
| `ClaimsReal` | `PathProbeExactProof` | `Spec => []ClaimsAreReal` |
| `ExactAnswers` | `PathProbeExactProof` | `Spec => []ExactWhenListable` |

`AbsenceIsReal` alone speaks of the end of an operation and says nothing on the way there.
`StackInv` says which frame may wait for which (`Calls`), what each knows from the last
answer (`Told`) and what it keeps meanwhile (`Kept`): wherever one of these is an absence, the
path has been absent in some tree of `past`. Absence goes down the tree (`NothingBelowNothing`,
`AboveParent`), which is what lets the ancestor probe answer for the path it was asked about, and
`past` only grows. Each action is then one of `ReturnStep`, `CallStep` and `AncestorMoves`.
`ListsAreBounded` needs an account: `Cost` is what a frame may still send, and `BoundInv` says that what
has been sent and what is due stay within the allowance. Only the frame on top and the one at the
bottom have a cost (`WaitingIsFree`), so nesting multiplies nothing. TLC finds `IInv` and
`BoundInv` true in the states of `pathprobe`.

`ClaimsReal` and `ExactAnswers` share one invariant, `AnswersInv`. `StatSays` and `ListSays` give
each answer a meaning in two parts: a definite answer was true of some tree of `past`; and if the
operation has been `Calm` (no LIST failed for another reason, nobody changed anything) and the way
to the path is `Clear`, it is what somebody would say who sees the tree. `Knows` is what a waiting
frame has seen of this so far, `Climbs` how far below its caller's path everything is known to be
absent, `Heard` what the frame on top has just been told. All of it only speaks of a growing
`past`, or of `Calm`, which is never regained: every step is `Steady`, so the frames that wait
keep what they know (`KnowsKept`, `ClimbsKept`), and the lemma of an action is about the frame on
top alone (`CallSays`, `ReturnSays`, `MoveSays`). The last word of `stat` or `list_dir` decides
the operation: `StatEnds`, `ListEnds` and `ParentEnds` are turned into the two properties once.
The detours agree with the tree because of two facts about it: a file has nothing below it
(`FileAbove`), and a path that is absent under a clear way is within reach of the ancestor probe
(`ClearReach`). TLC finds `FramesInv` true in the states of `pathprobe`.

`TransferEnd` has no constants; the theorems say of its chains what its run finds:

| theorem of `TransferEndProof` | says |
|---|---|
| `RepliesAreTraceable` | `Spec => []CompletionIsTraceable` |
| `FailuresAreTold` | `Spec => []NothingIsLost` |
| `FailuresCostTheConnection` | `Spec => []FailedEndCostsTheConnection` |

A wrapper puts two members that are no `FtpError` in front of a chain, so that what could be
found in the chain is still found first (`WrapKeepsTrace`), and two failures never look like none
(`CombineOk`). `IInv` says which failures there can be at which point.

`Connect`, for every number of dials and builder calls, from
`ConnectAssumption`:

| theorem | module | says |
|---|---|---|
| `NoCredentialsInClear` | `ConnectProof` | `Spec => []CredentialsStayPrivate` |
| `OnlyCompleteSessions` | `ConnectProof` | `Spec => []StoredSessionIsReady` |
| `NoUnwaivedPeer` | `ConnectProof` | `Spec => []OnlyAcceptedPeers` |
| `CopiesFollowTheStream` | `ConnectProof` | `Spec => []CopiesMatchStream` |
| `NoSecondSession` | `ConnectProof` | `Spec => []OneSessionAtATime` |

Their `IInv` adds to a type invariant and the properties themselves: `DialInv`, the
exchanges of a dial come in their order and under the options the dial began with,
which no builder call can change half way; and `HistoryInv`, every session there has
been is numbered no higher than the dials so far, so that a new dial never writes over
what an older session was dialled with.

`Listing`, for every set of paths, entries and junk lines made of the characters that the
texts tell apart, each of any length, from `ListingAssumption`:

| theorem of `ListingProof` | says |
|---|---|
| `NamesAreExactAlways` | `Spec => []NamesAreExact` |
| `OrdinaryNamesAreListedAlways` | `Spec => []OrdinaryNamesAreListed` |
| `JunkFailsTheListingAlways` | `Spec => []JunkFailsTheListing` |
| `ListedPathsAreUsableAlways` | `Spec => []ListedPathsAreUsable` |
| `WireNamesThePathAlways` | `Spec => []WireNamesThePath` |

`ListingAssumption` says that junk is what the parser, given that line alone, refuses or cannot
read. What `JunkFailsTheListingAlways` adds is the loop's: nothing is passed over on account of
where it stands or of what has been read before, but the count of blocks as the first line. Which
lines are junk is a matter for TLC, which evaluates the assumption for the lines of `MCListing`.

`Components`, `FieldSpans`, `Separators` and `Resolved` are folds over a text, and no prover here
instantiates an induction theorem. Induction is done by the least counterexample
(`UpTo`, from the library's `WFMin` over the natural numbers), and a fold is unrolled into a *run*, a
function from 0 to the length of the text whose values are linked by the fold's step (`Unroll`). What
a run has to look like on a row is then known field by field: `PosixRow` and `DosRow`, whose
columns may be aligned or not. `RowRead` says that a row which is not refused is read as
its label, and `LabelRead` that a label is read as the name and the target it was made of; the
check for ambiguous links has to be used for exactly this, and two arrows that share a blank are
the exception that `NamesAreExact` makes (finding 3). `ChildUsable` says of a name that is not
refused that its path is the directory's and that name, for `Components` as for `Resolved`.

The properties speak of a finished listing; `IInv` says what it is on the way there. `Asked` ties
what was sent to what was asked for. `RowsAreLeft` says that the lines left are the rows of the
entries not found yet, after lines that name the directory itself or the count, and that the
files found are those before: this is what `NamesAreExact` needs in order to be inductive.
`JunkIsLast` is the same for a listing with junk, `FilesAreUsable` is about the files of a listing that
may yet fail. TLC finds `IInv`, apart from the typing,
which has no finite set to range over, true in the states of `listing_names`.

Only model-checked, and why:

* all liveness (`LockIsReleased`, `CleanupFreesTheClient`): fairness and ENABLED are beyond the prover.
* the three violations of section 6: a counterexample is one run.

Every other property of a passing run is a theorem. `UsableOnlyByReconnecting` is proved only: what a
run could find against it, `ConnectLeavesItUsable`, `CommandsOnSyncedChannel` and `ManagedControl` find too.

## 6. Where documentation and code disagree

1. `tokio_late_record`: `run_command`, `list_dir_raw` and `exec` unlock before they
   mark the connection; a waiting task may send a command on a connection that has
   lost step. The blocking client records under the lock. (The same window opens when
   a call is cancelled: `StreamGuard` drops its mutex guard before its
   `OperationGuard`.)
2. `tokio_cancelled_finish`: cancelling `finish().await` before the data is drained
   does not mark the connection, unlike dropping the stream.
3. `listing_arrows`: in `x -> -> x` the two separators share a blank; the check for
   ambiguous link rows counts one, and the row is read one way although it has two
   meanings.

`tokio_shared` states what does hold with the first two: damage is marked, or the task or
stream that did it is just about to mark it. `tokio_alone` shows that a client used
by one task at a time, whose `finish()` futures run to their end, is safe.

Smaller divergences have no run of their own. The models contain the behaviour, and
their properties say no more than what holds with it:

* `sync.rs:765`: a failed QUIT leaves the client unusable *and* without a stream, so
  operations report `ConnectionError` where `with_stream` (`sync.rs:343`) documents
  `NotConnected`. The next `connect()` clears the flag all the same (`ConnectLeavesItUsable`).
* `sync.rs:330`: while another thread's LIST has the stream out of the mutex,
  `welcome_message()` is `None` on a connected client, where `sync.rs:313` promises the
  banner "if connected". (The asynchronous client answers from a copy.)
* `sync.rs:773`: `is_connected()` may answer false of a connected client, if another
  thread's LIST ends between its look at the Option and its load of `transfer_active`.
  No document of the repository promises otherwise; `SessionAnswersAreTrue` is about the
  answers true and `NotConnected` only.
* `tokio.rs:623`: a failed reconnection keeps the banner of the connection that was
  dropped. `CopiesMatchStream` asks for the right banner of a session there is.
* `sync.rs:427`: a refused `open` or `remove_file` whose probe sees the file, or cannot
  see anything, is reported as `NoSuchFileOrDirectory`, although `sync.rs:417` classifies
  "after probing for positive evidence"; the other four classifications keep such refusals
  ambiguous. No property claims more of it than the code does: `AbsenceIsReal` leaves this
  operation out, and `ExactWhenListable` takes its fallback from the code.

## 7. Not modelled, and the plan

Not modelled: `capabilities`, `copy`, `symlink` and `set_metadata` (they touch no state
and send nothing); the crate facade and the test support; log messages; panics and
the poisoning they cause (the code ignores poisoning); raw transfers the application
leaves unfinished on `stream()` (the documentation forbids them); the Windows branch
of `remote_path` and `resolve` (backslashes are converted, then the same rules hold);
sizes, times, owners and permissions of entries (copied from suppaftp's parser); line
ends inside file names (LIST has no way to quote them: such a name makes two lines).
suppaftp, the network, servers, certificates and other clients are external: they
are modelled by what the code in `src/` can meet. The control connection stays
`partly`, because the library's own state is not there to be translated.

The models are composed by hand-over, not in one state space: `FtpFs` and `TokioFtpFs`
take a dial, a probe's verdict and the text of a listing as nondeterministic choices,
and `Connect`, `PathProbe` and `Listing` say which choices there are and why.
