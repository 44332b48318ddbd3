# dometic-ddmp in TLA+

A formal model of `ddmp`, the Python library that talks to Dometic CFX5
coolers over TCP: TLA+ modules translated from the source, TLC configurations
that model-check them, and theorems that TLAPS proves. Line numbers refer to
`src/ddmp/*.py` of the repository.

## The system

| Component | State it keeps | Operations | What is hard about it | What makes it correct |
|---|---|---|---|---|
| `aio.AsyncClient` | `session`, `_events`, `_pending`, `_closed`, `close_reason`, the reader task | `connect`, `send`, `subscribe_all`, `set`, `close`, `events`, `_read_loop` | tasks interleave at every await; timer, cancellation, end of the connection and answer race | pending writes are exactly the calls in progress; each is answered once or told that nobody can answer; `close()` ends everything |
| `sync_client.SyncClient` | `session`, `_sock`, `_lock`, `_closed`, `close_reason`, the reader thread | the same, with callbacks; `set` does not wait | preemption anywhere outside the lock, callbacks without it, sends that fail half-way | frames never mix; `on_close` runs once; the socket is freed |
| `session.Session` | `values`, `raw`, the decoder | `feed`, `set_frame`, `subscribe_frames` | writes are built from published values | what is published is what `value()` returns; an echo confirms its write |
| `protocol` | `LineDecoder._buf`, `dropped`; topic table | `feed`, codecs, `assert_writable` | chunks cut anywhere, garbage lines | frames do not depend on the chunks; the allow-list |
| `models.CoolerState` | none | `from_values` | values missing or of the wrong type | every compartment that was published is there |
| `discovery` | `_MdnsCollector` tables, `asked`, `deadline`; `found` | `query_mdns`, `probe_ddmd`, `discover`, `find_cooler` | answers lost, late, in any order; two sources merged | what was resolved is reported; merging keeps what is confirmed |
| `__main__` | the event list of `_write` | `watch`, `state`, `set`, `set-temp`, `discover` | echo and deadline race | the exit code tells what the cooler did |
| the cooler, TCP (external) | its values, its connections | SUBSCRIBE, SET | accepts, refuses, ignores, hangs up | - |

The clients own one connection each. Bytes from the socket go through
`LineDecoder` and `Session.feed`, which updates `values` and returns events; the
client hands the events to whoever waits for a write and to the consumer. A
write is built by `Session.set_frame` from `values`, sent, and confirmed when a
publish within the tolerance arrives. Discovery is independent of the clients
and only yields an address.

The list of hazards, each at its line and with the properties that would catch
it going wrong, is in `PROJECT.json`.

## Modules

| Module | Models |
|---|---|
| `SessionOps` | the topic table, the int32 codecs, `set_frame` and `WriteExpectation.matches` as operators |
| `Wire` | the TCP connection: two FIFO channels of frames and how it ended |
| `Cooler` | the external device, after the README of the library and `tests/fake_cooler.py` |
| `AsyncClient` | `aio.AsyncClient`: one action per stretch of a coroutine between two suspension points |
| `WritePromise` | abstract: what `set()` promises, without wire, reader or timer |
| `AsyncSystem` | the client and the cooler together: specification, fairness, properties, refinement |
| `SyncClient` | `sync_client.SyncClient`: one action per stretch of a thread that others cannot see a part of |
| `SyncSystem` | that client and the cooler: specification, fairness, properties |
| `CommandLine` | the commands of `__main__` that talk to a cooler, on a `SyncClient` |
| `CommandSystem` | a command, its client and the cooler: specification, fairness, properties |
| `LineDecoder` | `protocol.LineDecoder`: lines out of a stream |
| `SessionFeed` | `Session.feed` over a stream cut anywhere, and `CoolerState.from_values` |
| `FeedSystem` | its properties: what values, events and state are for a stream, said without chunks |
| `MdnsBrowse` | `query_mdns` and `_MdnsCollector`, with the time that passes |
| `Discovery` | `discover()`: the browse, the probes and `remember()` |
| `DiscoverySystem` | its properties |
| `MCAsync`, `MCSync`, `MCCommand`, `MCFeed`, `MCDiscovery` | the values of the constants for TLC |
| `SessionOpsProofs`, `CoolerProofs`, `SyncClientProofs` | lemmas about sequences, the operators, the cooler and the types of `SyncClient`; two theorems about writes |
| `AsyncSystemProofs`, `SyncSystemProofs`, `CommandProofs`, `DiscoveryProofs`, `FeedProofs` | the theorems about each system |

Each `...System` extends the component it is about; `CommandLine` extends
`SyncClient`, and both clients extend `Cooler`, which extends `SessionOps` and
`Wire`. `SessionFeed` extends `SessionOps` and `LineDecoder`, `Discovery` extends
`MdnsBrowse`. Operators named as mutants ("Mutant: ..." in their
comment) are plausible bugs of the definition that follows them. No behaviour of
the specification uses them; replacing the definition by one shows that a
property notices it.

### How state and actions correspond to the code

* `values` is `session.values`, `pending` is `_pending` by writer, `fut` the future
  of each call of `set()`, `closed`, `closeReason` and `queue` are `_closed`,
  `close_reason` and `_events`. `task`, `reader`, `closer` and `consumer` say at
  which await each coroutine is. `fate`, `delivered` and the field `by` of a SET are
  ghosts: the code has no such state and no guard of an action depends on them.
* An action is what runs between two suspensions. `ReadChunk` is one turn of
  `_read_loop`: `feed`, then `_resolve` and `put` for each event. It is atomic because
  `put()` on a queue without a limit never suspends. The chunk is any non-empty prefix
  of the frames that are there.
* `Set` runs from the call to the first suspension: `set_frame` and its exceptions
  first, then the check of `_closed`, the write, and `drain()`, which suspends only while
  the transport has paused writing. `SetDrained`, `SetReturns` and `TimerFires` are the
  rest, `Return` the `finally` block.
* `wait_for` (Python 3.12) cancels the task when its timer fires. If the future is
  settled at that moment the task is cancelled all the same: `TimerFires` is not
  disabled by an answer, only by the task having run again.
* `CloseStart` is `close()` up to `await self._task`; `CloseJoined` goes on when the
  reader task is over, `CloseFinish` after `wait_closed()`; `CloseSkipped` is the early
  return. A reader cancelled before its first step never enters its `try` block
  (`ReaderDropped`): nothing fails the pending writes and nothing puts `None` but
  `close()` itself.
* At the end of file the client's transport stays open until somebody closes
  the writer. A reset closes it, drops what is on the way and in the buffer, and
  makes every waiting `drain()` raise.

### How the threads of SyncClient correspond to actions

* `reader` says where the reader thread is; `"calling"` is inside `on_event`,
  `"onclose"` inside `on_close`. `task[w]` is a thread in `set()`, `task[NoWriter]` the
  one in `connect()`, `closer[c]` one in `close()`. The calls in `InCallback` are made
  by a callback: they start only while the reader is inside one, one at a time,
  and the callback returns when they are over.
* The lock has no variable: it is held in the states `LockFree` excludes, from
  `SendStart` to `SendRest` or `SendFails`, and from `FeedLock` to the last
  `FeedFrame`. `set_frame` under the lock is one step, `Build`, which then lets go of it.
  The lock is reentrant in the code; no call that holds it makes another.
* Everything else is split where another thread could come in between: the test
  and the setting of `_closed` (`CloseTest`, `CloseMark`), the assignment of
  `_reader` and its start (`MakeReader`, `StartReader`), the check of `send()` and the
  lock (`SendCheck`, `SendStart`), `_closed` and the socket at the end of the reader
  (`ReaderMarks`, `ReaderCloses`).
* `sendall()` writes a line in two pieces. `tail` has the threads whose first piece is
  the end of the stream. The terminator comes with the last piece, so whatever
  else is in `tail` ends in the same line, which the cooler discards (`Garbage`).
  `SendFails` is an `OSError`: the socket is closed, the connection is gone, or the peer did
  not read for a second (at most `MaxStalls` times); the first piece is sent or not.
* `join()` waits 1.5 s: `CloseJoin` may give up at any moment before the reader is done.
* `seen` is a history variable: what `on_event` was last given for each topic.

### How the command line corresponds to actions

* The main thread is one thread of the client: `NoWriter` in `connect()`, `Write` in
  `send()`, `Shut` in `close()`; `step` says where it is in the command. The steps of
  `send()` and `close()` are those of `SyncClient`. `set_frame` runs without the
  client's lock here (`Prepare`), as in the code.
* `received` is the list `events` of `_write`; the reader thread appends to it
  (`EventArrives`, the `Dispatch` of the client with the callback in it), the main thread
  clears it (`ClearEvents`) and drains it (`Poll`). `arrived` is a history variable: all
  events since the list was cleared.
* `late` becomes true at some moment after the send; a round of the loop that finds
  it so ends the command with 4. A command that raises ends with 1, before
  `connect()` returned without closing the client, afterwards through `finally`.

### How the feed corresponds to actions

* A stream is a sequence of pieces: the terminator, blanks, and parts of frames and
  of garbage. `FrameOf` says which texts base64 and `Frame.decode` accept, and which frame
  they are. A chunk is any prefix of what was sent, so a frame may be cut at any piece.
* `session` is one record: `values`, `raw`, the `_buf` and `dropped` of the decoder, and
  the history `events`, all that `feed()` returned so far. `Feed` is one call of `Session.feed`.
  `Drain` is its loop, as many `Turn`s as the buffer has pieces; those after the last terminator
  change nothing. `TakeLine` is the body: the line leaves the buffer, and is skipped, counted as dropped,
  or handled (`Handle`). The code collects the frames of a chunk first and then goes through them;
  as nothing comes in between and neither loop looks at the other's state, one loop does both here.
* A payload is whole words and 0 to 3 more bytes; only the arrays accept the latter.
  `StateRaises`, `CompartmentCount` and `Compartments` are `from_values` for the topics with
  compartments; `<<>>` in a compartment is `None`.

### How discovery corresponds to actions

* `loop` is the place in the loop of `query_mdns`; `clock` is the time since the first
  query and moves only in `recvfrom()`: by a whole wait when nothing comes, by any of `Delays`
  when a packet does. The socket is read by one thread, which nothing else disturbs.
* A packet is the records it has and the question it answers. It may come when that question
  was sent (`sent`), as often as it likes, or never; a packet that answers somebody else
  comes at any time. So an answer or a question that is lost, a repeater that
  answers twice, and any order of answers are all in the model. A send that fails leaves
  `sent` alone although `asked` grows, as in the code.
* The collector keeps its four tables. Names stand for what `lower()` makes of them.
  An instance and a host whose names differ in case only are one name here; the code folds
  the case of hosts and looks an instance up as written first. A TXT record names a firmware or does not
  (`Texts`), and a later one replaces it, as a later SRV does.
  `AddAll` is `add()`: a recursive function over the records of the packet. An address that
  comes twice is kept once, which `services()` does in the code when it reads the list.
  `heard` and `since` are history variables: all records so far, and since when each
  record that is missing has been missing.
* `discover()` is one action per source: a `Hit` is the probe of one service, then
  `remember()` of the answer and of the service; `Broadcast` gets an answer from any of
  the coolers; `ProbeHost` is one named host. `found` has an entry without sources
  where the code has none. Hits and hosts are taken in any order, for the names that
  the code sorts by are arbitrary. A cooler stands for its `short_id`.

### Abstractions

* A payload is the sequence of its int32 words. Words of a temperature are
  thousandths of a degree; decoded temperatures and set-points asked for are
  ten-thousandths, so the rounding of the encoder is visible. `<<>>` stands for
  everything the code treats as falsy in its place: not published, an empty array, the
  empty bytes kept after a `DecodeError`. A scalar codec reads the first word only (`Used`).
  The tolerance 0.051 is 510.
* Payloads that end in one to three bytes are in `SessionFeed` only: the cooler publishes
  whole words to the clients. Of a write two such cases are left out: bytes kept for a bool, which
  `_close` takes for true, and a short `nocpt`, with which `state()` raises (`StateRaises`)
  and the command `state` exits with 1 (`State` of `CommandLine` exits with 0).
* Compartment `None` behaves as 0 everywhere and is 0.
* Encoding a value outside int32 raises in the caller before anything
  changes and is left out; so are string values, which `_coerce` maps to the modelled ones.
* `connect()` begins when the TCP connection is there. Its burst of 23 frames
  is far below the high-water mark of the transport, so no `drain()` in it suspends
  and the reader has not run when it returns.
* Both sleeps of `SyncClient` are left out (`subscribe_spacing` gives other threads
  time, which they have anyway), and `state()` and `value()`, which only read under the lock.
* What the TCP stack reports as `ETIMEDOUT`, which Python raises as the same
  `TimeoutError` as a timeout of `recv()`, is left out: the reader would loop once more.
* A timeout of zero or less, which makes `wait_for` behave differently, is left out.
* The cooler may publish a value `n \in Copies` times. The runs use one copy: a
  second one settles nothing that the first one has not.

## Runs

All with `-workers 2`. `CHECK_DEADLOCK FALSE` everywhere: when every call has
returned and the connection is gone, the system has stopped.

| Run | Instance | Distinct states | Shows |
|---|---|---|---|
| `async_safety` | 2 writers, 1 closer, topics `coolerpow` and `csettemp`, four requests (one out of range, one not writable) | 517,957 | the bookkeeping of pending writes, settling once, nobody left waiting, rejection only after a refusal, refinement of `WritePromise` |
| `async_stream` | 1 cancellable writer, 2 closers, 1 consumer, 1 change at the panel, 1 pause of the transport | 909,502 | event stream and state agree, `close_reason`, the inductive invariant, silence after `close()` |
| `async_live` | 1 cancellable writer, 1 closer, 1 consumer, 1 pause | 40,410 | calls end, with a cooler that never answers and a connection that breaks |
| `async_close_leak` | 1 writer, 1 closer | - | violated: `close()` after end of file leaves the socket open |
| `async_lost_update` | 2 writers, 2 zones | - | violated: overlapping writes to two zones undo each other |
| `sync_safety` | `connect()`, 2 writers and 2 closers, one of each in a callback, 1 stall | 455,523 | lines not mixed, callbacks agree with the state, the reason of `on_close`, silence after `close()` |
| `sync_live` | `connect()`, 1 writer in a callback, 2 closers, one of them in a callback | 10,753 | sends and `close()` end, the socket is freed |
| `sync_send_timeout` | 1 writer, 1 closer, 1 stall | - | violated: `ConnectionClosed` from a client that is connected |
| `command` | each command; writes that switch off, switch on again, are refused locally; 1 change at the panel, 1 stall | 277,649 | types, exit codes tell the cooler's decision, no SET without `--yes`, commands end |
| `feed` | 3 lines of 14 kinds, cut anywhere | 28,252 | frames, counts, values and compartments do not depend on the chunks |
| `discovery` | 2 coolers, 9 kinds of packets, up to 4 of them, a browse of 1 s, 1 named host | 2,052,918 | nothing heard is lost, questions and the early stop are in time, the merged list has every cooler and its sources |
| `discovery_stale` | the same with 2 packets | - | violated: a cooler listed with the address of another |

### Bounds

Each call of `set()` and `close()` runs once, so the number of writers and
closers bounds the calls. Two writers are the least that can share a NAK, a chunk
or a stale array; two closers the least that overlap. `MaxChanges` and
`MaxPauses` bound what the outside does; a second change or pause puts the client in
no new situation, for it keeps no count of either. `MaxStalls` bounds the sends that
time out on a good connection: one is enough to leave half a line, a second only adds another.
`MaxLines` is three: a line that is cut, one before it and one after it. `MaxPackets` is four, what it takes to resolve
one instance from PTR, SRV, TXT and address apart; times are in twentieths of a second, and a
browse of one second leaves room for two rounds of questions. The channels need no bound of
their own: every frame comes from a subscription, a write or a change. The
proofs use none of these bounds.

### Fairness

`LoopFairness` is weak fairness of what the event loop runs: the reader, the
steps of each `set()` after its start (the timer is one of them: a deadline
passes), the steps of `close()` after its start, and `get()` in `events()` (a consumer
that goes on iterating). asyncio runs every ready callback, and no step here is
enabled only now and then. Nothing is assumed of the cooler, of the callers
(`Set`, `Cancel`, `CloseStart`), or of the peer's reading (`ResumeWriting`);
therefore `WritesEnd` says nothing of a call stuck in `drain()`, which has no
timeout in the code either.

`ThreadFairness` is the same for threads: weak fairness of the reader, of `connect()`
after it has dialled, of each send and of each `close()` after its first line. `recv()`,
`sendall()` and `join()` have timeouts, callbacks are supposed to return, and a
thread takes the lock only finitely often while another waits for it (the reader
once per chunk, a writer once per call), so weak fairness is enough for the lock.
Nothing is assumed of the cooler or of who calls what. `CommandSystem` adds weak fairness
of the main thread and of the echo timeout, not of Ctrl-C. The browse and the feed
have no fairness: what is said of time there is said as safety.

## Properties

Of `AsyncSystem`:

* `TypeOK`: the types; it fails when `feed` forgets a topic.
* `PendingIffInFlight`: an entry of `_pending` lives exactly as long as its call.
* `NoOrphanWait`: after the reader's end nobody waits for an answer. The
  exception, a reader cancelled before its first step, is in the code.
* `RejectedOnlyAfterRefusal`: `WriteRejected` needs a refusal of some SET of this client to that
  topic; a publish of another value is none. That it is the refusal of *this* write, and what
  `errors.py` says of other values, do not hold (below).
* `FutureSettledOnce`: no answer, timer or end of the connection overwrites a
  result.
* `PromiseKept`: `AsyncSystem` implements `WritePromise`. Answers come only while the reader
  reads (phase `"open"`). The only way out of there, at once or after `close()` (`"ending"`), is `Lose`,
  which tells every call that still waits. The exception has a phase of its own: a reader that
  `close()` cancels before its first step tells nobody (`"dropped"`).
* `StreamAgreesWithState`: folding the events gives `state()`.
* `CloseReasonTellsWho`: `close_reason` is `None` exactly if the caller closed.
* `NothingAfterClose`: when a `close()` that did not return early is done, no
  value changes and no event is added.
* `ClientInv`: the inductive invariant (below).
* `WritesEnd`, `CloseReturns`, `EventsEnd`: liveness under `FairSpec`.

Of `SyncSystem`:

* `TypeOK`: the types; it fails when the burst of `connect()` sends one frame too many.
* `LinesNotMixed`: no line holds pieces of two sends unless a send has raised.
* `CallbacksAgreeWithState`: what `on_event` got and what it is about to get add up to
  `session.values`, also when `close()` comes in the middle of a chunk.
* `CloseReasonHonest`: no error without the connection having ended by itself,
  and none missing unless some `close()` was called.
* `NothingAfterClose`: after a `close()` that joined the reader, or found none, no
  call of `on_event` runs or starts, nothing is received and no value changes. `on_close` is
  excepted: a reader that a `connect()` still dialling starts after such a `close()` calls it.
  It says nothing of a `close()` in a callback, of an early return, or of a `join()` that gave
  up, after which the reader may go on.
* `SlotFreed`, `SendsEnd`, `CloseReturns`: liveness under `FairSpec`.

Of `CommandSystem`:

* `TypeOK`: the types; it fails when the burst of `connect()` sends one frame too many.
* `FirstAnswerDecides`: the exit code is the first answer since the list was cleared,
  whatever the two threads do; after 4 every answer is still in the list, unexamined.
* `ExitTellsFate`: 0 means applied, unless the value was there before or somebody else
  made the change; 3 means refused.
* `OnlyYesWrites`: without `--yes` no byte of a SET leaves.
* `CommandEnds`: writes and `state` end, and `watch` ends when the connection has.

Of `FeedSystem`:

* `ChunksDoNotMatter`: events, count of dropped lines and buffer are functions of the
  stream received. The definition looks at the terminators only, not at chunks.
* `StateIsLatest`: `values` and `raw` are the last publication of each address, and the
  compartments show exactly the arrays published last. It also says when `state()` raises: when
  the last count of compartments is one to three bytes long.

Of `DiscoverySystem`:

* `NothingHeardIsLost`: what is reported is a function of the set of records heard
  (of the last SRV and the last TXT of an instance, if there were several), not of their order.
* `FollowUpInTime`: no missing record waits for its question longer than one interval and
  one wait. A question is asked once, and counts as asked when its send failed
  (`discovery.py:319-320`); what happens when it is lost is not promised.
* `EarlyStopLeavesNothingOld`, `EndsInTime`: a browse that stops early abandons only
  what came up in the last 0.3 s and one wait, and none goes on after its timeout by more than a wait.
* `MergeKeepsAll`: at the end every cooler that answered or was browsed is there; it has an id, a
  firmware, an instance and an address if one of its sources gave one, and lists exactly the
  sources that named it. Which of several values it has is not said.

Four statements of the documentation that the code does not keep have a run each,
quoted under "findings" in `PROJECT.json`. `LinesNotMixed` and `ClosedMeansNotConnected`
meet in one of them: the send that raised leaves the half line that
spoils the next one.

Three more disagreements are in the model without a run:

* `errors.py:25` says of `WriteRejected`: "The cooler answered a SET with NAK, or published a different
  value." After a publish of another value the call waits on (`matches` returns `None`, `session.py:77`),
  and only a NAK raises `WriteRejected` (`aio.py:172-173`). The code does what `README.md:65-67` and the
  docstring of `matches` (`session.py:68-70`) say, and has to: the cooler publishes the old value first,
  and a client that took it for a refusal would reject every accepted write. It is the docstring
  of the exception that is wrong. The mutant `MatchesStrictly` is the behaviour it describes, and
  `RejectedOnlyAfterRefusal` fails under it.
* A NAK has a topic and no reference to its SET. `matches` says that it returns `False` "when the cooler
  refused it with a NAK" (`session.py:65-66`), but one NAK rejects every pending write to its topic
  (`aio.py:166-173`), also one that the cooler accepts, and one that was begun after the refused one
  had timed out. `RejectedOnlyAfterRefusal` says what remains true, that some SET of this client to the
  topic was refused; it is not about this hazard.
* `WriteTimeout` may be raised for a write whose echo was processed in the same turn of the
  loop as the timer (`aio.py:115`); `FutureSettledOnce` says what remains true.

## Proofs

Checked by `tlapm` for every value of the constants that satisfies the named assumptions:
`CoolerAssumption` with `ClientAssumption`, `SyncAssumption` or both `SyncAssumption` and
`CommandAssumption`; `BrowseAssumption` with `DiscoveryAssumption`; `PiecesAssumption`
with `FeedAssumption`. They give types, say that an interval and a wait are not zero, that
`None` is no name, that no line has a terminator in it, and that the empty text is no frame
(`feed()` skips it before it could be one).

Of `AsyncSystem`:

* `TypeCorrect`: `Spec => []TypeOK`, one step per action, with lemmas on chunks and
  sequences (`SplitSeq`, `ChunkTypes`, `FirstAndLast`).
* `ClientInvariant`: `Spec => []ClientInv`. `NoOrphanWait` is not inductive alone. A
  new write is safe only because `closed` is true once the reader is over, the
  reader's end reaches a write only because the write is in `_pending`, and
  `close_reason` is right only because at most one `close()` goes past the early
  return. `ClientInv` says these together; `PendingExact`, `NobodyLeftWaiting` and
  `CloseReasonCorrect` follow.
* `SettledOnce` and `QuietAfterClose`: action properties, from `TypeOK` and
  `ClientInv`.
* `ImplementsPromise`: `Spec => PromiseKept`. The mapping hides reader, wire and
  timer: the reader's first step is a `Listen`, a chunk an `Answer`, the reader's end a `Lose`,
  a `close()` that cancels it a `Stop`, or a `Drop` when it had not started; the timer and a
  cancellation are a `Leave`, everything else a stutter. It needs `ClientInv`: an
  answer while the connection is closed would be no step of the promise.
* `StreamIsState`: `StreamAgreesWithState` is inductive with the types. The argument is about
  the last publish in a sequence (`Latest` in `CoolerProofs`): appending, taking off the head and
  concatenating a chunk each change it the way the client changes `values` and `delivered`.
* `RejectionIsRefusal`: `RejectedOnlyAfterRefusal`, from `AnswerInv`, which follows a SET on its
  whole way. `SetsTraced`: a SET on the wire is the only one of a call that has begun, about the
  topic of its expectation, and undecided. `ApplyingTraced`: a SET being applied was accepted,
  so a refusal is never taken back. `RefusalsTraced`: every NAK on the wire and every
  rejected future has a refusal behind it, and a call that has not begun has no fate.

Of `SyncSystem` (after the types, all from `SyncInvariant`, `Spec => []SyncInv`):

* `SyncTypeCorrect`. `TypeOK` needs two facts more to be inductive: `connect()` has a subscription
  left for every send it makes (`BurstBounded`), and the reader takes the lock with a
  chunk in hand (`ChunkNotEmpty`).
* `SyncLinesApart`, from `OneHolder` (one thread is in `sendall()` or `feed()`) and
  `LinesWhole` (until a send fails, the bytes at the end of the stream are those of the send
  in progress).
* `SyncCallbacksAgree`: inductive with the types.
* `SyncCloseReason`, from `ErrorHonest` and `ClosedBySomeone`: `_closed` is set, by a `close()` that
  is still known, before the socket is closed.
* `SyncQuietAfterClose`, from `ReaderGone` and `OneReader`: a `close()` that found no reader
  may meet one that starts later, which finds `_closed` set and ends.

Of `CommandSystem`, on top of the types of `SyncClient`, all from `CommandInvariant`
(`Spec => []CommandInv`):

* `CommandTypeCorrect`: the types, as above.
* `DryRunWritesNothing` (`OnlyYesWrites`), from `Placed` and `SetTraced`. The guard that keeps a
  dry run from sending is in one step and the byte that must not leave in another thread's
  steps later: `Placed` ties the place of the main thread to that of its `send()`,
  `SetTraced` follows the SET from there to the cooler, as the only one.
* `ExitCodeTrue` (`ExitTellsFate`), from `Honest`: while nobody has touched the value, every
  publish on the wire, in the buffer, in a callback or in the list has the value from the start,
  and every NAK there means that the cooler refused. So what confirms a value that was not
  there before can only be an echo of the SET.
* `FirstAnswerCounts` (`FirstAnswerDecides`), from `ListKept`: the list is the end of what
  arrived, and nothing polled so far decided. The reader appends to both at once, the main
  thread takes from the front of one.

Of `DiscoverySystem`:

* `FollowUpsInTime`, `EarlyStopIsFair`, `BrowseEndsInTime`: the timing of the
  browse, from `BrowseInv`. Its parts say that the loop waits only before its deadline and
  before `next_send` (so that it passes each by less than a wait), that `next_send` is at most one
  interval after any open question came up, and that a deadline that was moved is at most 0.3 s
  after any open question came up: when it was moved nothing was open. What a packet does to
  the collector is not looked at.
* `NothingIsLost` (`NothingHeardIsLost`), from `CollectorInvariant`: each table of the collector is
  determined by the set of records heard so far (`Kept`), but for the choice among several SRV or
  TXT of one instance. `AddKeeps` is one record; `AddAllKeeps` a packet of any length, by the least number
  of records after which it would fail.
* `ListKeepsAll` (`MergeKeepsAll`), from `MergeInvariant`: the entry of each cooler says exactly what the
  answers so far and the services handled so far (`Merged`) say of it, neither more nor less
  (`Says`), field by field present or not. `ReplyAdds` and `HitAdds` are one call of `remember()`; at the end `Merged` is
  everything.

Of `FeedSystem`:

* `FeedInvariant` (`Spec => []FeedInv`). The two properties are not inductive, for in the middle of
  the loop the buffer still has lines in it. `Consumed(s, done)` says that a session is what a
  stream of whole lines `done` makes of it, and `Fed` that `done` with the buffer behind it is all
  that came. A turn moves one line from the buffer to `done` (`TakeLineConsumes`), for each of
  the four things a line can be; `DrainKeeps` goes through the turns, and shows that as many as
  the buffer has pieces are enough to leave no terminator, since each one shortens it.
* `ChunksNeverMatter` (`ChunksDoNotMatter`) and `StateAlwaysLatest` (`StateIsLatest`) follow: bytes
  behind the last terminator make no line. The second one rests on `ArraysShown` and
  `ManyCompartments`: an array of `from_values` has in place i what the codec's values
  say of compartment i, and no array is longer than the list of compartments.

Of the operators:

* `OthersKeepPublished` (`SessionOpsProofs`): a SET carries the last published value of the
  other compartments.
* `EchoConfirms` (`CoolerProofs`): what the cooler stores and publishes for an accepted SET
  confirms it, for every value asked for.

Two inductions over data are in these proofs, over the records of a packet and the turns of the
loop. The induction theorems of the library take an operator as a parameter, which the
installed provers cannot instantiate; both proofs use the least counterexample instead, which
needs only that a set of numbers has a least element.

Every invariant and every action property that a run checks is proved. Only model-checked: the
liveness properties (`WritesEnd`, `CloseReturns`, `EventsEnd`, `SlotFreed`, `SendsEnd`,
`CommandEnds`), because fairness and `ENABLED` are out of the prover's reach. What a run shows to be
violated has no theorem.

## Not modelled, and the plan

Done, each with its properties and mutants:

1. `SessionOps`, `Wire`, `Cooler`, `AsyncClient`, `AsyncSystem`, `WritePromise`, with theorems.
2. `SyncClient`, `SyncSystem`, with theorems.
3. `LineDecoder`, `SessionFeed`, `FeedSystem`, with theorems.
4. `MdnsBrowse`, `Discovery`, `DiscoverySystem`, with theorems.
5. `CommandLine`, `CommandSystem`, with theorems.

Left:

6. Several consumers of `events()`, and a `connect()` of `AsyncClient` whose burst fails.
7. An abstract specification of a write with `SyncClient` (`set()` returns without an answer) that
   `SyncSystem` implements, as `AsyncSystem` implements `WritePromise`.

Left out for good: printing, argument parsing, logging, the JSON and DNS wire formats
(conversions, without state that anything else sees), error texts, keepalive and socket
options, string topics, live tests.
