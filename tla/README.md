# A TLA+ model of acord

acord is the Alpaca Core daemon: a WebSocket server behind which inference
providers run. A browser, a script or the C++ client library opens a web
socket, exchanges *frames* (an operation and its data) with a coroutine on the
server, has it fetch model files, and in the end has its connection handed over
to a provider.

This directory models the parts of it that run concurrently or survive failure,
checks them with TLC on small instances, and proves with TLAPS, for every
instance, all the invariants and action properties of the passing runs and the
refinements, that of the download under one condition: what is left to TLC alone
is liveness.

## The system

| component | source | state | operations |
|---|---|---|---|
| web socket session | `common/.../CommonWsSession.cpp`, `server/.../WsSession.cpp`, `client/.../IoCtx.cpp` | `m_cvt`, `m_receiving`, `m_sending`, `m_dispatch` | `wsOpened`, `received`, `tryWriteToDispatch`, `tryReadFromDispatch`, `wsCompletedSend`, `wsClosed` |
| channel (library) | used in `WsSession.cpp`, `CommonWsSession.cpp` | a queue of 10 frames, closed flag, one callback per end | `read`, `write`, `close` |
| frame conversion | `common/.../FrameCvt.hpp`, `Frame.hpp` | none | to and from JSON and CBOR |
| local session | `server/.../LocalSession.cpp`, `common/.../schema/Acord.hpp` | the point where the coroutine is suspended, its endpoint | `make_assets_available`, `load_provider` |
| asset manager | `server/.../AssetMgrService.cpp` | `m_assetUrlToPath`; the asset directory and `.acord-dl` on disk | `make-assets-available` |
| file utilities | `server/.../FsUtil.cpp` | the file system | `basicStat`, `touch`, `mv`, `mkdir_p`, `rm_r`, `expandPath` |
| http download | `server/ahttp` | the coroutine of a `sync_generator`, a stream, a parser | `get_sync`, `get_next_chunk` |
| application | `App.cpp`, `AppRunner.hpp`, `main.cpp` | two contexts, three io threads | construct, `run`, `stop`, destroy |
| wake-up object | `WsSessionHandlerWobj.hpp` | one callback | `wait`, `notify_one` (used nowhere) |
| C++ examples | `example/cpp`, `client/.../IoCtx.cpp` | the step each program has come to, one io thread | the requests, the polls, `~BlockingIo`, `~IoCtx` |
| scripts, logging | `example/html`, `example/python`, `Logging.*` | | |

How they interact:

- The handlers of one web socket session run on the *strand* of its socket, one
  at a time. The three io threads of the server only decide which one runs.
- On the server `wsOpened` creates two bounded channels and starts a local
  session at their other end. That coroutine, and those of all other clients,
  run on the one thread that called `App::run`. The client library is given an
  endpoint by its caller instead, and connects to `/cbor`.
- A channel operation that cannot go on registers a callback on the channel.
  The other end, on its own thread, consumes it and posts a task to the strand.
  Closing a channel consumes it as well.
- A local session talks to the asset manager through another pair of channels.
  The asset manager's sessions share one strand, and do not suspend while they
  serve a command, so one download holds up all of them.
- `load_provider` moves the endpoint out of the local session to a provider;
  the web socket session does not notice.
- `App::Impl` owns the plugins' backend, both contexts and the three io threads.
  Its owner is the server's main thread, which calls `run` itself, or the
  thread of a program that keeps an `AppRunner`, which has a thread call `run`
  and can stop it.
- The example programs poll a `BlockingIo` from their main thread; the thread of
  `IoCtx` moves the frames, and is joined at the end.

What is hard here: the two pumps of a session, each driven by callbacks of a
socket and of a channel on another thread; back-pressure through four queues in
a row; ends of the connection (peer, coroutine, provider, malformed message)
that come at any time, also when everybody waits; the hand-over of an endpoint;
downloads of several sessions into one directory, through failures and restarts;
five threads that must all have let go of `App::Impl` when it is destroyed, on
each way out of a constructor that may fail at any step.

What makes each component correct:

- *session*: each direction is a first-in first-out relay of bounded size that
  never stalls and never runs an operation twice; any end of it ends all of it
  and leaves no callback behind.
- *local session*: one answer to each request, in order; one owner of the
  endpoint, and nobody to keep it open when the last one is gone.
- *asset manager*: the asset directory holds whole files only, an asset that is
  in place is never replaced, and the cache says what is on disk.
- *http download*: the consumer gets a prefix of the resource the redirects
  lead to, as the standard for urls reads them, all of it when the generator is
  done without an exception, and an end when the redirects have one.
- *application*: no thread runs on a member that is not there, `run` returns to
  nobody who did not call `stop`, and no join waits for ever.
- *file utilities*: an asset's file is created, found and moved as the asset
  manager relies on.
- *C++ examples*: each frame they poll is the one they take it for, they fail
  only when something has failed, and they end.

## Modules

```
FrameCvt ----.                        MCCommonWsSession
BufferedChannel --- CommonWsSession -< CommonWsSession_proofs ----.
      |               |      `-- FrameRelay (abstract, twice)      |
      |               v                                            v
      `-- LocalSession --> ServerSession -< MCServerSession   ServerSession_proofs
             |-- MCLocalSession                                    ^
             |-- LocalSession_proofs ------------------------------'
             `-- ExamplePrograms -< ExamplePrograms_proofs, MCExamplePrograms
AssetMgr -< AssetMgr_proofs, MCAssetMgr
ChunkStream (abstract) --- HttpDownload -< HttpDownload_proofs, MCHttpDownload
AppLifecycle -< AppLifecycle_proofs, MCAppLifecycle
```

An operator whose name ends in a suffix (`WriteBlocked_NoCallback`) is a faulty
variant of the one it is named after. No specification uses them: they record
which mistake in the code each property was seen to catch.

### BufferedChannel
The queue of the alpaca core library, whose sources are not in the repository.
Read from how the code uses it: an operation succeeds, blocks or reports that
the channel is closed, and one that blocks has registered its callback under
the same lock. Whether frames that are left in a closed channel can still be
read is not known, so a reader gets either answer.

### FrameCvt
Data is a class: `"null"`, `"blob"` (binary), `"bytes"` (the object JSON has in
its place) and other plain values. `ToAc` is `jsonBufToAc` and `cborBufToAc`,
`FromAc` the two `...FrameFromAc`. A message without a string under `op` makes
the parser throw; missing data is read as null.

### CommonWsSession
`ws` is the state of the socket and `rx` says that a `wsReceive` is in
progress; a `wsSend` is in progress exactly when `m_sending` is set, as in the
code. `write_stream` and `read_stream` are the two channels of `m_dispatch`,
with the callback of the session in `cb`, and `tasks` counts what
`postWsIoTask` has put on the strand and has not run. The histories `accepted`,
`delivered`, `pushed` and `sent` are for the properties only.

One action is one handler with everything it calls. `tryWriteToDispatch` and
`tryReadFromDispatch` are operators with one disjunct for each result of the
channel (`WriteSucceeds`, `WriteBlocked`, `WriteClosed`, and so on), used by
the handlers that call them. `WsReceivedMalformed` is the `catch` in
`received`: it leaves the empty frame in `m_receiving`, as the code does. `Side`
tells the two subclasses apart: what `wsOpened` does, who owns the other
endpoint, and that a connection attempt may fail.

The dispatch side (`DispatchRead`, `DispatchWrite`, `DispatchClose`) and the
peer (`PeerSend`, `PeerLost`) may do anything the channel and the socket allow.

### FrameRelay
What a session promises in one direction. The two properties `UpRelay` and
`DownRelay` instantiate it with the histories of `CommonWsSession`: from the
socket to the dispatch side, where a relay that saw a malformed message is
closed, and back. Its window is one more than the channel: the frame in
`m_receiving` or `m_sending`.

### LocalSession
`Acord_run`. `pc` names the `co_await` where it is suspended, `outgoing` the
frame it is pushing there. The two `co_await`s on the asset manager, the
exception that a bad request throws past the inner `try` (`"throw"`), the
moment between acknowledgement and attachment (`"attach"`) and the push to an
endpoint that was moved from (`"undefined"`, of which nothing is assumed but
that the streams stay closed) are places of their own. The asset manager and a
provider are the environment.

### ServerSession
The two halves of a connection: the variables of `CommonWsSession`, with
`LocalSession` instantiated on its two channels in place of the free dispatch
side. A step of the coroutine posts the task of the callback it finds.

### AssetMgr
`runSession` for several sessions. `StrandIsFree` is the strand: while one
session runs a command no other does. A client's command waits in the channel
(`"asked"`) until the strand comes to it. Within a command there is one step for
each url found in the cache or in the directory, for the opening of the file,
for each chunk, and for the move, because the disk, the remote server and a
crash come between them. A write may fail without anybody noticing, as the code
has it: a file counts the chunks it holds (`n`) and those it `lost`. `Crash`
keeps the files only.

### HttpDownload and ChunkStream
`get_sync` with its `sync_generator`. The coroutine starts eagerly: `"request"`
is its loop over redirects, inside the call of `get_sync`, and `"waiting"` its
suspension at `chunk_buf_t`. `NextChunk` is a call of `get_next_chunk` with a
buffer of any size. A body ends by an announced length, by a last chunk or by
the end of the connection; `CutShort` is the third kind ending too early, which
looks like any other end. Where the redirects lead is defined without following
them: `Passed(u)` is what lies in every set of urls that has `u` and that no hop
leaves, and `Target` the url in it that does not redirect, if there is one.
`ChunkStream` is what a consumer relies on, and
`StreamSpec` says that a download implements it. `AssetMgr` rests on that: its
`Complete` is `gen.done()`, and its assets are those whose end is marked
and whose redirects name no host after two slashes.

A `Location` has one of four forms: `/path`, `path`, `//host/path` and
`http://host/path`. The code looks at the first character only
(`StartsWithSlash`), puts what begins with a slash behind the old authority
(`Behind`) and takes all else for a url (`AsUrl`). `Hop` does not use these: it is
the reference resolution of RFC 3986. The two agree on the first and the last
form. A `path` without a slash gives the code a text that is no url (`url = None`),
whose request can only fail: its scheme is neither http nor https. A
`//host/path` makes it ask the old host for that text as a path, which is why
`Places`, what a server may be asked for, is larger than `Urls`.

### AppLifecycle
`App.cpp` with its two users. `owner` is the place where the thread that owns
the `App` stands, from the first member of `Impl` to the last one destroyed,
`made` how many members there are, and `thread[t]` what each of the io threads
and the runner is doing. Two owners are in one model: `StartRunner` goes on to
`"run"` in the server's `main` and to `"use"` behind an `AppRunner`, and only
the second one may call `stop`. Every step of the construction that can throw
has its failing variant (`ConstructFails`, the second outcome of `Serve`,
`StartIoThreadFails`, `StartRunnerFails`), with what C++ does then: the
constructor unwinds, or a `std::thread` that was not joined ends the process
(`"terminated"`). Sessions are counted only: `ready` to run, or `waiting`.

### ExamplePrograms
`e-cli-assist` and `e-hello-foo`, as two scripts of the same steps: push a
request, poll with or without a time limit, expect an answer or a state. They
are composed with an instance of `LocalSession` for the server, and the web
socket sessions between them are two queues (`up`, `down`) that may be lost as a
whole, which is what `FrameRelay` leaves of them. The end of `main` is part of
the model: `CloseIo` and `JoinIo` are the destructors of `BlockingIo` and
`IoCtx`. At most `MaxFaults` times the link breaks, the asset manager fails or
the provider gives up.

## What TLC checks

| run | instance | properties |
|---|---|---|
| `server_ws` | channels of 1, 3 messages in, 4 frames out, fair | `TypeOK`, `OnePumpEach`, `NeverTwice`, `AssertNotReceiving`, `NoCallbackAfterClose`, `PeerDecodesPushed`, `UpRelay`, `DownRelay`, `DispatchCloseEndsSession`, `PeerLossEndsSession`, `MalformedEndsSession`, `EverythingMoves` |
| `client_ws` | channels of 2, 4 in, 3 out, fair | `UpRelay`, `DispatchCloseEndsSession` |
| `local_session` | channels of 2, 3 requests, fair | `TypeOK`, `OneAnswerEach`, `OneOwner`, `HandoverIsFinal`, `LeavingEndsSession`, `RequestsAreAnswered` |
| `load_provider` | channels of 1, 2 requests | `FailedLoadIsAnError`, violated |
| `server_session` | channels of 1, 4 requests, fair | `AnswersInOrder`, `SessionSpec`, `ClientIsAnswered`, `LossReleasesBoth` |
| `asset_mgr` | 2 sessions, 3 urls (one without a file name), 3 commands, 1 restart | `TypeOK`, `CacheIsTrue`, `PathHoldsAsset` |
| `asset_disk` | 2 sessions, 2 urls with one file name, 3 commands, 1 restart, 1 deletion, a disk that may be full, fair | `AssetsAreWhole`, `NeverReplaced`, `CommandsAreServed` |
| `asset_stale` | 2 sessions, 2 urls, 1 deletion | `PathIsAFile`, violated |
| `http_download` | 2 hosts, 2 paths, all redirects between them by `/path` and url, and some by `path`, bodies of 0 and 4 bytes, buffers of 2 and 3, fair | `EachChunkFull`, `StreamSpec`, `DownloadEnds` |
| `http_redirects` | the same hosts and paths, redirects by `path`, `//host/path` and url | `LocationsAreResolved`, violated |
| `app_lifecycle` | 3 io threads, 2 sessions, fair | `ThreadsSeeMembers`, `RunEndsByStop`, `SessionsAreServed`, `DestructionEnds` |
| `example_programs` | both programs, channels of 2, 2 faults, fair | `FailsForAReason`, `PolledIsWanted`, `ProgramEnds` |

What each property says of the code stands above it in its module.

**Bounds.** A pump holds one frame, so a channel of one frame already makes
every combination of a blocked and a running pump; a channel of two adds a
wake-up with frames left in the queue. Traffic is chosen larger than what the
connection can hold, so that the limit that stops it is the channel's and not
the model's: with channels of one, four messages fill the socket, `m_receiving`,
the channel and the coroutine while the answers fill the way back, which is
what a circular wait needs (`server_session`). Three requests make every pair
of outcomes meet before a third. The bounds `MaxWire`, `MaxPushed`,
`MaxRequests`, `MaxCommands`, `MaxCrashes`, `MaxDeletes` and `MaxUrls` stand in
guards of environment actions only. A body of four bytes in buffers of two and
three is cut into chunks that fit exactly, that leave a rest, and that follow
each other in any mixture. Each of the four urls of `http_download` may redirect to
every one of the four, as a url or as a path of its own host, or to a path without
a slash: there are ways over all four, hosts that redirect to each other, and ways
that never end. All seven kinds of body are met behind three of these redirects;
the rest of the ways end in a body of announced length. No location names a host
after two slashes there: `StreamSpec` does not hold for those, and
`http_redirects` shows why. The three io threads are those of the code; two
sessions are enough for one to be ready while the other runs. Two faults let a
program meet one while it is leaving because of another. `CHECK_DEADLOCK FALSE`
is set where a session that is closed, and traffic that has reached its bound,
stop; `AppLifecycle` and `ExamplePrograms` have an action for a program that is
over, and their deadlocks are checked. The two sessions of the asset manager are
interchangeable, and the runs that check safety only use symmetry.

**Fairness.** `CommonWsSession!Fairness` is weak fairness of each handler: the
strand runs what is ready, and the transport completes an operation or fails
it. `DispatchRead` is fair because nothing moves up if nobody reads; nothing is
assumed of what the dispatch side writes or of the peer. In `ServerSession` the
reader is the coroutine, so that assumption is discharged by weak fairness of
its steps: its context is run by `App::run` until the process ends. The asset
manager is assumed to answer or fail. A provider is fair to announce itself in
`LocalSession` and not assumed to do anything in `ServerSession`. In
`HttpDownload` servers answer or fail, and the consumer asks until `done()`, as
the loop of the asset manager does. In `AssetMgr` a session that has a command
waiting comes to its turn. That is strong fairness of `Poll`, since the strand
is taken again and again by others: it runs what is posted to it in order. A
command that runs goes on to its end by weak fairness, except while it waits
for the remote server (`Fetching`): a request has no time limit and redirects
may go round for ever, so a download may hang. `CommandsAreServed` therefore
states its condition, `DownloadsEnd`; without it the property is false, since a
download that hangs holds up every session. In `AppLifecycle` each thread is
fair: the system schedules it, and handlers and coroutine steps end. `Stop` is
not part of the fairness of the owner (`OwnerMoves`): nothing makes the user of
an `AppRunner` stop it, and its sessions must be served all the same. In
`ExamplePrograms` the main thread is fair, and so are the link, the coroutine
and the provider, unless a fault ends them.

**Disagreements.** Three runs are expected to fail, and show where the code and
what the repository says of it part:

- `load_provider`: the request is acknowledged before the provider is attached
  (`LocalSession.cpp:70-73`). When there is none, the client has a successful
  answer and a closed connection, and the error goes to an endpoint that was
  moved from; `example/html/stable-diffusion.js:105` expects "the op itself and
  if there is an error".
- `asset_stale`: a url in the cache is answered without a look at the disk
  (`AssetMgrService.cpp:132`), so a path may name a file that was deleted, as
  `server/test/t-AssetMgr.cpp:39` does after it has checked that it is there.
- `http_redirects`: `ahttp.cpp:175` takes every location with a leading slash for
  a "relative path" (`ahttp.cpp:176`) and every other one for an "absolute path"
  (`ahttp.cpp:184`). `//host/x` is neither: the code asks the old host. And `x` is a
  relative path: the code takes it for a url, and throws.

## What is proved

Every invariant and every action property that a passing run checks, and the
refinements, are theorems, and their conditions, where they have one, are part
of the statement. They hold for every capacity of the channels, every
set of requests, frames, urls, servers and sessions, and every value of the
bounds. They rest on the assumptions the
modules state, which TLC evaluates: `CapacityAssumption` (a channel holds at
least one frame), those of `FrameCvt` and `CommonWsSession` on the types of the
traffic (no operation has an empty name, `None` is no frame),
`RepliesAssumption` (what a local session answers with is among the frames that
may go to the socket), those of `AssetMgr` and `AppLifecycle` on their sets, and
in `HttpDownload` that the servers answer with responses, that lengths are
numbers (`LengthAssumption`), that buffers are not empty, and that a size that is
not announced is no number (`NoneAssumption`). The channel is the external model
above; `BufferedChannel_proofs` has the lemmas about its operations that the
proofs of its users share.

### The web socket session

`CommonWsSession_proofs`, for both sides and all encodings:

| theorem | property |
|---|---|
| `TypeCorrect` | `TypeOK` |
| `PumpsNeverStall` | `OnePumpEach` |
| `PumpsNeverDouble` | `NeverTwice` |
| `AssertionHolds` | `AssertNotReceiving` |
| `SessionIsReleased` | `NoCallbackAfterClose` |
| `UpIsARelay`, `DownIsARelay` | `UpRelay`, `DownRelay` |
| `PeersDecodeFrames` | `PeerDecodesPushed` |

The argument counts, for each pump, what may continue it: an operation of the
socket, a callback on the channel, a posted task. `TypeOK` alone is not
inductive: `RunTryWrite` would write the empty frame of a failed parse into the
channel if a task were left for it. The invariant `IInv` therefore says that a
pump has at most one continuation and exactly one while the socket is open
(`ReceiveInv`, `SendInv`), that a waiting callback or task means a real frame
in `m_receiving`, that a receive in progress means none, that a malformed
message leaves no continuation at all, and that a session not yet open or
already closed has nothing in progress (`SocketInv`). One lemma per action
preserves it. The lemmas `TryWriteInv` and `TryReadInv` do the work of the
shared functions, and `DispatchInv` that of any step of the other end.

The relays need `IInv` and, for each direction, what is in the queue: what was
accepted is what was delivered, followed by the channel and the frame in
`m_receiving` (`UpInv`); what was sent, with the frame in `m_sending`, is the
beginning of what was pushed, converted, and the channel holds the rest
(`DownInv`). Each step of the session is then an input, an output, a close or a
stutter of `FrameRelay`, and `IInv` is what excludes that one frame comes out
twice. `PeerDecodesPushed` follows from `DownInv`.

### The local session and the connection

`LocalSession_proofs`:

| theorem | property |
|---|---|
| `TypeCorrect` | `TypeOK` |
| `RequestsAnsweredOnce` | `OneAnswerEach` |
| `EndpointIsOwned` | `OneOwner` |
| `ProviderKeepsEndpoint` | `HandoverIsFinal` |

Where the coroutine is suspended tells how many answers it owes (`Owed`), the
frame in a push is an answer to the request it read last (`Pushing`), what was
pushed before stays an answer (`Answered`), and an endpoint nobody owns is
closed, also in the moment between a failed attach and the return
(`Abandoned`).

`ServerSession_proofs`:

| theorem | property |
|---|---|
| `ConnectionIsASession` | `SessionSpec` |
| `ConnectionNeverStalls` | `OnePumpEach`, of the connection |
| `ConnectionAnswersOnce` | `OneAnswerEach` and `OneOwner`, of the connection |
| `ClientIsAnsweredInOrder` | `AnswersInOrder` |

The two halves do not see each other, so their invariants are preserved together:
`SystemInv` is the relay invariant and that of the local session on the
channels of the connection, with who has the endpoint (`OwnerInv`) and the bound
on the peer's traffic. A step of the coroutine is a step of the dispatch side of
`CommonWsSession` and a step of the web socket session is one of the local
session's client: hence the refinement. The order of the answers then needs no
argument of its own: what the coroutine was delivered is a prefix of what the
client sent (`UpInv`), it pushed one answer to each (`Answered`), and what the
client received are those, decoded (`DownInv`).

### The asset manager

`AssetMgr_proofs`, for any sessions, urls, file names and asset sizes, any number
of commands, restarts and deletions, and a disk that fills or not:

| theorem | property |
|---|---|
| `TypeCorrect` | `TypeOK` |
| `AssetsStayWhole` | `AssetsAreWhole` |
| `AssetsStay` | `NeverReplaced` |
| `CacheStaysTrue` | `CacheIsTrue`, if `Undisturbed` |
| `AnswersAreTrue` | `PathHoldsAsset`, if `Undisturbed` |

`Undisturbed` says that nobody deletes assets, no two urls share a file name and
the disk does not fill; `asset_stale` shows what becomes of the cache without
the first of these. The invariant adds to `TypeOK` what the strand is for: one
command runs at a time (`OneRuns`), and the file of a download holds or lost
exactly what its session has received, while there is no asset of its name yet
(`DownloadsInv`). Without `OneRuns` a second session could truncate that file
(the mutant `StrandIsFree_Never`). For the cache, `TrueInv` adds that a download
is that of the url its session has come to, that what lies in the directory under
a url's file name is that url's whole asset, and that what the cache says lies
there. `FilesKept` and `TruthOfCommands` deal with all the steps that touch no
file, `DownloadStep` with those that do.

### The http download

`HttpDownload_proofs`, for any servers, in particular redirects of any length
that end or do not:

| theorem | property |
|---|---|
| `ChunksAreFull` | `EachChunkFull` |
| `DownloadIsAStream` | `StreamSpec`, if `NoNetworkPath` |

`NoNetworkPath` says that no location on the way from the url that was asked
for has the form `//host/path`, the one that the code takes to another host;
locations without a slash are covered, since they end in an exception.
`ChunksAreFull` needs no condition. `OnTheWay` says that, under the condition
and as long as there is a url, the url of the current request is passed from
the one that was asked for, and that an end that is passed from the first is
still passed from the current one. A redirect that leads to a url is one hop
(`RedirectIsHop`: there the code's reading of a location meets the standard's),
and the sets in the definition of `Passed` are closed under hops, so no
induction over the length of the way is needed; at a url that does not
redirect, `TargetReached` says that it is the only end. `BodyInv` says that
what was received is the body up to what is left.

### The example programs

`ExamplePrograms_proofs`, for both programs:

| theorem | property |
|---|---|
| `FailuresHaveReasons` | `FailsForAReason` |
| `PollsGetTheirFrames` | `PolledIsWanted` |

A program fails when it polls a frame it does not expect, so both theorems are
about what is in four queues and two servers. `Reply(i)` is the frame that step
`i` of a script is to receive, and `Slot(k)` the step of the `k`-th call. While
the program has not left (`Running`), the invariant `Dialogue` says: at most one
request is on its way, and it is the next for the server (`RequestsInv`); the
frames that were polled, are in the channels, or are about to be pushed by the
provider are those for the steps of the script in their order, or an error
after a failure (`FramesInv`); the server is ahead of the requests it has read by
the states it announces and nothing else, and the provider is in the state that
belongs to the number of requests (`ServerInv`); and nothing is closed before a
failure (`ClosedInv`). `ServerInv` is where the order of the server's frames
enters: `load_provider` is answered before the provider pushes its state.
Nothing is claimed of a program that is leaving, since its frames stay where
they are.

### The application

`AppLifecycle_proofs`, for any number of io threads and sessions:

| theorem | property |
|---|---|
| `TypeCorrect` | `TypeOK` |
| `MembersOutliveThreads` | `ThreadsSeeMembers` |
| `RunReturnsWhenStopped` | `RunEndsByStop` |

The invariant (`OwnerInv`) says which threads there may be at each place of the
owner: none before the last member is made, no runner after its join, no io
thread after theirs. That `run` returns only after `stop` needs it too: the work
guard, a member, is there as long as the runner is alive. `BecomesKeeps` is the
step of any thread.

### Only model-checked

- Liveness: `DispatchCloseEndsSession`, `PeerLossEndsSession`,
  `MalformedEndsSession`, `EverythingMoves`, `LeavingEndsSession`,
  `RequestsAreAnswered`, `ClientIsAnswered`, `LossReleasesBoth`,
  `CommandsAreServed`, `DownloadEnds`, `SessionsAreServed`, `DestructionEnds` and
  `ProgramEnds`. They need fairness, and with it `ENABLED`, which is outside what
  the proof system can do.
- That the model of `AssetMgr` may stand on `ChunkStream` (`Complete` is
  `gen.done()`), and that of `ExamplePrograms` on `FrameRelay` (its `link`), is an
  argument of this text, not a theorem: the compositions are not modelled as
  one specification.
- The three disagreements, each of which is one behaviour that TLC shows.

## Not modelled

- The insides of fishnets, of the channel, of the contexts and of the
  providers, which are not in the repository.
- `WsSessionHandlerWobj`: it is included and used nowhere.
- `rm_r`, which only tests use, `expandPath` and `getTempDir`, which change
  nothing: single calls of the standard library. `basicStat` is in `AssetMgr` as the
  question whether a file is there; that it takes a socket for a file and a block
  device for a directory (`FsUtil.cpp:84`) is recorded as a hazard.
- Exceptions of `fromAcFrame`: nobody in the repository catches them, and what
  the socket library does with one is not known.
- Urls in full: a location has no query, no fragment and no `.` or `..`, all paths
  lie in one directory, and scheme and authority are one value (`Hosts`). That a
  text without a scheme is not http is an assumption on the url library, which
  `t-ahttp-sync.cpp:12` makes too.
- A client that sends and never reads: the transport is assumed to complete each
  send or to fail it, so the client of the runs does read. A session whose client
  never does stays blocked until the connection is lost.
- Two urls with one file name, other than for the files: that the second is
  answered with the asset of the first is how the code is written, and
  `PathHoldsAsset` is checked and proved for distinct names.
- The backend's own threads, which run the providers: `ThreadsSeeMembers` is about
  the io threads and the runner, and `DestructionEnds` takes the destruction of the
  backend as a step that ends.
- What the endpoints' callbacks do when a context is destroyed with coroutines
  suspended in it: that is up to the same libraries.
- Time: a download may take any time or for ever, and a poll with a time limit
  may end without a frame at any moment.
- The html and python clients, other than for what they expect; logging; the
  parsing of command lines.

## Plan

1. `AssetService`: local sessions with the asset manager in place of its free
   answers, for what a failure in it does to the clients, and for the waiting
   that one strand causes.
2. Proofs: the link of `ExamplePrograms` as two relays (`FrameRelay` for what a
   program and the server exchange); what the disagreements leave true, as that
   of the answers to `load_provider`.
