# TransportProxy: TLA+ models and proofs

TransportProxy carries TCP connections over QUIC or KCP.  A client accepts TCP
connections and opens one stream to the server for each; the server connects the
stream to an upstream, or echoes.  The transports are `kcp` (the crate
kcp_tokio), `quinn`, and `slipstream`, a bridge between async tasks and the C
library picoquic, which runs its own loop on a thread of its own.

Paths below are relative to the repository; `slipstream.rs` is
`src/src/transport/slipstream.rs`, `server.rs`/`client.rs` are in `src/src/bin/`.

## Inventory

### The slipstream client bridge (`slipstream.rs` 99-243, 246-398, 400-660)
*State*: per stream three bounded channels (send 512, receive 4096, wake 512), the
halves `SlipstreamSendHalf { send_tx, wake_rx, pending_send }` and
`SlipstreamRecvHalf { recv_rx, pending }`, and the thread's `ClientBridgeCtx`
(connection, stream, `peek_buf`, `should_close`, `close_sent`,
`wait_close_ticks`, `disconnected`, `ready_tx`).
*Operations*: `connect_stream`, `poll_write`, `poll_shutdown`, `poll_read`, drop;
on the thread `loop_callback` (TIME_CHECK, AFTER_RECEIVE, AFTER_SEND) and
`stream_callback`.
*Interaction*: task and thread meet only in the channels, in `is_closed()`, and in
the drop of channel ends.  picoquic calls the two callbacks.
*Hard*: every interleaving of the two; full channels; refusals; the order in which
the ends of four channels are dropped; the close handshake that may go unanswered.
*Correct when*: bytes reach QUIC in the order they were accepted; a writer parked on
a full channel is woken; a stream in use is never closed; a dropped one always
ends its thread; the reader sees a prefix of what came, and its end only when there is one.

### The slipstream server bridge (`slipstream.rs` 665-1195)
*State*: one `ServerGlobalCtx` for the thread, a map from the address of a connection
to `ServerConnState`, an unbounded queue of new streams to the accept loop, the
halves of each stream in a task.
*Operations*: `server_stream_callback` (ready, data, fin, close),
`server_loop_callback` (drains every connection), the creation of the loop,
the accept loop of `run_server`.
*Hard*: one thread for all connections; keys that are addresses and may come again;
streams made by data only; a task that ends with items in its channel; a context that
outlives its loop.
*Correct when*: the client's list holds for each stream, and no stream ever reads what
belongs to another connection.

### Accept loops and shutdown (`server.rs`, `client.rs`, `slipstream.rs` 1157-1195)
*State*: the listener and its queue, the broadcast channel of the signal, the
semaphore, a task per connection, the drain timer.
*Operations*: bind (kcp: retried every 2 s), `biased` select of signal and accept,
rebind after a quiet or failed accept (kcp), `acquire_owned` inside the accept arm,
spawn, drain.
*Hard*: the signal in any of those states; permits across failures and rebinds.
*Correct when*: permits are neither lost nor invented; nothing new starts after the
signal; what was accepted is started; the process ends.

### The start of the slipstream server (`slipstream.rs` 739-797, 949-1150)
*State*: pairs of PEM files on disk and the handles that delete them, the thread that reads them,
`accept_tx` in the context it owns.
*Operations*: `create_temp_pem_files`, `ensure_tls_init`, the paths or the pair of `run_server`, the
copies, two tries of `picoquic_create`, the loop, the clean-up.
*Hard*: nearly every error is ignored; files are deleted by whoever drops a handle; the caller's files may be gone when
another thread reads them; the failure of a thread must be noticed by the accept loop through a
dropped channel.
*Correct when*: the certificate shown is the caller's unless something failed; bad files do not
stop the start; a start that failed before the packet loop ends `run_server`; the temporary pair lives as long as its reader.

### Relay and echo (`src/src/lib.rs`, the tasks of `client.rs` 121-175 and `server.rs` 263-284)
*State*: per connection two tasks, each with two hops (or the echo loop), what a hop holds, which directions ended.
*Operations*: connect, `handle_connection`, read, write, shut down, return; the drop of what a task owns.
*Interaction*: TCP peers at both ends; `ProxyStream` between, with the bridges' channels or quinn's buffers.
*Hard*: half-close through two tasks, four channels and a network; errors that end both
directions; what a drop tells the other side, which differs between the transports.
*Correct when*: order is kept; a clean end means everything came; ends, losses and closes are
noticed at the far end; the tasks, and with them the permits, end.

### The rest
| part | state, and what is hard | modelled |
|---|---|---|
| quinn transport (`src/src/transport/quinn.rs`) | forwards each poll to quinn; the connection closes with its last handle | in `EndToEnd`; TLS configuration has no state |
| `ProxyStream`, transport selection (`transport/mod.rs`) | none: an enum that forwards | `kind` in `EndToEnd`; kcp_tokio's stream and the parsing of names are not |
| load test (`src/src/bin/load_test.rs`) | counters that are only added to | no |
| echo benchmarks (`src/benches`) | harnesses around crates that are not in the repository | no |
| picoquic bindings, build scripts, integration tests | declarations; the C library is not in the repository | external |

## Modules

| module | models | variables |
|---|---|---|
| `SendFifo` | what a write half promises: accepted items are handed to QUIC one by one in order, and a bounded number wait | `written`, `out`, `closed` |
| `Tunnel` | what a proxied connection promises in one direction, and the client's receive path of its own: chunks in order, none twice, one end, and when that end may come | `sent over got end holed cut` |
| `SlipstreamClient` | the client bridge | task: `conn wpc toSend written shut txOpen rxOpen pending read eof`; channels: `sendCh recvCh wakeCh`; thread: `lpc resume peek cnx stream readySent disconnected shouldClose closeSent ticks` |
| `SlipstreamServer` | the server bridge, its map and the accept queue | thread: `lpc todo cur`; map: `known stream made`; per stream: `half wpc toSend shut written sendCh recvCh wakeCh read eof` |
| `ServerStart` | how the slipstream server starts | `given main thread disk bytes use presented` |
| `AcceptLoop` | the four accept loops, `kind` says which | `kind pc signalled backlog task permits clock` |
| `EndToEnd` | one connection through both tasks, over slipstream or quinn, forwarded or echoed | tasks: `task done held`; TCP: `sent over end taken got`; transport: `sendQ recvQ net dead gone`; history: `excuse` |
| `MC*` | the same for TLC, with the claims of comments that the code does not keep | |
| `SlipstreamClient_proofs`, `SlipstreamServer_proofs`, `AcceptLoop_proofs`, `ServerStart_proofs` | theorems about the modules they name | |
| `EndToEnd_proofs`, `EndToEndOrder_proofs`, `EndToEndDelivery_proofs`, `EndToEndTunnel_proofs` | theorems about `EndToEnd`, each module extending the one before: types and ends, order, completeness, the refinement of `Tunnel` | |

### How the models correspond to the code

**Atomicity.** An action is what happens between two points where another thread can
be seen: one channel operation and the private computation around it.  `poll_write`
is `BeginWrite` (the caller's buffer becomes `pending_send`), `TrySend`
(`try_send`: taken, Full, Closed) and `PollWake` (`poll_recv` of the wake channel:
token, closed, or park), so that the thread may act between Full and the park.
TIME_CHECK is two actions, because it asks whether the receiver is dropped
(`TimeCheck`) before it looks at the send channel (`TimeCheckPeek`).  An AFTER_* callback is
`AfterTerminate`, `AfterClose`, `AfterIdle`, or
`AfterPeek`-`Wake1`-`Drain`*-`Wake2`, one branch or one channel operation each;
`resume` says which of AFTER_RECEIVE and AFTER_SEND is running.

**Data.** A chunk is its number; 0 is the empty `Vec`, which both directions use for the end
of the stream.  A token in the wake channel is a count.  `peek` is `peek_buf`,
a sequence of at most one item.  A read may take a chunk in two parts (`Deliver`, `ReadPending`); a
partial write does not exist in the code, `poll_write` takes the whole buffer.

**picoquic** is external and enters as the caller of the callbacks, in the cycle of
`picoquic_packet_loop` (TIME_CHECK, AFTER_RECEIVE if a packet came, AFTER_SEND).  `quic`,
`arrived`, `finIn`, `aborted`, `life` are what it knows.  `picoquic_add_to_stream`
may fail (`AddMayFail`), and the event of the end may carry the last bytes
(`FinCarriesData`); both are constants, so that a run says what it assumes.  In
the server a connection may be made at an address that was used before
(`MaxReady`), and the end of the loop may report the close of any of the connections.

**Server.** `known` is the key set of the map and `stream` the stream of each state; the
thread's ends of a stream's channels exist exactly while its state is in the map (`Linked`).  The
AFTER_* callback visits the states in any order (`VisitNext`), as `HashMap::iter_mut` may.
Both halves of a stream are dropped together, and no partial read is modelled: the
server does not ask whether a receiver is dropped, and partial reads are in the client's model.
`TaskEnds` forgets everything the halves held, the histories `read` and `overflow` included.

**Server start.** A pair of files (certificate and key) is "good", "bad" (`picoquic_create` cannot load it) or "none".
`fault` records that an operation failed that had what it needed; a property that excuses it still
speaks of every run with bad or missing files.  `CallerDrops` is the caller who deletes its files
although the doc of `run_server` asks it not to.  `presented` is the pair `picoquic_create` loaded; the packet loop
that follows may find its port taken (`BindFails`), return (`LoopReturns`), or run on.  `main` "exited" ends the process, and the thread with
it before its drops run.

**End to end.** The client's and the server's task are `relay_bidirectional`, two hops each, or the
echo loop; a hop is `TcpRead`-`Write`-`ShutTransport` or `Read`-`TcpWrite`-`ShutTcp`.  The
slipstream bridges appear by what their own modules show at the ends: a bounded send channel the
thread empties into `net` (`Transmit`), a bounded receive channel that drops what finds it full
(`Push`), an end that may come with the last bytes (`Deliver`), a close that discards the send
channel (`ThreadStops`).  quinn has no channels; its connection closes with
the task that owns the last handle (`ClosesNow`).  What the code loses is written to `excuse`, by
direction and cause, at the step that loses it, so that each property names the causes it
excuses and holds for all others:
"fault" (a reset, a lost connection, a thread that died), "refused" (no upstream), "overflow", "endLost" (a
full channel), "tail" (bytes with the end), "unopened" (an end before any data), "silent" (slipstream's server task
ended without shutting down).

**Accept loops.** `task` is the life of each connection, `pc` the place of the loop.  "permit" is
the wait inside the accept arm.  Permits are released by the end of a task,
whichever it is.  Time is `clock`, the seconds slept in the current drain.
A port that is taken is `BindFails`, except for slipstream, whose accept loop does not hear of it: there it is
`BindOk` with no connection that ever arrives, and `ServerStart` has the case.
`AcceptGivesUp` and `Rebind` exist for kcp only, `SourceEnds` for quinn and slipstream,
the second drain (`innerDrain`) for slipstream.

**History variables** (`written`, `out`, `read`, `overflow`, `late`, `drained`) record what
happened and are read by properties; `written` also numbers the next chunk.

## What is checked

Bounds are small because the channels are what matters: with a capacity of 1 or 2
and one or two more items than it holds, a channel is empty, partly full, full and
refusing in every combination with the states of the other side.

| run | bounds | shows |
|---|---|---|
| `SendPath` | send 2, wake 1, 4 chunks | `SendPathIsFifo` (the send path implements `SendFifo` with one place more, `peek_buf`), `NoLostWakeup`, `CloseOnlyIfAbandoned`; with fairness `AbandonedThreadExits`, `ParkedWriterResumes`, `AcceptedReachesQuic`. Four chunks fill the channel and `peek_buf` and leave one over; one wake token is less than the items, so the wake channel overflows too |
| `ReceivePath` | receive 3, 3 chunks in, 1 out | `ReceivePathIsTunnel` (the receive path implements `Tunnel`), `InboundInOrder`, `EofTruthful`, `TailComplete`, `EndIsReported`, `TypeOK`: three chunks and up to three markers (end, abort, close) overflow a channel of three; refusals and bytes in the end event are on |
| `ServerSafe` | one address, two connections after each other, 2 chunks each way through channels of 1 | `SendPathsAreFifo`, `NoLostWakeup`, `ReadsOneConnection`, `TailComplete`, `TypeOK`: the first connection's task still reads and writes when the second connection is made at its address, and a chunk is left out only if the channel overflowed |
| `ServerDrain` | two addresses, two tasks that write 2 chunks and an end each through channels of 1 (`WriteSpec`), refusals on | `AcceptedReachesQuic`, `ParkedWriterResumes`: both writers may be parked at once, and the one thread gets to both, also after their tasks ended |
| `ServerStart` | both kinds of callers | `PresentsGiven`, `TemporariesLiveWithThread`, `FailedCreateIsNoticed`, `StartsAnyway`, `TypeOK`; the model is finite without bounds |
| `EndToEnd` | slipstream and quinn, forward and echo, 2 chunks each way, channels of 1, all faults | `DeliveredInOrder`, `HalfCloseIsComplete`, `WaysAreTunnels` (each direction implements `Tunnel`), `TypeOK`; with fairness `EndTravels`, `AppLearns`, `UpstreamLearns`, `TasksEnd`, `DataTravels` |
| `Accept` | 4 connections, 2 permits, all kinds | `PermitConservation`, `AtMostOneLateStart`, `HeldIsStarted`, `ShutdownCompletes`, `TypeOK` |
| `RefusedChunk` | send 2, 3 chunks | violated: `OutIsPrefix` |
| `CloseDiscards` | send 2, 2 chunks | violated: `CleanCloseDelivers` |
| `SlowReader` | receive 1, 2 chunks | violated: `NothingReadIsLost` |
| `QuinnDrop` | quinn, 1 chunk each way, no faults | violated: `OrderlyEndDelivers` |
| `PermitBlocksShutdown` | 2 connections, 1 permit | violated: `SignalEndsProcess` |

`ServerDrain` leaves out what a task sends does not depend on, so that two connections with writers fit: reads, the
peers' ends, the end of the accept loop.

Refusals (`AddMayFail`) are on in `ReceivePath`, `RefusedChunk` and `ServerDrain`, bytes in the end
event (`FinCarriesData`) in `ReceivePath` and always in `EndToEnd`; the other runs check what holds without them.
The server's model has no constant for the latter: its `CbFin` ignores the event's bytes, and `arrived` counts what
came as data.

Deadlock is not checked: a stream that is finished, a loop that ended and a process
that exited have nothing left to do.

### Fairness, and why the code justifies it
* `Loop` (client and server): TIME_CHECK caps picoquic's wait at 1 ms, so the cycle of
  the packet loop never stops until the loop ends.
* `TrySend`/`PollWake`: the runtime polls a task that was woken.  `Repoll`, `BeginWrite` and the drop
  of a stream have no fairness: nobody has to write or to drop.
* reads (client): the relay reads until it sees the end.  What the server's tasks send depends neither on their reads nor
  on the accept loop, which owe nothing.
* `ConnectReturn`/`ConnectTimeout`: the 30 s timer fires.  A drop that began is finished.
* accept loops: timers fire and a ready loop is polled (`LoopFairness`); a bind that is tried for
  ever succeeds some time (`BindFairness`, strong, because the loop leaves "bind" between the tries);
  connections end (`TaskFairness`).  The last two are assumptions on the environment.  Without the second the
  claim fails, which is `PermitBlocksShutdown`; without the first the retry of the bind goes on for ever, whatever the signal.
* `ServerStart`: the thread's file operations and `picoquic_create` return, and the accept loop is polled when its
  channel closes.  The packet loop opens its socket or fails to; its later return, the signal and the caller owe nothing.
* `EndToEnd`: weak fairness of `Tasks` (the runtime polls both tasks) and of `Network` (the threads' loops run, QUIC
  retransmits, its timers fire and closes arrive).  One condition for each is enough because every
  step of them uses up a chunk, a marker or a state of a task: none can be repeated for ever while another waits.  The origins and
  the faults owe nothing; since the origins act finitely often, the properties are written
  `<>[](...)`: in the end and for ever.
* otherwise picoquic, the peer, the network and the signal owe nothing.

### What the code does not keep
Each violated run has its finding in `PROJECT.json`, with the line it contradicts.
1. `RefusedChunk`: a chunk that `picoquic_add_to_stream` refuses goes back to
   `peek_buf` (slipstream.rs:349), but the chunks behind it are handed over in the same
   callback: QUIC gets them in another order.
2. `CloseDiscards`: the drop of a stream is noticed in TIME_CHECK before the send
   channel is empty; chunks accepted before an orderly end are discarded by the close.
3. `SlowReader`: a chunk that finds the receive channel full is dropped (slipstream.rs:224) and the
   reader sees a clean end with a hole before it.
4. `PermitBlocksShutdown`: with all permits taken the loop waits for one inside the
   accept arm and does not look at the signal.
5. `QuinnDrop`: a quinn connection is dropped when the relay returns (server.rs:281; on the
   client with the stream), and its last handle closes it at once; bytes that `finish` left to be
   delivered are overtaken.  On the other side the failed relay drops its TCP socket, and the
   application sees a clean end with bytes missing.

Each of these is excused by name, or assumed away by a constant or a fairness condition, in the passing runs, so that
those say what is left: nothing else has this effect.

Met while modelling, contained in the models, and excused by the passing runs in the same way: `poll_shutdown` on a full
send channel loses the end and reports success (slipstream.rs:657; "endLost"); the end marker may find the
receive channel full (228; "endLost"); bytes that come with the end event are not looked at (227; "tail"); the server
ignores an end that is the first event of a stream, also when bytes came with it (877; "unopened"); the slipstream echo ends without
telling the client (lib.rs:88; "silent"); a relay that fails closes the application's socket as an end does
(client.rs:172; "fault"); a chunk picoquic refuses on the server is lost (933).
The context of the server is leaked when the packet loop returns, at once if the port is taken, and `run_server` then
serves for ever without a thread (1148; `BindFails`, `LoopReturns`), although the comment at 1078 says that it is reclaimed
after the loop: `FailedCreateIsNoticed` speaks of the failures before the loop only.

Contained without an excuse: `connect_stream` returns Ok when the thread died (530; `AppLearns` says that the application
hears of it); the server makes no stream before the client sends data (845); persisted PEM files are never deleted
(1057); the kcp loop does not look at the signal while its port is taken (server.rs:155); the slipstream server drains twice (1193).

## What is proved

`SlipstreamClient_proofs` proves, for all capacities, all bounds and with or without refusals,
from `ConstantsAssumption` (capacities positive, bounds natural):

* `TypeCorrect`: `Spec => []TypeOK`.  The counter of callbacks after the close is not inductive by its type:
  `TicksBounded` says that the thread ends at the step that would take it further.
* `CloseSafe`: `Spec => []CloseOnlyIfAbandoned`.  Inductive as it stands: halves are never opened again, and the
  four places that set `shouldClose` look at a dropped half first.
* `SendPathCorrect`: `Spec => SendPathIsFifo` when picoquic refuses nothing.  The invariant is
  `Conserved`: while the thread lives, `written = out \o (peek \o sendCh)`.  A step of the
  model is `Accept`, `Transmit`, `Close` or a stutter of `SendFifo` according to its effect
  on these four variables, which is why the proof first sorts all actions into
  five effects (`SendEffect`).
* `NoWakeupLost`: `Spec => []NoLostWakeup`.  Not inductive: `WriterAlive` adds that a
  parked writer's thread is alive, and `WakeInv` covers the window between Full and the
  park: an item is left, a wake is under way, or a token is there.
* `EofIsTruthful`: `Spec => []EofTruthful`.  `EndKnown`: each marker in the channel was put there for a
  reason that does not go away.
* `ReadInOrder`: `Spec => []InboundInOrder`.  `Ordered`: what was read, the chunk in hand and the channel form
  one increasing sequence, with the markers, which are 0, behind everything; a gap is allowed, so overflow is.
* `TailIsComplete`: `Spec => []TailComplete`.  `Whole`: with nothing lost, the channel holds exactly the
  chunks the caller has not had, markers only behind them, and a marker only once no data can come (`NoMoreData`).
  The last part is what keeps a later chunk from following an end the caller has seen.
* `ReceivePathCorrect`: `Spec => ReceivePathIsTunnel`.  This is the promise the whole connection keeps, made by one bridge
  of it.  `Ordered` allows a gap, so `RunInv` says that while nothing overflowed the chunks in front
  of the first marker follow what was read without one, after a reset too, and that a reader that has seen the end has
  nothing left in hand.  With `Ordered`, `EndKnown` and `Whole` each step is a `Tunnel` step or a stutter.

`AcceptLoop_proofs` proves, for any finite set of connections, any `MaxConns` (0 included) and
any drain:

* `TypeCorrect`: `Spec => []TypeOK`.  That the two drains last at most `2 * Drain` needs `TimeOK`: no time passes
  outside of them, and the first is over when the second begins.
* `PermitsConserved`: `Spec => []PermitConservation`.  A permit is taken for the connection that is
  held, so the invariant says that exactly one is held while the loop waits for a permit
  (`HeldOK`), and that the queue holds each connection once and none that has a task
  (`QueueOK`).  Every step then adds one holder, removes one, or keeps them (`HoldersEffect`).
* `LateStartBounded`: `Spec => []AtMostOneLateStart`.  `LateOK`: a connection that was started after the
  signal was the held one, and the accept arm is never taken again.

`SlipstreamServer_proofs` proves, for any finite set of addresses, any capacities and bounds, with and without
refusals:

* `TypeCorrect`: `Spec => []TypeOK`.  An item names the connection it came on, so `KnownAlive` says
  that an address in the map has had one.
* `WakeupsNotLost`: `Spec => []NoLostWakeup`.  `Structure` says what the map looks like: no two of its
  connections share a stream (`Distinct`), the AFTER_* callback is at a state that has one (`Visiting`), a stream
  that was not made has no task.  `WakeAt` then covers, per stream, the window between Full and the park.
* `TailIsComplete`: `Spec => []TailComplete`.  `Counted`: while the channel was never full, what was read
  and what waits add up to what came, and the end marker is in the channel, last, exactly if it came and
  was not read.
* `OneConnectionRead`: `Spec => []ReadsOneConnection`.  What was read is in order, but nothing says so of the next
  item; `Ordered` puts what is still in the channel behind it, and `Owned` says that both came on the
  connection that is at the address now, numbered no higher than what came.  That nothing is left out needs
  `Gapless`: the chunks in the channel follow those read one by one.  `Counted` gives the number of the next one to come
  while the connection is there; `Gapless` itself stays when it is gone.
* `SendPathsCorrect`: `Spec => SendPathsAreFifo` when picoquic refuses nothing.  `Conserved` holds of a stream while
  it is `Alive`, which is in the map or not made yet: what was accepted is what went out, then the channel.  Each
  step is `Accept`, `Transmit`, `Close` or a stutter for every stream at once (`Effect`); `Distinct` is what makes
  the close of one stream leave the others alone.

`ServerStart_proofs` proves, for callers that name files, callers that do not, or both:

* `TypeCorrect`: `Spec => []TypeOK`, with `UseOK`: the pair of `ensure_tls_init` is never the one in use.
* `GivenIsPresented`: `Spec => []PresentsGiven`.  `FirstTry` and `SecondTry` say what is known of the files in use at
  each try, `MainFirst` that the thread exists only after `run_server` was called.
* `TemporariesCorrect`: `Spec => []TemporariesLiveWithThread`, one step for each way out of the thread.

The `EndToEnd` modules prove, for any number of chunks, any positive capacities, both transports and both modes, with
and without faults:

* `TypeCorrect`: `Spec => []TypeOK`.  `ClientRuns` adds that the client's task is never "none" or "starting".
  The proof first sorts all actions into the kinds of `StepKind`, and every later proof goes by these.
* `InOrder`: `Spec => []DeliveredInOrder`.  Not inductive by far: it speaks only of what was written at the end.  A chunk
  of a direction is in one of six places (`Cargo`: written, in a hop's hand, in one of three queues, in the other
  hop's hand; twelve in echo mode, where the way down continues the way up).  `OrderInv` says that what is in a place
  precedes what is in every place behind it, and each step moves one chunk to the next place, takes a new one,
  or loses some (`Moves`, `Takes`, `Loses`).  `HoleInv` is why there is no hole: a chunk that was lost, and not to
  overflow, leaves everything behind it in places that lead nowhere any more (`Blocked`, `Closed`).  `ShapeInv` and `FinInv`
  say what a done hop and an end marker imply; the marker is last wherever it is.
* `HalfClose`: `Spec => []HalfCloseIsComplete`.  `QuietInv`: faults are recorded for both directions, so while one
  origin goes on and none is recorded, no task ended, nothing is dead and no end is on its way.
  `IntactInv`: as long as the receiver goes on and there is no flaw, nothing the relay took is missing.  At
  `ShutTcp` the marker is at the head of the last queue, so all other places are empty and everything was written.
* `WaysCorrect`: `Spec => WaysAreTunnels`.  `OpenInv` says that a receiver is open until its hop is done or its task ended,
  so that nothing is written after an end and there is one end; the invariants above give the rest of the
  step (`WayGives`, `WayEnds`).

Each of these theorems follows from `ConstantsAssumption` of its module, and for some not even that is needed.
Model-checked only: liveness, which is out of the prover's reach (it needs fairness and ENABLED).  Every
invariant, and every action property and refinement the passing runs check, is a theorem.
Nothing is proved about picoquic, tokio's channels, quinn or kcp_tokio; they are modelled from how
the code uses them.

## Plan

The modelling is complete but for what the next section names.  The safety properties the runs check are proved.
What is left is upkeep: a change of the code changes the action it is mapped to, the runs say whether the
properties survive, and the proofs have one step per action for it.

## Not modelled, and why

Parsing of arguments and transport names, logging, `ProxyStream`'s forwarding and the quinn TLS setup have no
state.  Socket addresses, certificates and OpenSSL paths are data no property tells
apart.  kcp_tokio's stream is a crate whose rules of shutdown and loss are not in the repository; its accept
loop is in `AcceptLoop`.  The load test adds to counters it prints at the end, and the benchmarks are
harnesses around other crates.  The second stream of a connection is ignored by the code and is left out.
After a close by the peer the client's thread keeps using the stored connection pointer; whether
picoquic has freed it is not visible here.  A write whose future is cancelled leaves its buffer in
`pending_send`; no caller in the repository does that and keeps the stream.
