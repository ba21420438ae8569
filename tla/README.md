# Zesterm: a verification project

TLA+ models of Zesterm's daemon, the clients that watch its sessions, the codec
that carries their screens, the gate of its public port, the cloud relay in front
of it, the local endpoint it is found at, the work a connection defers and the
window's view of its fleet, checked with TLC on small instances and proved with
TLAPS for every value of the constants: the types, the safety properties, and that each
implements its abstract specification where it has one.

Paths below are relative to `src/`.

## 1. The system

A daemon owns terminal sessions; windows (`zest-app`), browsers
(`clients/web`) and agents (`zest-mcp`) attach to them over a local socket, the
LAN, a WebSocket or a cloud relay, and see the same screen.

| Component | State it keeps | Operations | How it interacts | What makes it correct |
|---|---|---|---|---|
| **Session** `zest-daemon/session.rs` | the `Terminal` (sequence, grid, blocks), title slot, `exited`, the subscriber map (per client: encoder shadow, `sent`, `needs_keyframe`, pending bell, size vote, waker) | reader thread: parse a chunk, stamp block contexts, dispatch events, wake; `attach_with`, `detach`, `set_client_size`, `poll`, `keyframe_for`, `ack` | called by connections, calls their wakers | nobody misses output; the smallest size wins; a delta's base is what the client holds |
| **Connection** `zest-daemon/server.rs` | gate, attachments, watch tokens, seal | one handler per `ClientMessage`, `poll_with`, `Drop` | owned by `serve_with`'s two threads under one lock | replies and updates arrive in a usable order; a dead connection releases everything |
| **serve_with** `zest-daemon/server.rs` | the wake channel, `last_update`, `owed_at` | reader thread, writer loop | between socket and connection | the coalescing floor delays output and never loses it |
| **Registry, Pulse** `zest-daemon/server.rs` | the session map, ids, listing generation, watchers, coalescing window | `create`, `close`, `sweep`, `list`, `touch`, `touch_coalesced` | shared by all connections | a session is kept while wanted and collected after; no listing stays stale |
| **Clients** `zest-app/remote.rs`, `client/src/session-client.ts`, `zest-mcp/conn.rs` | replica, applied sequence, awaiting-keyframe latch, coalesced ack | apply keyframe/delta, ask for a keyframe, resize, ack, redial | the wire | the replica is a screen the host showed, and finally the latest |
| **Delta codec** `zest-proto/{encode,apply,delta}.rs`, `proto/src/grid-view.ts` | shadow rows, attribute ids, seen blocks | `keyframe`, `delta`, `apply_keyframe`, `apply_delta` | a session's subscriber and a replica | applying what was encoded reproduces the screen |
| **Gate of the public port** `zest-daemon/{lan,server,main}.rs`, `zest-mesh/{pairing,trust}.rs` | mid-handshake slots, a failure count per peer, a watchdog per connection, the handshake's state, the queue of devices that wait, the trust store | admit, hello, proof, ask, decide, withdraw, time out, settle | connections, windows told what waits, the prompt on the daemon's terminal | nobody is served whom nobody granted; a slot comes back; who waits is shown to somebody, and answered |
| **Sealed link** `zest-mesh/secure.rs` | frame counters, keys | seal, open, ratchet | both ends of a connection | both ends ratchet at the same frame |
| **Deferred work** `zest-daemon/server.rs` | `deferred_running`, settled answers, the enrolment's mailbox | ask, start, settle, give the slot back, drain | worker threads and the writer's wake | the cap holds and every slot comes back; every question gets its own answer, once |
| **Relay** `cloud/packages/relay/src/room*`, `zest-daemon/relay.rs` | control links, pipes, replay memory, one alarm, the host's online column | park, supersede, hear, attach, claim a ticket, dial back, splice, refresh presence, be evicted, die | a daemon and its far clients, through a Durable Object and D1 | one way back to the host; a ticket opens one pipe; no half a pipe stays; the column comes to the truth |
| **Local endpoint** `zest-daemon/{spawn,local}.rs`, `zest-app/{instance,main,process}.rs` | a socket path, a lock file beside it | find or spawn, claim, ask, open a window, quit | processes of one user that start, are killed and quit | one server at a path; a launch gets its window, at most the late one besides, and never hangs |
| **Other listeners** `zest-daemon/ws.rs`, mDNS, named pipes, signals | | accept | the gate | |
| **Block store, context** `block_store.rs`, `context/` | journal, probe cache | record, search, probe | the session's reader | a finished block is stored once |
| **The window's fleet** `zest-app/fleet.rs`, `zest-fleet` | watchers and their stop flags, listings, offers, lanes, the palette's search, who declined | plan, start, retire; dial, list, register, hear, leave; ask | a supervisor, a thread per remote host, the palette, one lock | nothing of a host nobody watches is shown; a search settles |
| **Trust, account** `zest-mesh`, `attest_sync.rs`, `account.rs` | keys, attestations | sync, enrol, revoke | HTTP and the relay | stale attestations are dropped |
| **Terminal emulation** `zest-core` | grid, scrollback, modes, blocks | one function per escape sequence | the session's reader | sequential, tested |
| **Pty, rendering, fonts, themes, input, settings, UI** | | | the operating system | no protocol of their own |

### What is hard here

Two threads share each connection, but not across the queue between them: a
reply is built under the connection lock and queued after it. A session's reader
announces what it parsed after releasing the terminal lock. The exit flag is
raised by one thread and read twice by another. Sizes are arbitrated over votes
that appear and vanish with connections. A floor postpones polls, so a wake
that was consumed must be made good by a timer. Clients refuse deltas and ask
for keyframes while more deltas are on their way.

At the gate, a watchdog's thread and the handshake race for one atomic swap, a
request for approval is taken, announced and answered in three steps of
different threads, and a connection can die between any two of them. The
relay's room is one object whose handlers interleave at every await, which is
evicted and rebuilt between messages, and which may die with everything that
was waiting in it. A screen is sent as differences from a shadow of what was
sent last, while scrollback is filed at both ends by rules that have to agree, and
rows are destroyed, restated and fetched again under ids with gaps. Processes
that look for an endpoint are killed between a
lock, an unlink and a bind. A window retires the watcher of a host it lost, and cannot
reach the thread, which is parked in a read and may speak last; answers of many
hosts to a question that has changed arrive in any order.

`PROJECT.json` lists these hazards, each at its line, with the property that
covers it.

## 2. Modules

| Module | Models |
|---|---|
| `SessionSync` | one session, its reader thread, the subscriber map, each connection's reader and writer threads, the wire, and the three kinds of client |
| `SharedScreen` | what watching a session promises, without threads, locks or messages |
| `SessionRegistry` | the registry, the sessions' lives in it, the connections that create, attach, detach and close, the sweeps of their writers and of their deaths, the pulse and its watchers |
| `SessionLife` | how long a session is kept, without locks, sweeps or connections |
| `PairingGate` | the gate: slots, failure limit, watchdog, handshake, the approval queue, the windows and the terminal that answer |
| `DeviceTrust` | who is served, without threads, timers or a queue |
| `RelayRoom` | the relay's room for one host, its daemon and its browsers, over storage and a database that may fail |
| `Rendezvous` | what the room promises to an attach, without its handlers |
| `LocalEndpoint` | one local endpoint, and the processes that find it, claim it, ask at it and leave it |
| `TermGrid` | a terminal's grid as rows with ids: scroll, resize, scrollback, as operators |
| `DeltaCodec` | the host's terminal, one subscriber's encoder, the applier and the replica's terminal |
| `DeferredWork` | one connection's reader, its workers and its writer |
| `Answering` | what a connection promises about its questions, without threads, slots or queues |
| `FleetWatch` | the window's supervisor, the watchers of remote hosts, their lanes, and the palette's search |
| `MCSessionSync`, `MCSessionRegistry`, `MCPairingGate`, `MCRelayRoom`, `MCLocalEndpoint`, `MCDeltaCodec`, `MCDeferredWork`, `MCFleetWatch` | the instances TLC checks |
| `SessionSyncProofs`, `SessionRegistryProofs`, `PairingGateProofs`, `RelayRoomProofs`, `LocalEndpointProofs`, `DeltaCodecProofs`, `DeferredWorkProofs`, `FleetWatchProofs` | the theorems about the module of that name |

The gate, the relay, the endpoint, the codec, the deferred work and the fleet are each
checked against many small worlds at once: a first variable (`deeds`, `scene`, `plan`, `life`) is chosen by
Init and says who acts and which faults may happen in that behaviour (`life` also
counts them down).

### SessionSync, its state and actions

| Model | Code |
|---|---|
| `term.seq`, `term.pic` | `Terminal::seq` and everything a client can observe of it, as a counter `view`, a number of rows and an `epoch` for what no delta carries |
| `log` (history) | the picture shown at each sequence; nothing reads it but the properties |
| `title` | the session's title slot, a mutex of its own |
| `reader.pc`, `reader.ev` | the reader thread: reading, parsed with events left to dispatch, past the end |
| `attached`, `subs` | `Session::subscribers` and `Connection::attached`; `shadow` is the encoder's |
| `held` | what `on_bytes` returned, between the unlock and `tx.send` |
| `queue` | the writer's channel: `<<>>` is `Wake::Poll`, a sequence of replies is `Wake::Send` |
| `pass` | the wake the writer took, with `updates` and the `exited` flag it saw |
| `recent`, `owed` | `last_update` within the floor, `owed_at` |
| `up`, `down` | the two directions of the wire |
| `client` | the replica, its applied sequence, whether it waits for a keyframe, whether an ack is due |
| `overtaken` (history) | a poll wrote output while the connection's last keyframe reply was still behind it |

Each action is one lock's critical section: `ReaderParse` (the terminal lock),
`ReaderStamp`, `DispatchTitle`, `KeyframeEveryone`, `TellEveryone` (each event
under the lock its own handler takes), `ReaderWake`, `ReaderEof`; `Handle*` (one
client message, under the connection lock, and the subscriber lock inside it);
`Enqueue` (after the unlock); `TakeWake`, `TakeOwed`, `FloorElapses`, `Poll` (the
writer); `Client*` and `LinkDown`. `reconcile_size` is `Reconcile`, inside the
attach, resize and detach that call it.

What is abstracted:

- a picture is a counter, so `delta` is "what changed from `was` to `now`"; the
  client draws `now` only if it holds `was`, and a picture nobody showed
  otherwise. `blocks_need_keyframe` is a nondeterministic choice (`lost`);
- sizes have one dimension; votes, minimum and equality are what arbitration uses;
- one message per socket read, and two adjacent empty wakes are one;
- a poll takes its wake and then locks, as the code does (`TakeWake`, then `Poll`);
  the exit flag of a pass is read at the wake, a little earlier than
  `poll_with`'s own snapshot, and both are before the poll;
- progress reports are left out (the bell stands for the slots beside the
  grid), and so are input bytes, scrollback pages and listings;
- the session stays in the registry; a link that dies is dropped by the daemon
  before the same client attaches again;
- the end of the session is the unix one, the reader seeing end of file.

### SharedScreen

The host shows one screen after another and never rewrites one it has shown;
whoever watches looks at one of those, whole and at the size it had, or at
nothing. `SessionSync` implements it with `shown` as the history and `seen` as
each replica. It deliberately does not say that a watcher only moves forward: a
late keyframe reply moves a replica back (section 5).

### SessionRegistry, its state and actions

| Model | Code |
|---|---|
| `scene` | who may do what in this behaviour; no code |
| `made`, `kept` | `Registry::next_id`, the keys of `Registry::sessions` |
| `exited`, `ever`, `subs` | a session's flags, and how many of its subscribers belong to each connection |
| `hung` | sessions whose pty has been hung up |
| `facts` | whatever of a session a listing shows and `on_facts` announces, as a counter |
| `reader` | the session's reader thread, from a fact that moved to the wake behind it |
| `stale`, `watchers` | connections whose `seen_generation` is behind `Pulse::generation`; `Pulse::watchers` |
| `recent`, `armed`, `timer`, `firing` | `Coalesce`, and the trailing threads asleep and awake |
| `lock` | each connection's lock: who holds it, for which session, and how far it is |
| `att`, `reply`, `queue` | `Connection::attached`, an answer before `tx.send`, the writer's channel |
| `client` | the listing a client holds, the ends it was told of |
| `asked`, `client.overtaken` (history) | what somebody asked to close; a push overtaken by an older answer |

`AttachFinds`, `AttachMarks` and `AttachSubscribes` are the three steps of
`Attach`; `Close`, `CloseHangsUp` those of `close`; `SweepLooks`, `SweepRemoves`,
`SweepReaps` those of `sweep`, in a poll (`PollBegins` to `PollEnds`) or in a
dropped connection (`Drop`, `DropEnds`). `Report` and the four steps behind it
are `touch_coalesced`, with the trailing thread and the one that cannot be had.
A generation is abstracted to who is behind it: nothing compares two of them
but for equality, and a `u64` does not wrap. A shell that cannot be started,
offers and pairing notices in the same poll, and the context engine's own touches
are left out. A hung-up child ends: that is the pty's promise, and external.

### SessionLife

A session is kept until somebody asks for it to be closed, or until its shell
has ended and somebody has attached to it.
`SessionRegistry` implements it.

### PairingGate, its state and actions

| Model | Code |
|---|---|
| `conn.gate` | `Connection::gate`: `greeting`, `challenged`, `pending`, `served`, `refused` |
| `conn.threads`, `busy` | a connection from accept to settle; how far its reader is in a handler that holds the lock |
| `conn.decided`, `wake` | the decision in `PendingPairing`, and that the writer was woken for it |
| `dog` | `Watchdog`: `armed`, the swap it won or lost, the cut, whether the reader is still polled, the moved deadline; and the connection's slot (`Countdown`) |
| `unauthenticated`, `seen` | `Gate::unauthenticated`, `RateLimiter::seen` |
| `trust`, `queue` | the trust store, `PairingQueue::pending` |
| `hand` | a decision on its way through `resolve`: take, touch, notify |
| `window` | a watching connection's generation, announcements and poll, and the modal of its window |
| `prompter` | the approver thread of the daemon's terminal |

`Admit` is the accept and its slot; `Hello`, `Auth`, `AskForApproval` the
handshake's handlers; `TakeDecision` the writer's; `DogWins` and `DogCuts` the
watchdog's swap and store; `ReaderEnds`, `Dropped`, `DropTells`, `Settles` the
end of a connection in the order `serve_with` and `accept_hardened` give it.
`Clicks`, `PrompterReads` and the three steps of `resolve` are the people.

Signatures hold or do not; a code is the connection that asks; ages are `young`,
`late` (past the handshake's deadline), `old` (past the one for approvals).
`PairingQueue::expire` is left out because nothing calls it. So is the clock in
the window's modal, which closes an old prompt by itself. Devices known through an attestation are left out.

### DeviceTrust

A connection that proved its device is served if the device is trusted and
waits if not; a grant is for connections that wait; who is granted is trusted
before being served; who is out stays out. `PairingGate` implements it.

### RelayRoom, its state and actions

| Model | Code |
|---|---|
| `link` | a control socket and its attachment: `socket`, the role `says`, how far its hello is between two awaits, the age of its last ping |
| `daemon` | the daemon's side (`relay.rs`): the link it holds, whether it was told it is parked, whether the machine is awake |
| `good`, `spent` | how long a ticket verifies at the edge; its entry in the replay memory |
| `alarm`, `waking` | the object's one alarm, and its handler at the await |
| `seen`, `writes` | `hosts.control_seen_at` as the time it still reads online; writes to it in flight |
| `attach`, `dialling` | a browser's attach, the two legs of its pipe, `#dialling` |
| `pipe` | the daemon's thread for a pipe, with its watchdog |

A step of the room is what a handler does up to an await that lets other events
in; storage calls keep the input gate shut and stay inside one. `Dial`, `Hello`,
`Checked`, `Parks`, `Hears`, `LinkCloses` are a control link; `Replays`,
`Unclaimable`, `Claims`, `DialsBack`, `Busy`, `TimesOut`, `Resumes`, `Heals` an
attach; `Floods`, `Greets`, `ClientLeaves`, `HostLeaves` a pipe; `Alarm`,
`AlarmArms`, `Lands` presence; `Evicted` keeps what is in attachments and storage
and loses what is in memory, `Crashes` loses the sockets and the handlers too.
Time is `Tick`, which moves every deadline on. The platform's promises (input
gate, alarms, hibernation) are external, and taken from how the room uses them.

### Rendezvous

A ticket lets at most one attach in, while it is good; an attach that was let in
meets its host or is refused, and meets nobody after that. `RelayRoom` implements it.

### LocalEndpoint, its state and actions

| Model | Code |
|---|---|
| `launch` | a process that starts: a window that needs a daemon (`find_or_spawn`) or a launch of zesterm (`instance.rs`), and what came of it |
| `server` | the life of the process that may serve: a window's daemon, or the launch itself |
| `lockFile`, `opened`, `holder` | the name `<path>.lock`, the file each process opened by it, the flocks |
| `socket` | whose listener the path leads to |
| `request` | how far the acceptor's thread is with what a launch asked (`at`), whether it lies in `pending_opens` (`parked`), whether its `OpenRequested` is queued (`event`), whether the loop has answered (`ok`), what was written back |
| `windows` | how many were opened for each launch |

A step is one system call others can see between, or one step of an acceptor's thread
or of the event loop: `OpensLock`, `Flocks`,
`UnlinksStale`, `Binds` are `bind_exclusive`; `Finds`, `Spawns`, `Misses`, `Looks`,
`Deadline` are `find_or_spawn`; `Asks` to `GivesUp` the launcher. Of the instance that
answers, `Reads`, `Wakes` and `Answers` are the acceptor's thread: it parks the request,
then calls `send_event`, which is refused once the loop is gone and leaves the request
parked, then waits for the loop's answer. `OpensParked` is the loop at one
`OpenRequested`: it drains whatever is parked (`process.rs` 443), also a request whose own
wake is still to come or was refused, opens it and answers. One thread does all of that
and each answer goes into a channel of its own, so it is one step. `Quits` to `Leaves` are
its exit, `Killed` a death that unlinks nothing. Only the unix endpoint is modelled; Windows' named
pipe has neither lock file nor socket file.

### TermGrid and DeltaCodec, their state and actions

| Model | Code |
|---|---|
| a grid: `lines`, `back`, `next` | `Storage` and `Grid::scrollback_len`, `Storage::next_id` |
| `host`, `view` | the session's `Terminal` and the replica's: a main grid and, while there is one, the alternate |
| `enc` | `Encoder`: `attrs`, `pending_attrs`, `seen`, and the mode bit that says which screen |
| `table`, `cleared`, `behind` | `Applier::attrs`, `Applier::history_clears`, `Applier::applied` against `Subscriber::sent` |
| `moved`, `owed`, `event` | the sequence past `sent`, `needs_keyframe`, a `HistoryCleared` not yet dispatched |
| `asked`, `wanted`, `drained` | the replica's request for a keyframe, `HistoryBackfill::in_flight` with the line it names, and `drained` |
| `clears`, `floor` | `Grid::history_clears`; (history) the first line that no ED 3 destroyed |
| `marks` (history) | what some properties make an exception of |

`Draw`, `LineFeed`, `SwitchScreen`, `EraseAll` and `Resize` change the host;
`TellCleared` is `keyframe_everyone`, after the terminal lock was released.
`PollDelta` and `PollKeyframe` are `Session::poll`, `Answer` a requested keyframe,
`Reattach` a link dialled again: a new subscriber with a new encoder, and the
replica and the applier there were. `AskHistory` and `TakeHistory` are the window's
pull of scrollback, a page encoded by an encoder of its own.

What is abstracted:

- a message is applied in the step that encodes it. The link is in order, an
  encoder never looks at a replica, and nothing a replica does by itself is read
  by the host, so a later application changes nothing the properties see; a
  reply that overtakes or is overtaken is `SessionSync`'s subject. A history page is
  encoded when it is taken and not when it is asked for;
- a row is one run, or blank; its text stands for its content and its rendition, so
  one intern table serves both. Columns, reflow, runs and marks within a row, the
  cursor, titles, modes and blocks are left out: `other` says a delta carries
  one of them, and a destroyed block is a keyframe (`PollKeyframe`);
- scroll regions, reverse scrolls, insertions and deletions of lines move texts among
  rows that keep their ids, so to the codec they are a sequence of `Draw`s;
- the cursor may stand anywhere when the size shrinks (`Belows`), at each end
  independently, and rows that are given up are not assumed to be blank;
- `Page` and the two limits are small; the host's pty is the unix one, which does not
  restate the viewport, and the replica is one that always does.

### DeferredWork, its state and actions

| Model | Code |
|---|---|
| `kind`, `work` | what a question asks, and where its worker's thread is |
| `running`, `deferred` | `deferred_running`, `deferred` |
| `enrolling`, `mailbox` | `enroll_running`, `enroll_result` |
| `reader`, `wakes`, `writer` | `serve_with`'s reader with the replies it built, the channel, the writer with what it has to write |
| `wire` | the answers written, each named by its question, which is what a reply echoes |

`AskFile` stands for the questions answered from the serve loop (files,
directories, configuration), `AskDeferred` for a diff and a block search, `AskEnroll` for an
enrolment; a thread that cannot be started, a slot or mailbox that is taken, a remote
client and a host without history are answered at once. A worker is `Settles`,
`Frees`, `WakesWriter`: three things others can see in between. `Receives`, `Drains`
and `Writes` are the writer's loop. Sessions' updates, pairing decisions and the floor
are `SessionSync`'s and `PairingGate`'s, and leave these questions alone: a pass is drained
whether the floor skips its poll or not. A worker that panics is not modelled: the slot is given
back after the work (`server.rs` 1482), by no guard.

### Answering

Each question is answered at most once, and for as long as the connection serves, in the
end. `DeferredWork` implements it.

### FleetWatch, its state and actions

| Model | Code |
|---|---|
| `reach`, `old` | the routes that work now, as discovery and the account report them; the hosts whose daemon predates the search |
| `plan` | the supervisor's thread, with the `WatcherPlan` it carries out |
| `watchers`, `sessions`, `offers`, `links`, `search`, `declined` | the fields of `State`; a stop flag is named by its watcher, a lane by whose it is |
| `watcher` | a watcher's thread: its host, the route it was started with, its stop flag, the message in hand, and whether its socket is half open |
| `lane`, `owed` | a lane's channel; what its host still has to answer |

`Plans`, `Retires`, `Starts` are `reconcile_watchers`; `Tops` to `Fails` a watcher's loop:
`Marks`, `Dials` (dial and listing), `Publishes`, `Registers`, then `Hears*`, where the
flag is read outside the lock, and `Handles*`, where it is read again under it; `Leaves`
is the end of `serve_watch`. `SearchBlocks` is `ask_lanes`, `Takes` a lane's writer and the
host that reads the question. `Moves`, `Upgrades` and `Breaks` are the world.

What is abstracted: a plan is computed from what `reach` says at that moment; the doorbell
is left to its backstop, which gives the supervisor the same steps, later; how the
matches of two hosts are merged is pure; a lane whose writer has just died fills up
instead of refusing. The window's own host is watched by the same code and never retired.

## 3. Runs

Every run sets `CHECK_DEADLOCK FALSE`: a session that has ended, with its
clients gone and every bound spent, really has nothing left to do, and the same
is true of a closed gate, an empty room, an endpoint nobody starts at and a
terminal whose program is idle.

| Run | Instance | Shows |
|---|---|---|
| `sync_pair` | a window and a throttled browser, together or one that acts twice | `NoLostWakeup`, `SyncInv`, `SmallestWins` in every interleaving of two connections, and `WatchesSharedScreen` |
| `sync_mcp` | a throttled agent attaching, re-attaching, detaching; bells, titles, stamped contexts | `BellNeverWaits`, `NoOrphanError`, `ExitedAfterOutput` |
| `sync_live` | a throttled window or a browser, one in a behaviour, fair threads, rebased viewports | `TypeOK`; `Converges`, `ExitIsSeen` |
| `registry` | an owner who creates, attaches, detaches, closes and a guest whose link dies; a watching client that lists while two facts move | `TypeOK`, `LivesItsLife`; `EndsAreSettled` (collected when left, told while kept), `ListingFresh` under fairness |
| `gate` | two connections of one device, a window, the terminal, in eight scenarios: stalling, leaving, bad proofs, repeated requests, a trust store that fails, the last free slot | `TypeOK`, `SlotsAreCounted`, `OneOfThemWins`, `SettledTruly`, `KeepsDeviceTrust`; `NobodyIsLeft` (a slot comes back, a decision is answered), `PromptsFollow` (prompts come and go with the devices that wait) under fairness |
| `relay` | two control links, two browsers with one ticket, in seven scenarios: time, sleep, lost links, floods, a busy daemon, failing storage and database, death of the room | `TypeOK`, `OneWayBack`, `KeepsRendezvous`; `PipesEnd` (an attach is answered, a pipe ends as one), `PresenceIsTrue` (who is reachable reads online, who is gone asleep) under fairness |
| `endpoint` | three processes in four scenes: windows over stale files and kills, plain launches, a quitting instance, one of another build | `TypeOK`, `ServesAtItsPath`, `OneWindowEach`; `NoLaunchHangs` under fairness |
| `codec` | a terminal of two or three rows in five plans: everything at once for three changes of the host's screen; the alternate screen and ED 3; shrinking and growing; pages, resizes and redials; pages and ED 3 | `TypeOK`, `ScreenAgrees`, `NoLineTwice`, `ClearsReach` |
| `deferred` | three questions over two slots, in five scenes: a full house of diffs, files and searches without history, no threads, a client that leaves, a remote client | `TypeOK`, `WorkIsCounted`; `KeepsAnswering`, which is the refinement and its liveness under fairness |
| `fleet` | one host or two in four lives: links that break and listings that are pushed while routes move, no key and no threads, an old daemon that is upgraded, two hosts | `TypeOK`, `NoGhost`; `Settles` under fairness |
| `sync_overtaken`, `codec_history` | the smallest that shows it | disagreements, section 5 |

`registry_told.cfg`, `codec_screens.cfg`, `codec_padded.cfg`, `fleet_route.cfg`,
`fleet_count.cfg` and `fleet_declined.cfg` are not among the runs: each ends in the counterexample that section
5 tells under its name.

Bounds, and why they are enough.

- *Session.* Two sizes make a smaller and a larger voter; `Threshold` (256 in the
  code) is 1 or 2, so that one chunk, or two, is past it and both keyframe and
  delta are polled; `MaxSeq` and `MaxBurst` leave room for a chunk before, during
  and after an attach; `Window` 1 or 2 makes the writer block on a client that
  does not read; `Plans` says how often each client acts in a behaviour: two clients
  attach, or one attaches and then
  resizes, detaches or loses its link. A resize beside a second client is past
  TLC's reach in five minutes, and covered by the proofs, which hold for every plan.
- *Registry.* Its sessions do not interact, so one is enough; two facts are one
  inside the coalescing window and one after it.
- *Gate.* `MaxSlots` is 2, and `others` slots are held by connections outside the
  model, so that two connections compete for one; `MaxFailures` 1 makes the next
  failure block; `stall` says whether time passes, `may` what clients and people do.
- *Relay.* Durations keep their order and not their size: a ticket lives 1 tick, its
  replay entry 2, a refresh is due after 3, a stamp reads online for 4. Two links
  are one and its successor; two browsers share one ticket, which is the case
  that matters for replays.
- *Endpoint.* Three processes are one that serves, one that arrives and one that
  claims in between; a launch that loses the claim asks again once
  (`MaxTries` 2, 50 in the code) and then opens its own window.
- *Codec.* Two rows make a scroll (by one) and a jump (by two) different cases, a
  third lets the height change and a scroll cross a gap. `Limit` 2 and `Keep` 3 make
  the host evict before the replica does, and a page of 2 shorter than the
  history there is. Two texts on the main screen are enough for a row that changes
  and for two renditions that swap ids; a third, for the alternate screen only, shows
  what crossed. A plan's `deeds` bounds how often the host's screen changes, 3 to 5;
  polls, keyframes, pages and redials between are not bounded. `AttrIds` 3 is as
  many as there are renditions: ids do not wrap (`CodecAssumption`, which also says that the
  texts are finitely many).

- *Deferred.* `MaxWorkers` is 2 (4 in the code): three questions of one kind meet
  a full house, and two kinds compete for the slots. Which kinds meet is the scene's.
- *Fleet.* Three watcher threads are one that was retired and not heard yet, one that was
  retired after it, and the present one; two of one host are the case that matters. A lane
  of 2 (4 in the code) is full at the third question. Two queries are the one
  that is asked now and the one it replaced; routes change up to three times in a life.

Fairness. *Session:* threads that can run do, and the wire delivers, so the
reader's steps, a message's handler, the enqueue of its reply, the writer's
taking of a wake or of the timer, its poll, the passing of the floor and the
client's receiving are weakly fair. Output, people, lost links and
acknowledgements are not: nothing promises them. *Registry:* the window
passes, trailing threads run, a session's reader reports what it found, a
connection's threads finish what they began, and a child that was hung up ends;
a shell that ends by itself, a request and a lost link are not promised.
*Gate:* the watchdog's deadlines pass where the scenario lets time pass, the
daemon's own threads run, and a reader that was cut surfaces from its poll (that
is what the cut is for); clients and people owe nothing. *Relay:* time passes,
the alarm fires, the room's awaits return, writes land, the dial-back's
deadline and the daemon's greeting watchdog fall; the network, the daemon and
browsers owe nothing. *Endpoint:* a process that was started runs and its
budgets run out. *Codec:* none, its properties are safety. *Deferred:* the connection's threads run and a
worker's call returns (git is killed at its timeout, `gitcmd.rs` 97-103, and HTTP reads have a
deadline, `zest-cloud/http.rs` 193); the client owes nothing, and a writer may find it gone.
*Fleet:* the supervisor and the watchers run, backoffs and redials end, and a host that is
connected answers what it was asked, which is what `KeepsAnswering` says of it; routes,
links and people owe nothing. `Deadline` is strongly fair because it is one clock started
once, while the polling that goes on under it leaves and re-enters the step it
is tested in. Whoever serves may be wedged, and owes nothing.

## 4. Proofs

Every module with a specification has its type invariant proved; the rest rests on it.

`SessionSyncProofs` proves `TypeCorrect`, that no wake is lost, that a bell always has a
pass coming, and that the session has the size of its smallest voter. For the first two,
`WakeInv` says nothing more than they do, per client; the work
is in lemmas on the subscriber map: an operation by one client either leaves a
bystander's entry alone or owes it a keyframe *and* wakes it. The smallest vote
exists because `<` on the naturals is well-founded.

It also proves what the clients rely on without saying so. `NoOrphanError`: no client is
ever told it is not attached. `AskInv` is the reason: on a client's way up, a request for
a keyframe has an `Attach` before it, unless the client is attached already, and no
`Detach` between, so whatever the daemon handles finds the client
attached. `ExitedAfterOutput`: the notice that the session ended comes after all of
its output. `TalkInv` says what may be under way: replies carry only keyframes, so a notice
is written by a pass alone, one that saw the flag before it polled; by
then the reader parses no more, and what it polled was everything.

It proves `SyncInv` as well, and with it that every replica shows
exactly what the host showed at the sequence it holds. That fact alone is not
inductive: a replica changes when a message arrives, so every message on its way
must be honest (`MessagesHonest`), which depends on what a poll writes, so every
shadow must be what the host showed at `sent`, at the current size or with a
keyframe owed (`ShadowsTrue`), which depends on the history recording the present
(`Logged`). History only grows at its end, so what was honest stays so. From
`SyncInv` follows the refinement `Spec => WatchesSharedScreen`: a step extends the
history, or moves one replica to a screen in it.

`SessionRegistryProofs` proves type correctness and that the registry implements
`SessionLife`. `Create` begins a life, the reader's end of file ends its shell, marking a
session attached meets it, `Close` dooms it, and a sweep that removes a kept session
collects it; every other step of the registry, its listings included, is none of
`SessionLife`'s. What a sweep looks at and what it removes are two steps, so
`RegistryInv` carries what was true at the look and cannot be undone: whatever a sweep goes for has
ended and has been attached to.

`PairingGateProofs` proves `SlotsAreCounted`, `OneOfThemWins` and `SettledTruly` for any number
of connections, peers and slots. A step of the gate does to each connection one of
seven things (`Moves`): nothing that matters here, admit it, shake, welcome it, cut
it, wind it down, settle it. That is one lemma, with a case per action; what
remains is about seven moves instead of two dozen actions. `RaceInv` says, per
connection, which combinations of the handshake, the watchdog and the slot can
occur together: what the swap decided is visible in all three. `CountInv`, that
the counter is the number of slots held, follows because a move adds or removes
one element of that set.

It also proves that the gate implements `DeviceTrust`. `Asks` says per connection what
becomes of a request: in the queue, it waits, is open and nobody has decided; taken out
by somebody who answers, it is in the queue no more, and it waits undecided, was
refused or is on its way out. `Answers` says that no two who answer hold the same request: the
queue's lock gave each of them to one. So the step that takes approved requests out of the
queue is where `DeviceTrust` grants them, telling them changes nothing, the
writer's pass is where they enter, and a refusal, a death or a decision that comes late
is a `Leave` or a stutter. A queue with requests removed (`Rest`) is given by ranks
and not by `SelectSeq`, which takes an operator and cannot be reasoned about here; what
the proofs need of it is the lemma `RestIs`.

`RelayRoomProofs` proves `OneWayBack` from `WayInv`: two links that are ready are
the same link, and the daemon's parked link, while its socket is up, is ready. The step that
matters is `Parks`, which hangs up everybody else in the same turn of the room.
It proves the refinement `Spec => KeepsRendezvous` from `MeetInv`. The refinement
alone is not inductive: a ticket that the sweep forgets must no longer verify, and
`AgeInv` says why it does not - an entry exists only for a ticket that was
presented, and then has at least as long to live as the ticket. `Dialling` ties
`#dialling` to the handlers, so a dial that arrives late meets nobody, and `LegInv`
keeps the daemon's thread and the host's leg in step. Its type invariant is not
independent of these: an alarm is bounded because no entry outlives its retention, so
`RoomInv` joins both with `ClockType`.

`LocalEndpointProofs` proves type correctness, `ServesAtItsPath` and
`OneWindowEach`. Whoever claimed holds the flock of the file it has open
(`LockInv`), and while nobody quits the lock file keeps its name, so all who have
one open have the same one (`PathInv`): nobody else is between the flock and the
bind, and the path leads to whoever serves. `AskInv` says what may have become of
a request, also of one to an instance that died; `WindowInv`, that a launch has its own
window and the one the loop opened for it, and no other. `EarlyInv` is what a refused
launch with a window needs: whoever was opened before its own wake was taken along by
the wake of another. It is kept because a wake is never undone: a launch asks again only
where its request was not read. Type correctness needs a new file to exist
when a process makes the lock: each process has at most one open, and there is
one file more than there are processes.

`DeferredWorkProofs` proves `WorkIsCounted` for any number of questions and slots. The count
follows because each step moves at most one question in or out of the set of workers that
hold a slot. It also proves type correctness, and the safety half of `KeepsAnswering`: every behaviour
of the connection is one of `Answering` without its fairness. `OnceInv`
says why: the answer to a question lies in one place at a time, with the handler, on its way to the
writer, with its worker, in the mailbox or on the wire, and nowhere twice. The mailbox needs one fact more, `Guarded`: while `enroll_running` is not set,
no enrolment runs and no answer waits - which is why it is cleared by the drain and not
by the worker.

`FleetWatchProofs` proves `NoGhost` for any fleet. The argument is `ThreadInv`: a host's
entry in `watchers` and the unset flag of a thread name each other, because both change
under the one lock every write is made under. So whoever finds its flag unset under
that lock is the host's present watcher, and what it writes is not a ghost. `PlanInv`
says that what the supervisor is about to start nobody watches. Type correctness needs
no more than the shape of each record.

`DeltaCodecProofs` proves the four properties of the codec, `TypeOK`, `ScreenAgrees`,
`NoLineTwice` and `ClearsReach`, for every plan: any heights, limits of history at
either end, page size, and texts that are no more than the ids. They follow from one
inductive invariant, `IInv`, of five parts.

- `TypeInv`: the encoder's table is injective and has every rendition it has
  sent; its shadow is of the host's height unless a keyframe is owed; a replica that
  has not asked for one is of the shadow's height, on its screen, and knows its ids. An
  operation of a delta fails to apply where one of these is missing, which is why the
  types are not independent of the protocol.
- `Upto`: the encoder of a session that has not moved stands for what the host shows.
- `Shown`: a replica that has not asked shows what the shadow stands for. Neither
  end sees the other, so `ScreenAgrees` needs the two halves: the delta is right
  because it is taken against what was sent, and what was sent is what is shown.
- `Erased`: the rows of the host, and those of a replica that has been told, are
  above the floor of ED 3; whoever has not been told has it coming.
- `Held`: a replica has each row once (`Orderly`), out of order only where the host has
  lost the row, and none the host is yet to make. That is not inductive: a scroll
  files rows of the replica and exposes others, and only what the host shows and the shadow
  lacks is sent anew. `Fresher` says such rows are newer than all the replica
  has, so writing them repeats none.

The lemmas come in the order of the code: what each operator on rows and grids returns
(`KeepLast`, `ScrollUp`, `Resized`, `Prepend`, `DropHistory`), what a table and a shadow say,
what a delta and a keyframe do to a replica, then one lemma per action for each
part. What is filtered out of history is said by ranks (`Nth`, `Picked`) and not by
`SelectSeq`. The
marks are part of the argument: the proof found that rows a replica makes
itself beneath an alternate screen (`padded`, section 5) must be left out of `NoLineTwice`.

All of them assume only the named assumptions on the constants, among them that
the connections of the gate and the texts of the codec are finite and that an entry is
retained for longer than a ticket lives.

Only model-checked:

- that what is checked on an instance also happens there: the disagreements of section 5
  are counterexamples of TLC, not theorems;
- every liveness property: `Converges`, `NobodyWaitsForever`, `ExitIsSeen`, `EndsAreSettled`, `ListingFresh`,
  `PromptsFollow`, `NobodyIsLeft`, `PipesEnd`, `PresenceIsTrue`, `NoLaunchHangs`, `Settles`, and
  the fairness in `KeepsAnswering` (liveness under fairness is out of TLAPS's reach).

## 5. Where code and comments disagree

- `sync_overtaken`. A keyframe reply is built under the connection lock and
  queued after it (`server.rs` 2243-2258). The writer can poll in the gap and
  write the delta that builds on the keyframe first. The client discards the
  delta, adopts the older keyframe, and nothing is due until there is more
  output, though the loop's comment says the last frame of a burst does not wait
  for the next keystroke. `Converges` is stated for clients this did not happen to.
- `registry_told` (no run of its own). `attach_with` sets `ever_attached` (`session.rs` 498) before it
  inserts the subscriber. A sweep in between, of another connection's poll or
  death, finds a session that has exited, has been attached to and is watched by
  nobody, and removes it. The client that is attaching is never told it ended,
  which `sweep`'s comment says would make it wait for output that never comes.
- `codec_history`. A scroll is encoded from the shadow (`encode.rs` 350-356): the
  client moves the rows it has into scrollback, and skips the `SbPush` that repeats
  them. A row rewritten after the last poll and scrolled off before the next one is
  filed as it was last sent. A program that prints fifty lines on a
  screen of thirty, from a prompt at its top and between two polls, scrolls by some
  twenty: the client files twenty rows that were blank when it last saw them, under
  the right ids, and for good, since pages are only asked for above the oldest
  row held. The module's header says its diff "cannot miss a change by
  construction".
- `codec_screens` (no run of its own). The scroll is the difference of the first line id on the screen and
  the first in the shadow (`encode.rs` 338-344), but an alternate grid numbers its
  rows from 0 and one shadow serves both. Leaving it when the main screen starts
  at a line between 1 and its height less one looks like a scroll: rows are filed as
  history that the host still shows. `NoLineTwice` and `ScreenAgrees` are stated for
  replicas no delta has taken across screens (`NoLineTwice` for those whose scroll crossed
  no gap either), so neither would catch it.
- `codec_padded` (no run of its own). A keyframe resizes the replica before it restates
  rows (`apply.rs` 268-283), both its screens, and where the main one grows
  (`grid/mod.rs` 886-948) beneath the alternate one, the rows it gains have ids from the
  replica's counter and nobody restates them: the keyframe is the alternate screen's. A
  later one of a lower screen files them, under ids the host has
  not given yet or will give to others. The comment there says "A keyframe is about to restate
  every visible row", and 202-205 that every row a client stamps is re-sent and
  restamped. `NoLineTwice` leaves such replicas out (mark `padded`).

- `fleet_route` (no run of its own). A watcher keeps the route it was started with
  (`fleet.rs` 867, 891) and the plan only stops a host without any route (192), so a machine that
  leaves the LAN and is still reachable through the relay is redialled at its old address
  for ever, though `spawn_supervisor` says a connection is kept open "to every remote host
  that has a route" and `watcher_plan` that a machine reachable only through the relay is
  watched. `Settles` asks for a listing only where the route the watcher knows works.
- `fleet_count` (no run of its own). The end of a link takes the host out of `asked` (`fleet.rs` 1149) and
  leaves its answer, so one host that answered and left and one that has not answered
  read as `1 of 1`, though `chrome/model.rs` 334-336 says a slow relay reads as pending.
- `fleet_declined` (no run of its own). A host that declined is skipped "until [its] lane is
  replaced" (`fleet.rs` 383-384). A retired lane is replaced without clearing the mark
  (785-803): a host that was upgraded while its route was away is not asked until its new
  link ends, or the parked thread of the old one surfaces.

Also seen:

- An empty delta advances `sent` without a message (`session.rs` 701). The next delta
  names a base no client holds and is refused; when the session has ended,
  `Exited` follows in the same pass and a window stops reading (`remote.rs` 736)
  before the keyframe it asked for. In the codec the replica is then `behind` until
  it asks.
- A device that asks again before its dead connection has been dropped never left the
  queue between two polls: `poll_with` (`server.rs` 917) announced it once, so the
  new request, with its new code, is not announced and a caught-up window keeps
  a code nobody's screen shows, though `app/mod.rs` 1949-1951 says otherwise.
- A quitting instance drops its windows while its acceptor still answers: a launch that
  asks it then is refused (`instance.rs` 461) and exits 1 without a window, though
  the module says (20-21) that a launch that does nothing is not recoverable. Its request was
  parked before that (460), so the wake of another launch may have had it opened by a loop that
  then returned: it exits 1 all the same, and its window goes with the others. `OneWindowEach`
  allows exactly that.
- A page of history comes from an encoder of its own, whose ids start at 0, and
  `absorb_attrs` (`apply.rs` 298) puts them into the table the deltas are decoded
  with: later rows are drawn in another style until the next keyframe.
  `encode.rs` 248-251 keeps the two apart on the host's side only. `ScreenAgrees` leaves
  such replicas out (mark `restyled`).
- Ids have gaps once a shrink gave rows up, so one line scrolled across a gap is
  encoded as a scroll by several, and rows still shown are filed as history (mark
  `misfiled`): the scroll is exact in ids, not in rows.
- A page of rows at or after a line can reach past what the replica has on screen, or
  start before a row the host has evicted since; `push_history` puts it first either
  way and history is out of order (mark `spilled`).
- A delta that carries a screen switch compares the rows of one screen with the shadow
  of the other: a row with the same id and the same content on both is not sent
  (mark `crossed`).
- An ED 3 on the alternate screen sends a keyframe with that grid's counter, 0, and the
  return travels by delta, which has no counter: the replica keeps the destroyed
  history until some later keyframe. `perform.rs` 541-544 says the counter travels when
  the primary returns. `ClearsReach` leaves replicas out that crossed since their
  last keyframe.
- A title alone moves no sequence, so `poll` answers a caught-up client with `None`
  and the title waits for something to be drawn (`session.rs` 372).
- A quitting instance unlinks its socket, then its lock file, and only then lets the
  flock go (`instance.rs` 485-491). A launch that opened the lock file before the
  unlink takes the flock of a file with no name; a third one creates the file
  anew, locks that, and unlinks the second one's socket: two of them serve.
  `ServesAtItsPath` speaks of scenes where nobody quits for that reason; without
  that condition TLC finds it violated.
- An older control link whose hello was slow at its database write disowns a newer
  one that is ready already (`room.ts` 316-325): which link wins is the order
  of the writes, not of the dials, against `control.ts` 115-116. `OneWayBack` says
  what is left: one is ready, and the daemon dials again.
- `PairingQueue::expire` (`pairing.rs` 635) has no caller, though comments in
  `server.rs` 2390-2393 and `lan.rs` 737-744 rely on requests expiring; the
  watchdog's second deadline is what ends them.
- The daemon that loses the race for the endpoint exits before the winner has bound,
  so the window that spawned it may read its own child's exit as a failure
  (`spawn.rs` 97-104, against 61-65).

The parse that rebases the viewport is
visible to a poll before `keyframe_everyone` (`Converges` says it heals), and
`subscribe.rs` 95-100 says a subscriber ahead of the host gets a keyframe where the
code returns `Idle`. A session one client closes is skipped by every other
client's poll (`server.rs` 947), so `ToldWhileKept` speaks of sessions that are
kept. An answer holding a listing, built before a push and queued after it,
leaves a watcher with the older one; `ListingFresh` leaves those clients out. The
comment at `server.rs` 1036-1041, that a session only becomes sweepable when a
client goes away, does not cover a shell that ends after its last client has
detached: it stays listed until some unrelated poll.

## 6. Plan

1. `SessionSync`, `SharedScreen` and their proofs: done.
2. `SessionRegistry`, `SessionLife`: modelled, checked, and the refinement proved.
3. The gate and `DeviceTrust`, the relay and `Rendezvous`, the local endpoint:
   modelled, checked, and their safety proved.
4. `TermGrid`, `DeltaCodec`: modelled at the grain of rows, checked, and their safety proved.
5. Deferred workers and `Answering`, the window's fleet: modelled, checked, and their safety
   proved.
6. Left to prove: the composition of `SessionSync` with the codec, that a picture, as
   `SessionSync` has it, is what `DeltaCodec` shows.
7. Left to model: the key ratchet, predicted echo, the block store's journal, attestations.

## 7. Not modelled

Not yet, and in the plan: columns, reflow, runs, blocks and the browser's `GridView`
in the codec, attribute ids that wrap at 65536, the sealed channel's counters, predicted echo, the block
store, attestations; of the fleet, discovery and the account listing with its loop, the
prober, and pairing decisions, which dial afresh.

Not at all: terminal emulation beyond the grid's rows (sequential, and tested case by
case), the restating pty of Windows, the pty layer,
rendering, fonts, themes, keyboard input, settings and user interface (no
protocol), cryptography (external by nature), HTTP and sockets (I/O). Each is
listed with its reason in `PROJECT.json`.
