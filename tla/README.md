# A TLA+ model of the 365VPN Android client

This directory models the two programs of the repository that carry its logic:

* the native tunnel `src/hev-socks5-tunnel/`, which reads IP packets from a TUN
  device, ends TCP and UDP in lwIP and forwards every session to a SOCKS5 server;
* the Android app `src/app/`, which starts a SOCKS5 proxy (a Go library), opens
  the TUN device, runs the tunnel on it and keeps the list of nodes.

Each component has a module; `MC*` modules and `.cfg` files give the constants
values for TLC; `*Proofs` modules hold the theorems TLAPS checks. `PROJECT.json`
lists components, runs, mutants, findings, hazards and theorems, and maps every
definition to the lines it models.

## 1. Inventory

### How the parts fit together

```
 MainViewModel ── NodeStore / SettingsStore (preferences), X365Api (HTTP)
      │ startService / stopService
 X365VpnService ── Go proxy (x365.aar), listening on port 10808
      │ TProxyStartService / TProxyStopService / TProxyGetStats
 hev-jni ── mutex, one worker thread
      │ hev_socks5_tunnel_main / _quit
 hev-socks5-tunnel ── run_state flags, event socket pair, stage-wise init and fini
      │ tasks of the cooperative scheduler (hev-task-system: run queue, timers,
      │ reactor, mutex; its queues are red-black trees)
      ├─ lwIP input task ── accepts sessions, mapped DNS
      ├─ lwIP timer task
      ├─ event task ── ends everything on a stop event
      └─ one task per session ── TCP session (ring buffer) or UDP session
                 └─ SOCKS5 client ── the proxy on port 10808
```

| Component | State | Operations | What makes it correct |
|---|---|---|---|
| Tunnel lifecycle, JNI bridge | flags SEND, SENT, WAIT, STOP; event socket pair; parts initialised so far; JNI mutex, worker thread | start, stop, quit, init and fini in stages, run | a stop gets through and leaves nothing; the event byte goes to an open socket; one worker |
| Tunnel tasks, session list | `run`, list and count of sessions, lwIP mutex, scheduler state of each task | accept, activity, limit, terminate, end, timer, stop event | no stopped task is woken; the timers run while there are sessions; all tasks end |
| TCP session | queue from the application, ring buffer to it, pcb and socket state, timeout | two splicers, lwIP callbacks, yielder, drain, terminate | no lost wake-up, no lost byte at an orderly end, an end after terminate |
| Ring buffer | `rp`, `wp`, `use_size`, `rda_size`, bytes | writing, write_finish, reading, read_finish, read_release | bytes in order; memory lent to lwIP untouched |
| Mapped DNS | tree of names, array of records, LRU list, `use` | answer a request, look up an address | names and addresses one to one; an address is not reused too early |
| VPN service | `running`, `vpnInterface`, `proxy`, connection state; connect thread, statistics thread | start command, disconnect, revoke, destroy | switching frees the port, destroying cleans up, what is shown is what is served |
| Node list and account | shown and saved list, account, token, API URIs | import, delete, rename, login, refresh, logout, restart | saved is shown; own nodes stay; API nodes are replaced and removed |
| UDP session, SOCKS5 UDP | frame queue, batch being sent, message vector, frame being read, control connection | two splicers, framing over TCP or UDP, yielder, lwIP callback, terminate | datagrams in order and none twice; no lost wake-up; an end after terminate |
| SOCKS5 client, server, authenticator | handshake position, descriptors, timeout; server: chosen method, held user | standard and pipelined handshake, UDP association, destruction | no service without a grant, no grant without the credentials; both ends in step; no descriptor or reference leaks; nobody waits for ever |
| Red-black tree | nodes with parent, children, colour; cached first node | insert, erase, first, next | balanced; an ordered queue in which equal keys keep their order |
| Task scheduler (hev-task-system) | run queue by `sched_key`, task states, timers, mutex, joiners, pending events | run, yield, sleep, wakeup, join, lock, unlock, poll, return | every runnable task runs; a wait ends when its reason is gone; the mutex is handed on; no stopped task is woken |
| Network probe | exit information, latencies | query, clear | not modelled |
| Configuration, TUN drivers, logging, screens, API encryption | – | I/O, parsing, layout | not modelled |

### What is hard here

* **Threads.** Java threads call start and stop while the worker initialises,
  runs or cleans up, synchronised only by atomic flags; the service's connect
  thread shares fields with the main thread without a lock; `fetchNodes` on an
  IO thread rewrites the list the main thread edits.
* **Cooperative tasks.** A task loses control at each yield; polling is
  edge-triggered, so a wake-up that is missed does not come again; the lwIP mutex
  is held across callbacks.
* **Partial failure.** Every stage of initialisation, every allocation, each
  `tcp_write` and every API call may fail.
* **Limits.** Session limit, full ring buffer, full DNS cache, full datagram pool.
* **Framing.** UDP over the SOCKS connection puts datagrams into a byte stream; a
  send that gives up or a read that times out in the middle leaves the stream out
  of step.
* **Scheduling.** One thread runs all tasks; what the sessions take for granted (a
  woken task runs, a sleep ends, a mutex comes free) is the work of a run queue
  ordered by accumulated keys, of which only the first element is looked at.
* **Restarts.** Android kills the process at any time; changes to two preference
  files are made one after the other and written some time later.

The hazards in `PROJECT.json` list the most important ones at their lines, with the
properties that would catch them. No property covers these:

* commands that overlap in the VPN service, an edit during a sync, a torn or malformed
  frame of the UDP stream, and the mutex locked twice: the models reach these states, and
  the properties except them by name, because the code does fail there (section 4);
* a token left over from a login that failed later on carries the next login, whose
  credentials are then never checked (`MainViewModel.kt:314`), although the comment on
  `login` says that it verifies the account (`:252`);
* the statistics thread may miss the gap between two connections and write into the
  next one's figures (`X365VpnService.kt:234`, `:242`); a failure reported while
  `onDestroy` runs is hidden (`:293`); Connected is reported when the native worker has
  been started, not when it serves (`:209`);
* renaming may put one URI into the list twice, and makes an API node the user's own
  (`MainViewModel.kt:239`); exit information may arrive after its connection is gone
  (`NetworkProbe.kt:50`);
* more sessions than `max-session-count`, since the limit only asks the oldest to end
  (`hev-socks5-tunnel.c:134`); a signal handler that calls stop inside a stop
  (`hev-main.c:137`); counters read without synchronisation (`hev-jni.c:200`);
* every wake-up starts the timeout anew, so a peer that sends a byte now and then is
  never timed out (`hev-socks5-misc.c:48`);
* answers to datagrams carry the last named destination as their source
  (`hev-socks5-session-udp.c:201`); user and password lengths are cut to one byte
  (`hev-socks5-client.c:69`); a request that cannot be written leaks its address (`:151`);
* a task that ends through `hev_task_exit` does not wake its joiner (`hev-task.c:214`).

## 2. Modules and plan

| Module | Models | Composed with | Proofs |
|---|---|---|---|
| `TunnelService` | tunnel lifecycle and JNI bridge | its drain, which may hang, is what `SessionTasks` has in detail | `TunnelServiceProofs` |
| `SessionTasks` | tasks, session list, stop event | its fairness, and the sessions it excepts, are what `Scheduler` and the sessions' `TerminateEnds` show | `SessionTasksProofs` |
| `Scheduler` | the kernel of hev-task-system | the ground of every task's fairness | `SchedulerProofs` |
| `RbTree` | red-black tree with cached first node | implements `OrderedQueue`, which is how `Scheduler` uses it | `StructureProofs` |
| `OrderedQueue` | abstract: a queue ordered by key, first in first out for equal keys | – | – |
| `RingBuffer` | ring buffer, and the contract its user keeps | abstract specification for `TcpSession` | `TcpSessionProofs` |
| `TcpSession` | TCP session | `EXTENDS RingBuffer`; implements its `Spec` | `TcpSessionProofs` |
| `UdpSession` | UDP session and SOCKS5 UDP | – | `UdpSessionProofs` |
| `SocksHandshake` | SOCKS5 client against SOCKS5 server | implements `Handshake` | `SocksHandshakeProofs` |
| `Handshake` | abstract: what a handshake promises | – | – |
| `MappedDns` | mapped DNS cache | – | `StructureProofs` |
| `VpnService` | VPN service | tunnel and proxy as outside state | `AppProofs` |
| `NodeSync` | node list and account | – | `AppProofs` |

The modules were written in this order of importance: lifecycle, VPN service,
mapped DNS, ring buffer, TCP session, tasks, node list; then the red-black tree,
the UDP session, the handshake and the scheduler. What remains worth doing:

1. A proof that `RbTree` implements `OrderedQueue`, which TLC checks so far.
2. `ConnectFlow`: permission dialog, latency test and exit information of
   `MainViewModel`.
3. The channels and conditions of hev-task-system, which the tunnel does not use.

## 3. How the modules correspond to the code

**TunnelService.** `pc` is the position of a caller in `hev-jni.c` or in
`hev_socks5_tunnel_stop`, `wpc` that of the worker. `tsync` is `run_state` as a set
of flags; each atomic operation is one action. Initialisation goes through
`Parts` one at a time, each of which may fail, and failure leads to the label
the code jumps to. `bytes` counts bytes in the socket pair. `Callers` use JNI,
`Quitters` call `hev_socks5_tunnel_quit` directly. A worker that has got the event
drains its tasks (`Drained`) or never does (`TasksHang`): `SessionTasks` shows when.

**SessionTasks.** One action is what a task does between two suspensions.
`max_session_count` is any of `Limits`. `aborted` records a `hev_task_wakeup` of a stopped
task, which aborts the process; nothing runs after it. `locker` holds the lwIP mutex
where it is held across a suspension. A session may become "flooded" (`SessionFlooded`):
data keeps it from ever looking at its timeout, as in the sessions' own modules.

**RingBuffer.** Operators have the names of the functions. The buffer contains
positions of the stream instead of bytes, so that order and overwriting can be
stated. `Fill`, `Take` and `Release` are the three ways the TCP session uses it;
`tcp_write` may refuse either piece.

**TcpSession.** `queue` is the pbuf queue, `inQ` and `outFree` the two directions of
the socket, `edge` the pending wake-up. `res_f` and `res_b` are the results of the
two splicers as in the code's loop. Sockets take and give a part of what is
offered; callbacks occur only while the task sleeps. The application may fill the
receive window (`Window`) again whenever it has been emptied, without end. A failed
`tcp_write` or `tcp_output` leaves lwIP with any of the pieces (`SomePieces`). Where the
task takes the lwIP mutex it may wait for ever (`Blocked`).

**MappedDns.** `tree` and `idx` are the red-black tree with its nodes' indices,
`records` the array, `list` the LRU list. A request is a sequence of questions
answered one at a time. `handed` and `since` are history: the address last given
to a name, and which other names were used since.

**VpnService.** `cpc[c]` is the position of the connect thread of request `c`, `mpc`
of the main thread in `onDestroy`. `listening`, `openFd` and `tunnel` are the world
outside: proxies on the port, open descriptors, the descriptor the tunnel runs on.
A native stop returns (`TProxyStop`), or waits for ever with the JNI lock held
(`TProxyStopHangs`, `stopHung`), as `TunnelService` shows it may. Commands come at any time;
`overlapped` records that one came before the previous had finished,
`tunnelExited` that the native worker ended by itself.

**NodeSync.** A URI is a pair of base and label, because rename and `relabel` replace
the label and everything else compares whole URIs. `main` is the list an edit has
computed and still has to publish and save; `fetch` the coroutine of login or
refresh. Both stores are edited with `apply()`: `stored` and the settings are the copies
in memory, `written` the two files, which Android brings up to date some time later, one
by one (`WriteNodes`, `WriteSettings`). `Restart` is a kill at any point, in the middle of
an edit too, followed by a start from the files. `mine` is history, and so are `raced` (an edit
and a sync worked on the list at once) and `torn` (the process was killed with a file
behind its copy in memory, or with the result of a fetch saved in part).

**RbTree.** A tree is a record of its pointers, and operators named for the code's
assignments rewrite it. The mirrored halves of the C functions are one definition
with the side as a parameter. Each round of a rebalancing loop is a step (`InsertFlip`,
`InsertRotate`, `RedSiblingUp`, `EraseFlip`, `EraseRotate`), so that `RedBlack` can say in the
middle of a loop what the code's comments say there: which one node may be red
under red, which one side lacks a black node. Places are chosen as the scheduler
and the timers do it, behind the nodes of the same key.

**UdpSession.** `mode` is the configuration: datagrams framed in the TCP connection, or
on a UDP socket that lives as long as the TCP connection `ctl`. `frames` is the
queue filled by the lwIP callback, `batch` and `size` a send under way, `got` and `cur` a
batch being read. A frame crosses the TCP socket in pieces: two outwards, three
inwards (part of the head, the rest of it, the body), so that every place at which
the code can give up exists. `UseUnwritten` is the use of message entries that were
never written, after a byte count has been returned where the caller expects a
count of messages: they hold anything, so the choice is left open. `Malformed` is a
datagram that makes `recvmmsg` fail without an errno, after which the code tests the one an
earlier call left behind. `torn` and `garbled` record that a batch was cut and that the
stream is out of step, `late` that a datagram was queued while the task waited inside a
frame. As in `TcpSession`, `Blocked` is a lwIP mutex that never comes free. The module has
no bounds; `MCUdpSession` adds them for TLC. A datagram's destination on the UDP socket is
not modelled: the client sets `udp_associated` before the splicer runs
(`hev-socks5-client-udp.c:120`), so the `connect` in `hev-socks5-udp.c:273` is not reached.

**SocksHandshake.** `todo` is the sequence of reads and writes still to come, in the
standard or the pipelined order; `cork` holds what was written with MSG_MORE and
is not sent yet. `copen` and `sopen` are open descriptors, `cown` and `sown` those the objects
refer to and their destructors close. Either end may fail at every read, write,
socket and connect. The configuration (credentials, authenticator, service,
order) is chosen in the initial state, so one run covers all of them.

**Scheduler.** `cpu` is the current task or what the kernel context is doing (`boot`,
`poll`). `kern` has the fields of the context that `hev-task-system-schedule.c`
changes: the queue (current task included), the keys, the task states and whether
`abort` was called; `at` is the call a task is in. A task calls yield, sleep, wakeup,
join, lock, unlock and return in any order. It does not wake a task that has ended and
does not lock the mutex it holds: both are the duty of the caller, and `SessionTasks`
has the two places where the tunnel fails in it. The library is built with
CONFIG_SCHED_CLOCK = CLOCK_NONE, so a turn costs a task its priority. Keys only grow
in the code; only their differences within the queue matter, so the model moves
them back together at every pick (`Rebased`). An event that comes while the reactor
reports others is as good as one just after the pick, so `Event` is left out there.

## 4. Runs

Passing runs:

| Run | Shows | Bounds, and why they are enough |
|---|---|---|
| `tunnel_safety` | `WriteHitsOpenSocket`, `OneWorker`, `StoppedMeansGone`, `MainBlocksUntilQuit` with every init stage failing, and `StopReturnsUnlessMissed` | a worker told to stop may also never end its tasks; two callers and a quitter: two stoppers contend for WAIT while a third waits; a second worker identity lets two workers exist; thread identities are reused, so starts and stops go on for ever |
| `vpn_commands` | `ConnectResolves`, unless a native stop hangs; `SwitchFreesPort`, `DestroyCleansUpInTurn`, `ConnectedMeansServing` unless commands overlapped | two connects on two instances: connect, switch, destroy, connect again, and every overlap of two connect threads with the main thread |
| `dns_cache` | `OneAddressPerName`, `ListMatchesTree`, `RecentNamesStay` | four names for two addresses: eviction of known and unknown names, also inside a request |
| `ring_wrap` | `ReadInOrder`, `LentIntact` | three bytes and a stream of nine: three times around |
| `tcp_splice` | `NoLostWakeup`, `HalfClose`, `OrderlyEnd`, `TerminateEnds`, and `UsesRing`: the session implements `RingBuffer` | buffer of three and four bytes from the server: full, partly acknowledged and empty buffer and hand-outs in two pieces all occur; a socket that takes one byte at a time splits the upload, which goes on for ever behind a window of two |
| `sessions_stop` | `NoAbort`, `TimersRun`, `StopDrains` | four sessions, no limit or one of one, two or three: each limit is met with sessions in every state; a task may fail to be created, and a session may be flooded |
| `nodes_sync` | `SavedIsShown`, `Accounted`, `OwnNodesStay` up to the first race, `Accounted` up to the first kill before a change was written | two bases, four labels, one account, three answers of the API (one empty), lists of up to two nodes (longer ones are checked and not extended): old and new API sets differ, and a paste coincides with an API node; each file may be behind by any number of changes at a kill. States after a race are not explored further, because nothing is claimed of the list then |
| `rbtree_queue` | `RedBlack`, and `IsOrderedQueue`: the tree implements `OrderedQueue` | all sequences of insertions and erasures of ten nodes, two pairs with equal keys. Ten are needed: with fewer, no erasure recolours more than one level |
| `udp_session` | `SentInOrder`, `DeliveredInOrder`, `NoLostWakeup`, `TerminateEnds`, for both modes | a pool of one (so two are queued), batches of two, a socket that takes one piece; three datagrams (two where a datagram has several pieces) over both directions fill the pool, leave a rest behind a batch and tear a frame at each piece. These bounds (`MaxLoad`, and at most one datagram of the server other than `ok`) are in `MCUdpSession` only. There a terminated session with nothing under way forgets the datagrams that are over (`Forget`), so that traffic goes on for ever and `TerminateEnds` is tested against it |
| `socks_handshake` | `InStep`, `NothingLeft`, `Implements`: the pair of ends implements `Handshake`; `HandshakeEnds`, `TerminateEnds` | no bound: all configurations and every failure |
| `scheduler_tasks` | `NoAbort`, `MutexHandedOn`, `NoStarvation`, `WaitsEnd` | three tasks, one of a lower priority: one runs, one waits and one is queued, with two sleepers (two timers due at once), a joiner, an event source and one mutex with two waiters; sleeps of one and two ticks make timers change places |

One run shows the code not doing what its documentation says (a finding in
`PROJECT.json`, with the line quoted): in `tunnel_lost_stop` a stop that samples SEND
before init sets it, and sets STOP after run has tested it, is never noticed, and
`TProxyStopService` hangs in `pthread_join`. `StopReturnsUnlessMissed` shows that a stop
returns but for this window and for a worker whose tasks never end (the first bullets
below).

The conditions in the passing properties mark further places where the code
falls short; each condition is a history variable or state the model records, so
that the property says exactly when it can fail:

* `MainBlocksUntilQuit`: a STOP left over from an earlier stop makes the next tunnel
  return at once, reporting success (`hev-socks5-tunnel.c:726`).
* `SwitchFreesPort`, `DestroyCleansUpInTurn`, `ConnectedMeansServing` (`overlapped`): a second
  connect before the first is done finds `running` false and starts its proxy on
  the occupied port; a disconnect while the connect thread works leaves a proxy, a
  descriptor or a tunnel behind, because `onDestroy` does not wait for it, and the
  thread sets `running` for good.
* `ConnectResolves` (`stopHung`): `stopExisting` runs the native stop on the connect thread;
  if that hangs, the state stays Connecting (`X365VpnService.kt:127`).
* `StopReturnsUnlessMissed` (`TasksStuck`), `StopDrains` (`locker = "io"`), `TerminateEnds` (`Blocked`): if a session's task cannot be created, the input task
  waits for the mutex it holds, and the tunnel cannot be stopped
  (`hev-socks5-tunnel.c:194`).
* `TerminateEnds` (`Progress`, `Moves`), `StopDrains` (flooded sessions), `StopReturnsUnlessMissed`
  (`TasksStuck`): a terminated session that moves data in every round only yields, and
  `hev-socks5-misc.c:40` then returns without a look at the timeout, so it goes on for as long
  as there is data (`hev-socks5-session-tcp.c:218`, `hev-socks5-session-udp.c:290`).
* `NoAbort` of `SessionTasks` says under which limits the process aborts: with
  `max-session-count` 1 (which `hev-config.c:367` accepts) the first session is terminated
  before its task runs. Under any other positive limit, and without one, it does not. The
  count may also exceed the limit, since only the oldest session is asked to end.
* `Accounted`: a renamed API node counts as the user's own: it survives refresh and
  logout.
* `raced`: an import, deletion or rename during the sync of a fetch is lost.
* `torn`: a kill after the new list was written and before the set of API nodes was leaves
  API nodes that neither refresh nor logout will remove. `OwnNodesStay` has no such
  exception: what is in the file survives every kill.
* `SentInOrder` (`torn`): over the TCP stream a send that gives up inside a batch counts
  the whole batch as sent (`hev-socks5-udp.c:94`), and the queue holds one frame
  more than UDP_POOL_SIZE.
* `DeliveredInOrder`, `NoLostWakeup` (`garbled`): a timeout inside a frame loses the place
  in the stream; the session goes on reading (`hev-socks5-udp.c:181`, `:219`). So it does
  after a malformed datagram, if the errno left behind is EAGAIN
  (`hev-socks5-session-udp.c:125`).
* `NoLostWakeup` (`late`): a datagram that is queued while the task waits inside a frame
  which then fails is not looked at until the next event (`hev-socks5-session-udp.c:285`).
* `NothingLeft` is about descriptors and references; a request that cannot be written
  leaks its address (`hev-socks5-client.c:151`).
* `Handshake.Admitted`: a server without an authenticator refuses a client that has
  credentials, since such a client offers no other method.

The reverse lookup of `MappedDns` uses the host part of any address, inside the mapped
network or not (`hev-mapped-dns.c:267`); the model does the same and no property
claims more.

Every property of a passing run has a mutant: a variant of one mapped definition
with a plausible bug, under which TLC finds the property violated. The variants
stand before the definitions they replace, marked `Mutant`.

### Fairness

* `Scheduler`: weak fairness of the one thread (a task leaves its own code sooner or
  later, since tasks are cooperative, and the kernel context never stops half-way)
  and of the clock; none of events. `NoStarvation` and `WaitsEnd` then justify weak
  fairness of single tasks in the three modules of sessions below.
* `TunnelService`: weak fairness of every thread inside a call and of the worker;
  they are kernel threads. Nobody has to call start or stop. A worker that drains may
  always hang instead, so the end of its tasks is not assumed.
* `VpnService`: weak fairness of `onDestroy` once begun and of started threads; none
  of the user's commands.
* `TcpSession`: weak fairness of the session's own task, which the scheduler runs
  when it is ready, and which may block for ever at the mutex. None of the peer, the server or lwIP: `TerminateEnds` must
  hold with a silent peer.
* `UdpSession`: weak fairness of the task and of the poll that turns an edge into a
  wake-up; none of the application, the server or timeouts. `Forget` has none either.
* `SocksHandshake`: weak fairness of both ends and of the kernel sending what MSG_MORE
  kept back; none of timeouts, so that `HandshakeEnds` shows that the ends do not need
  them against each other.
* `SessionTasks`: weak fairness of the three tasks, of the timer's sleep, and of the
  end of a *terminated* session, which `TerminateEnds` justifies where the session is not
  flooded; it may become so at any time. A session that is not terminated may live for ever.

Deadlock checking is off where the model may really stop: streams and requests
that are used up, a tunnel with nothing to do, a finished session or handshake,
tasks that all wait for events, and the abort and the stuck input task of `sessions_stop`.

## 5. Proofs

`TunnelServiceProofs`, for any sets of callers, quitters and worker identities:
`TypeCorrect`, `WriteSafe`, `SingleWorker`, `StopIsComplete`, `MainBlocks`. None of these is
inductive. For the first four the
invariant `IInv` adds that the JNI lock is held exactly by the caller inside a JNI
function (`LockInv`), that WAIT is a lock with one owner (`WaitInv`), that
`thread_joinable` and `work_thread` describe the live worker (`ThreadInv`), an upper
bound on the parts held at each point of the worker (`HeldInv`), and that SEND, SENT
or a stopper about to write imply a worker between setting SEND and the end of
fini's retry loop (`EventInv`). The last is the heart of it: fini leaves the loop
only when WAIT is off, hence with no stopper inside, hence with nobody about to
write. `MainBlocks` follows the reason to leave back to where it comes from (`WhyInv`): a
worker past its event task, a byte in the socket pair, a STOP that meets a live
worker and a stopper about to write all have a reason on record. The record
starts anew with each worker; `IInv` gives that none of them is then left over.

`StructureProofs`, for any cache size, network and set of names: `TypeCorrect`,
`TableConsistent`, `ListConsistent`, `RecentNamesKept`. The invariant adds that the list holds the names
of the tree once each (`ListInv`) and that records are free from `use` upwards
(`FreeInv`); three lemmas say what moving to the tail, appending and dropping
the head do to such a list. `RecentNamesKept` (an address leads to its name until
`max` other names have been used) needs the list as an order in time: `RInv` says that
whoever stands behind a name in the list was used since that name was (`Followed`),
so that the head of a full list, the one to be evicted, has been followed by `max` names,
and that a name still in the tree has the address it was answered with (`Answered`).

The same module has the red-black tree, for any set of nodes, any keys and any sequence
of insertions and erasures: `TreeIsRedBlack`. `RedBlack` speaks of whole paths, which no
single assignment of the code does. The invariant `TreeInv` is therefore local: parents
and children agree (`Links`), and there is a height for every node such that the height of
a node is that of each child, plus one if the node is black (`Fine`). While erasing,
one side of `parent` is one short of that; while inserting, `node` alone may be red under
red (`Shape`). `InvRedBlack` derives the statements about paths by induction from the root
downwards, and `ShapeAcyclic` that heights and colours rank a parent above its children,
so that there is no cycle. Along that rank `RankInduction` and `Recursion` show that the
functions by which the model walks the tree are what their equations say. Each rotation
of the code is a sequence of pointer assignments during which the tree is none; lemmas say
what each assignment changes (`SetChildFacts` to `RotateSetParentsFacts`), what they make
together (`TurnFacts`, `InnerTurnFacts`), and that this keeps the links (`RotatedLinks`). Then
each case of the two loops gives new heights to the two or three nodes it moves. Erasing
a node with two children is shown to be the same as exchanging it with its successor, a
renaming that keeps the shape (`RenamedShape`), and taking it out there, where it has at
most one child (`TakenOutStep`). Also shown on the way is that the sibling, the
grandparent and the nephews whose fields the loops read without a test for NULL are
there (`SiblingFacts`, `ConflictFacts`).

`SocksHandshakeProofs`: `Refinement`, the handshake implements `Handshake`, with
`SocksHandshake`'s own specification as the premise. It follows the credentials
through the system. The invariant has three parts: which messages can be under way
(`TypeInv`: the client's say what it was configured with), what the server has
checked by the time it is about to answer (`Checked`), and that a success on its way
to the client means a grant (`Ordered`). Each action of either end is then a grant,
the start of the service, or nothing to `Handshake`.

The same module proves `NoLeak` and `BothInStep`. For `NoLeak` the invariant says at each
point of either end exactly which descriptors and references it owns (`LeakInv`), so
that every way out, failures included, is seen to give all of them back. `BothInStep`
counts: at each of its points an end has written and read a definite number of
messages, depending on the credentials (`Steps`), the two ends agree on whether there
are any (`Agreed`), and what one has written and the other has not read is what is
under way, in that order (`ToServer`, `ToClient`, `Quiet`). The next message an end reads
is therefore the one after those it has read.

`SchedulerProofs`, for any number of tasks, any priorities and any order of calls:
`NeverAborts` and `MutexIsHandedOn`. Neither is inductive. A wakeup reaches a task
through a node of the timers, a node of the mutex, a joiner or an event, so the
invariant says of each of them that its task is in the call that left it there:
timer nodes belong to sleeping tasks and mutex nodes to locking ones, one to each
(`Asleep`, `Locking`), the joiner of a task that has not ended is still joining
(`Joining`), events belong to live tasks (`Registered`), and a task inside a call is not
stopped (`Started`). The lemmas about `Woken`, `Parked` and `Schedule` reduce the kernel to
what it does to task states; those about `InsertAt` and `RemoveAt` describe the two lists.

`SessionTasksProofs`, for any number of sessions and any limit: `TimersAlwaysRun` and
`AbortNeedsTinyLimit`. A wake-up aborts if its task has ended, and the tunnel wakes what the
session list holds. The invariant `SInv` therefore says that the list holds exactly the
sessions whose task runs, once each, that `session_count` is its length, that a session
not yet accepted has no task, that the timer task is there while `run` is set, and that it
waits without a timeout only beside an empty list. Under a limit
of at least two the session at the head of the list is not the one just linked in, whose
task does not run yet; under a limit of one, or one read as negative, it is. The theorem
says that only these limits abort.

`TcpSessionProofs`, for ring buffers, socket buffers and streams of any size: `NoWakeupLost`,
`EndsAfterData`, `OrderlyEndIsComplete`, the refinement `RingUsedCorrectly`, and
`SessionBytesIntact`. The invariant `TInv` says what the results the splicer keeps in
`res_f` and `res_b` still mean later in the loop body, as long as no event is under way
(`Forward`, `Backward`): zero means blocked, and the one thing that could unblock it comes
with an event or a wake-up; negative means that the end was passed on, or a reason why
not. It also counts the bytes put, taken, accepted by lwIP and acknowledged (`Counted`) and
says which results lead to which control state (`Control`). For the refinement, each step
is shown to be a step of `RingBuffer` or none: `Counted` gives that a read fits the free
space and that lwIP acknowledges no more than it accepted, which is no more than the
buffer handed out.

The same module proves the ring buffer itself, for any capacity and stream:
`PointersInside`, `InOrder`, `LentMemoryIntact`. The invariant relates the sizes to the
three positions in the stream (`Counts`), places the read pointer modulo the capacity
(`ReadPointer`) and says what is stored at every address in use (`Stored`), and under
which address lwIP knows each byte it was given (`Known`). Lemmas show that the one or
two pieces of a read or write are consecutive addresses modulo the capacity.
`SessionBytesIntact` carries these results over to the session.

`UdpSessionProofs`, for both modes and for pools, batches, socket buffers and numbers of
datagrams of any size: `SentInOrderAlways`, `DeliveredInOrderAlways`, `NoWakeupLost`. The
invariant `UInv` numbers the pieces: those written and those still queued are together the
pieces of the accepted datagrams in the order of their acceptance (`Written`, `Queued`),
where a batch that was given up half-way is the only gap. In the other direction it says
which piece of the stream the reader expects (`Arrived`, `InStep`), so that a frame is taken
from the pieces of one datagram. For the wake-ups it says what the splicer's results mean
while nothing happens (`Calm`) and that a blocked send or read has an event coming (`Awake`).
`NoWakeupLost` has the exceptions of `NoLostWakeup`: a direction that has ended, a stream out
of step, and datagrams queued inside a frame (`late`). The theorems are about `UdpSession`'s own
specification, without the bounds of `MCUdpSession`.

`AppProofs`, for any number of requests and of service instances: `PortIsFree`,
`DestroyedMeansClean`, `ConnectedIsServed`, each while commands come in turn, as the properties
say. The invariant `VInv` says that then at most one connect thread is at work, on the
running instance and not beside `onDestroy` (`OneThread`); that its control state
determines which of the proxy, the descriptor and the tunnel exist (`Reached`, and
`Destroyed` for `onDestroy`); that whatever exists is named by the fields of the running
instance, where the clean-up looks for it (`Held`); and that a running instance at rest
which nobody stopped serves the request that `connState` names. The
native tunnel may end by itself in any of these states, and a native stop may hang.

The same module has the node list, for every set of accounts, configurations and pasted
texts: `SavedListIsShown`, `NodesAreAccounted`, `OwnNodesAreKept`. The invariant `NInv` follows a
list from its computation over the screen to the disk: without a race nobody else
computes a list in between (`Saved`); the user's nodes are in every list that may be
shown next (`Kept`), every other node of it is marked as the API's (`Claimed`), also in the
copy that is saved, which is what a kill with nothing unwritten goes back to, and without
an account nothing is marked (`LoggedIn`). `OwnNodesAreKept` covers a kill at any point and any
delay of the files; `NodesAreAccounted` ends at a kill before a change was written. These rest on what the sync computes: `FilterNot`
and `AddMissing` are recursive functions, and `FilterNotProperties` and
`AddMissingProperties` say which elements their results have. The library's induction
theorems cannot be used for that (see below), so the module proves an induction
principle about *sets* of naturals from the least element of a set (`Least`,
`Induction`), and the existence of a function defined by recursion from it (`Iteration`).

The assumptions are the named `ASSUME`s of the modules: disjoint identities, a positive
capacity, a cache that fits its network, priorities from 1 to 15. TLC evaluates
them in every run. Priority 0 is allowed by the code and not used by the tunnel; a
yielding task of priority 0 would keep the processor.

Only model-checked: all liveness (`StopReturnsUnlessMissed`, `ConnectResolves`,
`TerminateEnds`, `HandshakeEnds`, `StopDrains`, `NoStarvation`, `WaitsEnd`), which is outside the
prover's reach, as is ENABLED; and that `RbTree` implements `OrderedQueue`
(`IsOrderedQueue`). The walk is a sequence put together along the tree, and that a
rotation leaves it unchanged needs an induction over sequences that has not been
carried out. The induction theorems of the library take an operator as a parameter,
which the provers cannot instantiate; where a proof needs induction it uses the
set-based principles of `AppProofs` and `StructureProofs`.
No module declares a RECURSIVE operator.

## 6. What is not modelled

* lwIP, libyaml and wintun (vendored under `third-part/`), the Go library and Android
  are external; their actions are written from how this code uses them. lwIP and
  libyaml alone are most of the lines of the repository, general-purpose libraries
  with projects of their own. lwIP may reclaim a connection in TIME_WAIT without a
  callback, and reports the close of both sides through the error callback, at which
  a session drops what it still had queued for the server; both depend on lwIP's
  internals and are left out.
* Of hev-task-system: `hev_task_exit`, `hev_task_mutex_trylock`, conditions, channels,
  calls on other stacks, the DNS proxy, stacks and memory, and schedulers for which
  CONFIG_SCHED_CLOCK is not CLOCK_NONE.
* The SOCKS5 handshake is one step of the sessions that succeeds or fails;
  `SocksHandshake` has its inside. The server's splicers, which the tunnel does not
  run, and its table of users are left out.
* Addresses of datagrams (the answer to a name is given the last named destination
  as its source), the content of payloads, memory that leaks on a failed write.
* The statistics thread of the VPN service, which only shows figures; traffic counters, notifications, log lines, theme, DNS wire format, YAML,
  encryption and HTTP.
* Memory order: the flags of the tunnel are C11 atomics with the default order,
  so interleaving is faithful; Kotlin fields shared without synchronisation are
  also interleaved, and stale reads of them are not considered.
* The components with status `not_modelled` in `PROJECT.json`, with the reason there.
