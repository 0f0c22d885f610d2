# Verification of BackMaster

BackMaster is a host protection daemon for Linux (`backmasterd`), a command-line
client (`backmasterctl`) and a desktop agent (`backmaster-agent`). This directory
models the daemon's threads, the agent and the command-line client in TLA+, checks
small instances of the models with TLC and proves theorems about all ten of them
with TLAPS. Paths below are relative to the root of the repository (`src/daemon/...`, `src/agent/...`,
`src/common/...`, `include/bm/...`, `data/...`). The repository has no tests; the
comments, the headers, `data/backmaster.conf` and `data/blocklists/*.txt` are its
statements of intent.

## 1. Inventory

| Component | State | Operations | Talks to |
|---|---|---|---|
| Blocklist (`daemon/blocklist.cpp`) | denied and allowed addresses and domains, the user's own denials, the files of the list directory; a shared mutex | `load`, `add_block`, `add_allow`, `remove`, `persist_user_files`; readers with the shared lock, and `ip_allowed` without | called by every thread that decides or edits |
| NftGuard (`daemon/nftguard.cpp`) | `installed_`; the kernel's deny and allow sets; a mutex | `install`, `teardown`, `sync_blocklist`, `block_ip`, `unblock_ip`, `allow_ip`, `unallow_ip` | reads Blocklist with its mutex held; runs `nft` |
| Daemon (`daemon/main.cpp`) | the owner of all others; signals through a signalfd | start-up, `handle` (the commands, on the IPC thread), SIGHUP reload and SIGTERM (on the main thread), shutdown | everything |
| AlertBus (`daemon/alertbus.cpp`) | dedup table, history, journal, sink | `emit` from every detector, `set_sink`, `recent` | the sink is `IpcServer::broadcast` |
| IpcServer, LineConn (`daemon/ipcserver.cpp`, `common/ipc.cpp`) | clients, an outbox, an eventfd, a counter of subscribers | the epoll loop; `broadcast` from other threads | clients; `Daemon::handle` |
| Agent, Popup (`agent/main.cpp`, `agent/popup.cpp`) | connection, retry timer, queue of alerts, the popup shown | GTK callbacks | the daemon's socket; the user |
| ProcMonitor (`daemon/procmon.cpp`) | a record per process with the guarded root it descends from | events of the process connector; seeding from `/proc`; kill | the kernel, `/proc`, AlertBus |
| KmsgWatch (`daemon/kmsgwatch.cpp`) | per-source probe windows | log records of the firewall rules | Blocklist, NftGuard (`autoblock`), AlertBus |
| DnsSentinel, ResolveCache (`daemon/dnssentinel.cpp`, `resolvecache.cpp`) | pending queries, one socket each; address to name | client queries, upstream answers, the sweep | Blocklist, AlertBus; the cache is read by KmsgWatch and SockWatch |
| SockWatch (`daemon/sockwatch.cpp`, `procinfo.cpp`) | known listeners, reported shells | a scan every three seconds | `/proc`, AlertBus |
| PersistWatch (`daemon/persistwatch.cpp`) | the inotify queue, `watches_` from descriptor to path | `start` with `collect_targets`, the loop, `report`, `stop` | the kernel, AlertBus |
| backmasterctl (`ctl/main.cpp`) | one connection, the buffer of its `LineConn` | `open`, `request`, `watch` | the daemon's socket |
| Config, Json, util, log, wolf, updater, units | - | parsing, printing, drawing, packaging | - |

How they interact: the detectors call `AlertBus::emit`, which records under its
mutex and calls the sink after releasing it; the sink queues in the server's outbox
and wakes the epoll thread; that thread writes to the subscribed agents. In the
other direction a client's command runs on the epoll thread, edits the Blocklist
(list lock), persists, and then edits the kernel sets (nft lock); a reload on the
same thread or on the main thread takes the nft lock and, inside it, the list lock;
KmsgWatch blocks on its own thread. Nothing ties the two halves of a command
together except the order of these critical sections.

What makes each part correct, and what is hard about it:

* **Lists and firewall**: what a user was told stays true, in the kernel and on
  disk, over concurrent reloads, automatic blocks, crashes and restarts. Hard:
  three threads, two locks, an unlocked read, files that outlive the process.
* **AlertBus**: no repeat within the window, no loss of order for one detector.
  Hard: the time stamp precedes the lock, the sink follows it.
* **IpcServer**: every subscriber gets an unbroken stream and is cut off only for a
  reason. Hard: stale events of a batch, descriptors used again, partial writes, a
  client that says too much at a time or only shuts down its sending side, the wake-up
  from other threads.
* **Agent**: a burst loses only its oldest alerts, the agent gets back to the
  daemon, the queue moves, and what it asks the daemon to exclude is what the user
  clicked, once and in order. Hard: callbacks in any order, two timers, a daemon that
  goes away between a click and the write.
* **ProcMonitor**: descendants of a guarded program are known as such, offences are
  reported, kills hit whom they should. Hard: everything is read later than it
  happened, events get lost, pids are used again.
* **KmsgWatch**: scans that are reported are scans; scans above a stated rate are
  reported. Hard: windows, pruning, lost records.
* **DnsSentinel**: answers go to who asked, sockets come back. Hard: batches,
  descriptors used again, silence.
* **SockWatch**: new means new; what has been there all along is found. Hard: three
  reads at three moments.
* **PersistWatch**: what the kernel reports is told of, once, in order and under the
  right place; the stop comes back. Hard: directories with two names, watches that
  follow a renamed directory, a queue that overflows and a buffer that is too short.
* **LineConn, backmasterctl**: lines come out as they went in, the exit status says no
  more than is known, the terminal does not hang. Hard: bytes cut anywhere, a limit
  that is looked at between reads, alerts among answers, a daemon that dies at any
  step.

`PROJECT.json` lists the hazards with their lines and the properties that cover
them.

## 2. Modules

| Module | Models | Notes |
|---|---|---|
| `Daemon` | the addresses and the three threads that touch lists and firewall | constants shared by the next two |
| `Blocklist` | `Blocklist` and its files | operators, one per critical section; no `Next` |
| `NftGuard` | `NftGuard` and the kernel sets | the same |
| `Enforcement` | `main`, `Daemon::handle`, the scan response, composing the two | one `pc` per thread |
| `UserStore` | abstract: each address has a stored verdict, an answer is a stored verdict | implemented by `Enforcement` (`UserStoreSpec`) |
| `AlertBus` | `AlertBus::emit` in three steps per detector | |
| `IpcServer` | the server, the connections and the peers, until the stop | |
| `LineConn` | `fill` and `next_line` on sequences of bytes | operators, used by `Ctl` |
| `Ctl` | `backmasterctl`, and the daemon as one client sees it | |
| `Agent` | the GTK main loop of the agent with its popup, its requests and the daemon | |
| `ProcMonitor` | the monitor and the processes of the machine | |
| `KmsgWatch` | the scan detector | its `autoblock` is in `Enforcement` |
| `DnsSentinel` | the resolver thread and the cache, the suffix walks of `domain_blocked` and `domain_allowed` and the edits of the lists as the thread sees them | |
| `SockWatch` | a scan, step by step, and the processes | |
| `PersistWatch` | the watches, the kernel's queue, the directories | |
| `EnforcementProofs`, `IpcServerProofs`, `CtlProofs`, `ProcMonitorProofs`, `PersistWatchProofs`, `DnsSentinelProofs` | theorems about the module of the name | section 4 |
| `AlertPathProofs` | theorems about `AlertBus` and about `Agent`, the two ends of an alert's way | the names that both modules would define begin with `Bus` in `AlertBus` (`BusSpec`), so that one module can extend both |
| `NetWatchProofs` | theorems about `SockWatch` and about `KmsgWatch`, the two watchers of the network | likewise with `Sock` (`SockSpec`) |
| `MC*` | small instances | constants and, for KmsgWatch, the symmetry |

A definition that is a mutated form of another says `Mutant` in its comment. It is
used by no specification; replacing the original by it must break the property
named in `PROJECT.json`.

### Enforcement: state and actions

`pc["main"]` runs `load fill serve install sync readIps addDeny readAllows addAllow
startKmsg idle` at start-up: the socket is served before the table exists
(`main.cpp:287-309`). SIGHUP sends it back to `load`, SIGTERM through the joins to
`exit`. `pc["ipc"]` runs a command: `edit` (memory, under the list lock), `save`
(two file writes, still under it), `nft` and `nft2` (one critical section of the
guard each), then the reply. A reload command runs the same reload steps as main.
`pc["kmsg"]` runs `check` (the unlocked `ip_allowed`, whose answer is arbitrary
while a writer works) and `autoblock`. `Crash` can happen at any step and keeps the
files and the kernel table; `Boot` starts again.

`wish[ip]` is history: what the last answered command about an address said, and
`"pending"` from the moment a command arrives. The properties compare it with the
kernel, the lists and the files. An automatic block is not an answer to anybody.

Abstractions: a domain entry is edited by the same statements as an address, so the
lists hold addresses only; IPv4 and IPv6 sets are one; the list cuts (200000 and
20000 rows) are never reached; whether `nft add element` without a timeout clears
the timeout of an element is left open (both outcomes are explored); a file is
replaced whole or not at all (`write_file` renames).

### The others

* `AlertBus`: a time stamp (`Stamp`), the critical section (`Ignore`, `Suppress` or
  `Record`), the sink (`Deliver`), each a step of a detector; the clock advances
  between them. It never steps back. The journal write may fail, and the sink may
  not be set yet. `history_` is cut to its limit in the code (`alertbus.cpp:67`);
  `recorded` is everything that was ever pushed on it.
* `IpcServer`: output is counted in lines; the kernel buffers `SockBuf` lines per peer,
  `PendingMax` and `OutboxMax` are the 8 MiB and 512 of the code. Input is counted in
  pieces, a `read` each, of which some end a line; a peer goes through the writes of its
  `Script`, of which the last may be the shutdown of its sending side. `Fill` takes pieces until
  the socket is empty or more than `InMax` (256 KiB in the code) wait, and then drops the
  last one (`ipc.cpp:61`). `Alive` is what `fill` returns; a client for which it is false,
  and which is owed nothing, is dropped by `IoEvent`, also when it is still there
  (`ipcserver.cpp:169`). A peer that shuts down only its receiving side is not modelled.
  `EpollWait` takes a batch; `ClientEvent`, `Accept`, `TakeWake` and `Drain` consume
  it while peers and broadcasting threads go on. `broadcast` is two steps. `Stop` and
  `Join` are the two halves of `stop`, which `main` calls when the threads that
  broadcast have ended; the batch in hand is finished between them.
* `LineConn`, `Ctl`: a byte knows which line it is of and whether it is the newline.
  `read_line` is four steps (a buffered line, `poll`, `fill`, the line that may still
  be buffered when `fill` failed), and `fill` a step per `read`, so that the daemon
  writes in between. The daemon accepts, works and answers in a step each, and may
  close or die between any two. What it makes of a request is `Decide`: somebody who
  may not change anything is refused all but `status` and `alerts`; somebody who may is
  refused an edit of something that is no address or domain, a listing that there is not,
  and an unblock of what is in no list, which by then has called on `nft`
  (`daemon/main.cpp:133-142`). `executed` counts the changes made, `firewall` says whether
  `nft` was called.
* `Agent`: one action per callback, each run to its end. What the daemon broadcast
  and what became of it is `fate`; what became of a request to exclude is `asks`, and
  the requests the daemon has read are `handled`. `FillMax` is the limit of one `fill`:
  a longer burst makes the agent drop the connection (`OnFlooded`).
* `ProcMonitor`: the kernel's `proc` and the monitor's `procs` are separate; events
  queue, overflow into `ENOBUFS`, and are handled against the `/proc` of that
  moment. `disturbed` records what has happened that the code cannot follow:
  a process that went on before its event was handled (`late`), a thread's event
  (`thread`), a lost event (`lost`), a full table (`full`). Properties state on which
  of these they depend. A process runs an image of a small set; the three
  classifications are subsets of it. `Trace` attaches one process to another;
  `OnPtrace` drops the event of a debugger and reports any other, with whether the
  tracee is of a guarded tree by then.
* `KmsgWatch`: time is the time of handling, as in the code; `handled` is the
  history the reports are compared with.
* `DnsSentinel`: a name is a sequence of labels, so that the lists match it as
  the code does (`Matched`, `DomainBlocked`); an address is a model value; time is
  counted in seconds, the least time between two sweeps, of which up to `MaxLag` may
  pass before the next one. Upstream answers, fails, or never does. `on_upstream_reply`
  looks neither at the sender of a datagram nor at its id or question
  (`dnssentinel.cpp:425-435`), so that whatever comes in on the socket of a query is an
  answer to it, here as there: what `AnswersAreOwn` and `CacheIsTrue` say is relative to
  that. Client sources are the numbers of the queries. Edits are those of `Blocklist`
  (block, exclude, unblock, reload), each a step.
* `SockWatch`: `ReadSockets`, `BuildMap`, then one step per socket judged. The walk
  over `/proc` is one step. Processes open, inherit, pass on, close sockets, exec and
  exit between any two.
* `PersistWatch`: a watch descriptor is the directory it is for. `AddWatch` is one
  target of `collect_targets`; a directory found at a second path gets the name and
  filter of that path (`TakeOver`). Changes, new, removed and renamed directories
  happen between any two steps. The kernel merges an event with an equal last one, or
  not, and drops what its full queue does not take. An alert lists the changes it is
  about, so that properties can say which were told of.

## 3. Runs

All runs take two workers and less than three minutes each.

| Run | Instance | Shows |
|---|---|---|
| `races` | 2 addresses: one ordinary, one that a feed names, a scan comes from and `--ttl` is used on; commands unbounded | `ExclusionEnforced`, `BlockEnforced`, `UnblockEffective`, refinement of `UserStore` |
| `rest` | 1 address, failing writes and `nft`, hand edits of allow.txt | `ComesToRest` |
| `dedup` | 2 detectors, 2 keys, 3 emits, 3 severities, window 2, clock 3 | `DedupWindow`, `DetectorOrder` |
| `stream` | 2 peers, 2 descriptors, 2 broadcasts, buffers of one line, input limit 1, one stop; both peers subscribe, one of them in a write of three pieces, and then shuts down its sending side | `StreamIsExact`, `OutboxKeepsNewest`, `CutForCause`, `AlertsArrive` |
| `burst` | queue of 2, 4 alerts of three kinds, reads of 2 alerts, one stop of the daemon | `BurstKeepsNewest`, `ExclusionsInOrder`, `Reconnects`, `QueueMoves` |
| `tree` | 3 pids, 4 images, queue and table of 2, 3 kernel events, grace 1, kills on | `TreeUntrusted`, `OffencesReported`, `KillsOffenders`, `RootsWereGuarded` |
| `relay` | a name and one below it, an address, 2 descriptors, 2 queries, 1 edit, sweeps up to 3 seconds late | `AnswersAreOwn`, `CacheIsTrue`, `BatchIsPending`, `SweptInTime`, `SubtreesFollow`, `QueriesEnd` |
| `scan` | 2 sources, 3 ports, threshold 2, window 1, table and ring small, 6 packets | `ReportsAreDue`, `TwiceIsCaught` |
| `sockets` | 2 processes, 2 sockets, 2 keys, 4 process events, scans unbounded | `NewIsNew`, `OwnerReported`, `ListenersReported` |
| `persist` | a startup directory and a home directory, 2 directories, kernel queue of 2, reads of 1, 3 changes | `AlertsAreTrue`, `ToldInTheEnd`, `StopEnds` |
| `control` | 6 commands, lines of 2 or 4 bytes, buffer limit 4, reads of 2, socket of 3, 4 alerts | `LinesAreExact`, `ExitTellsTruth`, `FailureHasCause`, `CommandEnds` |
| `excluded` | the smallest that shows it | a disagreement, see section 5 |

`races`, `stream` and `control` also check `TypeOK`,
where it says more than the types: the two locks, the count of subscribers against a
walk over the clients, the bound on a line buffer. The other modules state theirs too; it holds in the same
instances, and a run of any of them with `INVARIANT TypeOK` added to its cfg says so.
The inductive invariants of the proofs (`EnforcementInv`, `OrderInv`, `ServerInv`, `CtlInv`,
`SockInv`, `KmsgInv`, `PersistInv`, `DnsInv`) were checked in the same way, as an
`INVARIANT` added to the cfg of `races`, `dedup`, `stream`, `control`, `sockets`, `scan`,
`persist` and `relay`, the existential in `Laid` (`Ctl`) replaced by its witness. Of those that are in the proof modules, `AgentInv` was checked on
the instance of `burst` and the two of ProcMonitor on that of `tree`, from a scratch
module that repeats them; the existential of `CalmInv` was replaced there by its witness.
`races` and `rest` check for deadlock; the other models stop when their bounded events
are used up (`CHECK_DEADLOCK FALSE`).

A larger instance, to be run by hand, is that of `MCDnsSentinel_relay.cfg` with
`MaxEdits = 2`: two edits of the lists.

Why these bounds are enough. `Enforcement` has no bound on steps: only the set of
addresses is small, and the addresses do not interact except through the two locks,
so one ordinary and one contested address meet every interleaving. The single edit of `relay` makes a reload
there a no-op; the theorems hold for any number of edits. In the others a
bound (`MaxAlerts`, `MaxEmits`, `MaxPackets`, `MaxEvents`, `MaxQueries`, `MaxEdits`,
`MaxStops`, `Script`, `MaxClock`, `MaxDirs`,
`MaxChanges`, `MaxLag`) is the number of external events; the limits
of the code (512, 8 MiB, 256 KiB, 8, 8192, 20000, 50000, 200000) are constants set so low that
the instance passes them. Two actors suffice for a race, and two descriptors for
one that is handed out again while the other's event is pending. Lines of `control`
are at the limit of the buffer, below it and, read in pieces, across it. Two
directories and two paths give each layout that `persist` is about: apart, the same,
missing, made later, exchanged. `TwiceIsCaught`
needs three ports and both halves of a window, which six packets give. Three pids
give a guarded program below init, a child and, after an exit, a reused pid. That
every property can be broken in its instance is shown by its mutant.

Symmetry is used in the KmsgWatch instances only, over sources and ports, which no
definition compares; those have no liveness property.

### Fairness

* `Enforcement`: weak fairness of each thread's own steps. A thread that can go on
  does, locks included; `ComesToRest` asks it only once no new work arrives, so no
  fairness among competitors is needed. Commands, signals, scans, crashes, edits of
  files and timeouts are never forced.
* `IpcServer`: the loop, the second half of `broadcast`, and the reads of a peer:
  `AlertsArrive` is about subscribers that go on reading, which only they can see to.
  How slowly they read is open, so they can still fall behind and be cut off.
* `Agent`: the main loop dispatches a ready socket, the retry timer and the popup's
  timer. Nothing of the user or the daemon.
* `DnsSentinel`: the loop and the passing of time. Nothing of upstream.
* `PersistWatch`: the thread, and `main` where it goes through `start` and joins. That
  the join comes to an end is what `StopEnds` shows; nothing makes changes stop.
* `Ctl`: the client's own steps and the limit of its waits (`poll` with a timeout).
  Nothing of the daemon.

## 4. Theorems

`tlapm` checks all of them, from the lemmas up, with SMT, Zenon and LS4 (PTL steps). A
theorem is about every value of the constants that the named `ASSUME` of the module
allows; that is all it assumes where nothing else is said. An inductive invariant is in
named parts, at the end of the module it is about, and for `Agent` and `ProcMonitor`,
whose invariants need operators that only the proofs use, in the proof module. The
proof module has a lemma per action, or per group of actions, and part, and derives the
properties from the invariant.

Recursion is written with recursive functions. What such a function computes is proved
by an induction over numbers put into first-order terms (`Leasts`, `Inductive`): a set
that holds 0 and, with a number below n, the next one holds all numbers up to n.

### Enforcement

`TypeCorrect` and `LocksAreHeld` hold whatever fails. `ExclusionsEnforced`,
`BlocksEnforced` and `UnblocksEffective` assume that writes and `nft` invocations
succeed (`~IoMayFail`, `~NftMayFail`): the code logs such a failure and goes on, so
without it the properties are false. `StoreRefined`, that `Enforcement` implements
`UserStore`, assumes only that writes succeed.

None of the properties is inductive. That a reload puts an excluded address back
depends on the list it reads, which depends on the file, which depends on the edit
that was answered; and at each of these places another thread may be half-way.
`EnforcementInv` has three layers, each proved from those before it:

1. `ThreadsInv`, whatever fails: `LockInv` (each lock is held by exactly the threads
   whose next step is in its critical section), `PhaseInv` (which threads run in which
   phase of `main`, and with an installed table) and `CommandInv` (a command under way
   has taken back what was last said of its address).
2. `FilesInv`, when writes succeed: `ListInv`, `EditInv` and `MirrorInv` (loaded lists
   hold what the files hold, but for the address whose edit is being saved), and
   `StoredInv` (the files keep what was answered, or is saved and about to be
   answered). The refinement follows from here: the step that replaces a user's file is
   the abstract step that stores a verdict, the reply is the abstract answer,
   everything else is a stutter.
3. `KernelInv`, when `nft` succeeds too: for each of the three properties what holds
   while a sync is on its way. A copy of the lists that was taken before an unblock,
   and is about to be added to the kernel, is what `UnblocksOut` excludes: the removal
   waits for the nft lock, which the sync holds from its copy to its last addition.

### AlertBus

* `BusTypeCorrect`.
* `RepeatsAreApart`: `[]DedupWindow` when the keys are finitely many and fit the table.
  The invariant is `SeenIsLatest`: `last_seen_` of a key is at least the stamp of every
  recorded alert of it. That stamps come out of order does no harm: a difference below
  the window, also a negative one, suppresses. Beyond the limit of the table it is
  false (`MCAlertBus_prune`).
* `DetectorsInOrder`: `DetectorOrder` says that what was sent has places among what was
  recorded; each step has to give the new placement. `OrderInv` adds that a detector on
  its way to the sink carries the last alert it recorded, which is the one the delivery
  is placed at.

### IpcServer

* `NewestAreKept`: `OutboxInv` says that the outbox is a run of consecutive alerts that
  ends with the last one, behind everything drained.
* `TypeCorrect` includes that `subscribers_` is the number of subscribed clients. Each
  action that adds, subscribes or drops a client changes the counted set by one element
  or none; that it is never two rests on `PlacesInv`: a peer is in the backlog, at one
  descriptor or nowhere.
* `StreamsAreExact`: `StreamInv` says for every client, subscribed or not, what it has
  read and will read. What a flush takes off the pending lines it adds to the socket
  (`FlushIs`; this needs that a socket never holds more than the kernel takes), and
  `WriteAllIs` carries a drain of several alerts over all clients, those it cuts off
  included.
* `ClosesForCause`: `HangUpInv` is about the events of the batch in hand: a hang-up is
  of a peer that has left, and that still has its descriptor or was dropped by an
  earlier write of this batch. The exception in `CutForCause` is the second case. The
  other causes are read off the state in which a client is dropped: by what `Fill` left
  behind, `IoEvent` drops a peer that is there only when it had sent more than is taken
  at a time, or had shut down its sending side with nothing unread and nothing owed.

### Ctl

* `TypeCorrect`, with the bound on the line buffer.
* `LinesComeWhole`: `StreamInv` lays out the bytes on their way (buffer, socket, still
  to be written) as the lines not taken yet, by the place at which each begins.
  Taking a line removes the first, a read moves the border between buffer and socket, a
  cut leaves a prefix.
* `ExitsTellTruth`: `ConversationInv` is the protocol: a greeting, a request, one
  answer, then alerts and those only for a subscriber. With `StreamInv` the second line
  taken is the answer, of which the end of the client is a function. `verdict` is tied to
  `executed` and `firewall`: a refusal comes without a change, whoever asked.
* `FailuresHaveCauses`: `ReaderInv` relates the ends the reader sees to what happened;
  only a single line above the limit fills the buffer of a client that does not watch.

### Agent

`AgentInv` is inductive, with four parts besides the types: `LinkInv` (what the
connection, the retry timer and the buffers say of each other), `InboxInv` (what waits in
the socket is in order and newer than everything accepted), `ScreenInv` (the queue and the
popup are what the fates say, and the queue is empty while no popup is shown) and `AskInv`
(a request is at one place on its way).

* `QueueKeepsNewest`: `BurstKeepsNewest` is not kept by itself, because one callback takes
  any number of alerts. `Keeps` states what a screen holds after some alerts, relative to
  the screen before them: what was queued or shown stays so, or is pushed out behind a
  full queue of newer ones. It is proved for a whole read by induction on its length
  (`EnqueueAllKeeps`); `BurstTold` turns it into the fates.
* `ExcludedOnceInOrder`: the requests handled and those still in the socket are in order
  together, and no popup that can still ask is older than one that was asked from. A
  repeated click is excluded by the popup becoming sticky, a repeated send by the request
  having a place, whatever connections are lost in between.

### ProcMonitor

* `TypeCorrect` and `NoLineageInvented` hold whatever is lost, late or about threads. For
  the second, a root that a record names and a process that runs a guarded program are
  both among the pids that ever ran one; the climb of the second pass returns a root of
  some record (`NearestIs` and the lemmas before it, by induction on the steps).
* `WholeTreeUntrusted`, `EveryOffenceReported` and `OnlyOffendersKilled` compare records
  that lag with the processes that run. `SocketInv` says what the events still to be
  handled can be: an exec in the queue is of a living process whose record nothing else in
  the queue changes, and a verdict that waits is about a living process whose record is up
  to date. `CalmInv` says that a *view* of the
  processes exists for every place in the queue: the first is what the records say, each
  event leads from a view to the next (`Chain`), and the last is the truth. An event that
  a process causes puts a view at the end, one that is handled takes the first away; while
  the monitor seeds, the first view is what the two passes are going to find (`Seeds`).
  With no event left there is one view, so the records are the truth. `Owing` says of each
  offence that it is reported, about to be, or due from an event at its place in the queue.
* These three have a hypothesis, `Shallow(proc)`, about the initial state: no process that
  the daemon finds at start is more than 32 generations below a guarded one. The climb of
  `seed_from_proc` ends there (`procmon.cpp:178`), so a deeper descendant is not found and
  the properties are false without it. Processes started later are not limited. In an
  instance with fewer than 33 pids, such as that of `tree`, the hypothesis always holds.
  All three are about the time while nothing of `Kinds` has happened, as their properties
  say.

### SockWatch, KmsgWatch

* `NewListenersAreNew`, `ShellsAreFound`, `ListenersAreFound`: a scan reads at three
  moments, so `SockInv` says what of an earlier read is still true later: a socket that
  was read keeps its type and key, a process the map names does not start again
  (`HoldersInv`); what a scan is done with is reported or excused (`ShellsInv`,
  `ListenersInv`); `known_listeners_` is one scan behind until all are judged
  (`ScanInv`).
* `OnlyScansReported`: `WindowInv`, the counters of a source are what its window holds.
* `ScansAreCaught`: the table holds only the last window of a source, and pruning
  forgets also that. `WindowsInv` therefore says that the windows a source has had
  *exist*: more than `Window` apart, each probe in one of them, each with `Threshold`
  ports reported, the one in the table the last, and none of them recent for a source
  that was forgotten. At most two windows meet an interval of length `Window`, and of
  `2 * Threshold - 1` ports one of the two has `Threshold`.

### PersistWatch, DnsSentinel

* `AlertsTellTruth`: what alerts say holds of what is queued and read before it
  (`TellsInv`), and the changes are in order from the alerts over the batch to the
  queue, merged events included (`OrderInv`). `WatchInv` says that the path of a
  watch is that of the last target found at its directory.
* `ReportedAreOpen`: by `BatchInv` a socket whose event waits is open and has something
  to read. An event closes no socket but its own and the sweep comes when the batch is
  empty, so the kernel cannot hand out a descriptor whose event still waits.
* `SweepsMissNothing`: an age is a natural number without a limit, and `SweptInTime` is
  inductive: time passes for an entry and for the sweep alike, a sweep leaves nothing
  above the limit, and what is new has age 0. How late a sweep may be is `MaxLag`, for
  which the theorem takes any number. `TypeCorrect` says nothing of ages but that they
  are numbers.
* `AnswersStayOwn`: `QueryInv` (a query is waiting, has one socket, or is answered) and
  `ReplyInv` (a reply that waits on a socket is to the query that has it now).
* `CacheStaysTrue`: `Note` keeps the limit, by a count of the entries before and after
  the removal of the old ones, and makes no entry but its own.
* `WalkFindsAll`: the action property `SubtreesFollow`. The walk of `Matched` meets
  exactly the suffixes of a name, by the induction above; names are sequences of any
  length.

### Only model-checked

* Liveness: `ComesToRest`, `AlertsArrive`, `Reconnects`, `QueueMoves`, `QueriesEnd`,
  `ToldInTheEnd`, `StopEnds`, `CommandEnds`. Fairness is stated with ENABLED, which the
  prover does not handle.
* Every other property of a passing run is stated by a theorem.

## 5. Disagreements with docs and comments

The run `excluded` expects a violation of what the repository says; `PROJECT.json`
describes it as a finding: an excluded name is refused when one of its addresses is
denied (`dnssentinel.cpp:441` against `data/blocklists/allow.txt:3`).

More configurations give counterexamples. They are not in `PROJECT.json`; run them by
hand, for example `tlc -config MCEnforcement_ttl.cfg MCEnforcement`. A configuration
that is in two rows has two properties and is run with `-continue`. The first two and
`late` contradict a comment as plainly as `excluded` does; the statements behind the
others are less explicit.

| Configuration | Property | What is said | What happens |
|---|---|---|---|
| `MCEnforcement_leak` | `UserFileHoldsUserEdits` | `blocklist.hpp:31` "User edits; persisted to <dir>/user-block.txt and <dir>/user-allow.txt." | user-allow.txt receives every allowed entry, also those of allow.txt, and outlives them (`blocklist.cpp:151`) |
| `MCProcMonitor_threads` | `TreeUntrustedWithThreads` | `backmaster.conf:83` "then treats its whole process tree as untrusted" | the end of a thread erases the record of its process (`procmon.cpp:262-270`) |
| `MCPersistWatch_late` | `PlacesAreCovered` | `persistwatch.cpp:199` "covered by the specific subdirectory watches" | a directory made, or moved to its path, after the start is not watched |
| `MCCtl_short` | `OnlyChangesRefused` | `ctl/main.cpp:224` lists `list` and `ruleset` under "Reading" | the daemon refuses both to who may not change anything (`daemon/main.cpp:113`) |
| `MCCtl_listing` | `ListingIsRead` | `ctl/main.cpp:240` "row limit for alerts and list" | a listing above 256 KiB is never read: `fill` gives up and the client says the connection is lost |
| `MCCtl_short` | `OnlyLongLinesCut` | `common/ipc.cpp:61` "A peer that never sends a newline" | the limit is on what `fill` has not handed out yet, so a burst of short lines that comes while it reads ends the connection too |
| `MCAgent_confirmed` | `ConfirmedIsRequested` | `popup.cpp:374` "Requested exclusion for ..." | so says the popup also when the request was dropped, for want of a connection |
| `MCEnforcement_feeds` | `NeverBothLive` | `nftguard.cpp:250` "otherwise the allow rule and the deny rule would both be live" | a sync adds a feed address again, a block leaves the allow entry |
| `MCEnforcement_feeds` | `DenyFollowsLists` | `tools/update-blocklists.sh:91` "Run 'backmasterctl reload' to apply." | sync only adds |
| `MCEnforcement_ttl` | `TimedBlockEnds` | `block --ttl SECONDS` (`ctl/main.cpp:232`) | the block is stored for good (`main.cpp:126`) and comes back with the next reload |
| `MCAlertBus_prune` | `DedupWindow` | `backmaster.conf:111` | above the limit, a key still inside the window of an alert stamped earlier is forgotten (`alertbus.cpp:59`) |
| `MCAgent_sticky` | `DismissesItself` | `popup.hpp:17`, `popup.cpp:376` "before it disappears" | the exclude button turns the timeout off |
| `MCKmsgWatch_limits` | `ThresholdIsCaught` | `config.hpp:29` | a scan over the end of a window is missed |
| `MCKmsgWatch_limits` | `TableBounded` | `kmsgwatch.cpp:184` "Keep the per-source table bounded" | fresh sources are not pruned |
| `MCSockWatch_hidden` | `ShellsReported` | `sockwatch.hpp:15` "two things a backdoor cannot hide" | the map names another holder of the socket |
| `MCSockWatch_hidden` | `ListenersCannotHide` | the same | a known port that changed hands is not new |

## 6. Not modelled, and what comes next

Not modelled:

* Config, Json, util, log, alert formatting, the wording of replies and alerts, the
  options of `backmasterctl`: sequential conversions that no property here is about.
* The drawing of the popup; the updater script and the units.
* The parsing of list files, firewall log records, DNS packets and `/proc`. What is
  read there is a choice of the model; malformed input, which the code skips, is not.
* The stop of ProcMonitor, KmsgWatch, SockWatch and DnsSentinel, which is that of
  PersistWatch line for line: a flag, an eventfd, a join.
* In SockWatch: reads of `/proc/net` that fail, a pid used again. In KmsgWatch: the
  reports of single packets. In Blocklist: the record of sources, and the domain
  containers, which the same statements edit. In NftGuard: the cut of `list_allows`.
* A clock that steps back.
* One model of Agent, IpcServer and Enforcement together. `ExclusionsInOrder` follows a
  click to the daemon's handler, `Ctl` an answer back to a client, and
  `ExclusionEnforced` what happens in between; their product is too large for TLC, and
  they share no state but the request.

The order so far was by importance: lists and firewall first, because everything else
only reports, then the path of an alert from bus to popup, then the detectors, then
the client and the persistence watch. The plan from here:

1. The cut of `list_allows`, with domains and addresses in one list.
2. SockWatch with failing reads and pids used again.
