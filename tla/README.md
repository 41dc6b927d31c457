# A TLA+ model of atty and atty-guard

atty is a PTY proxy (Zig, `src/src/`) that sits between the terminal and the
shell; atty-guard is its optional root daemon (Rust, `src/atty-guard/`), which
classifies commands, keeps trust decisions, and enforces threat marks in the
kernel through eBPF. This project models the parts whose correctness depends on
interleavings, crashes and limits, starting with the daemon: every connection is
a thread, all threads share the same maps, files and counters, and the kernel
hooks run beside them.

## 1. Inventory

| component | state | operations | what makes it hard |
|---|---|---|---|
| threat map (`threat_map.rs`, handlers in `server.rs`, `ebpf.rs`) | pid -> (level, starttime); BPF maps `threat_map`, `warn_pids`, `watch_pids` | set, clear, get, watch, classify's upgrade; fork and exit hooks | pids are recycled between any two reads of /proc; the mutex is held for one statement at a time; BPF writes come after it |
| trust store (`trust_store.rs`, `fsutil.rs`) | three files per uid, their copy in memory, the session layer, a lock per uid | add, remove, session add / clear / write, lazy load | read-modify-write by several threads, atomic replace and fsync, kill and power loss, caps, partial failure |
| connections (`server.rs`, `warn_consumer.rs`) | `in_flight`, `SubscriberCounts`, the broadcast list, one bounded inbox per subscriber | accept, reject, serve, subscribe, stream, deregister, broadcast | counters changed by many threads on many exits; a channel emptied while it is filled; peers that vanish silently |
| profile and deny rules (`server.rs`, `profile.rs`, `ebpf.rs`, `main.rs`) | active profile, deny maps, basename gate, armed counts | SetProfile | two switches at once; every BPF call may fail in the middle of a switch |
| execve hook, ring buffer, classify worker (`atty_guard.bpf.c`, `ebpf.rs`) | the maps above, ring buffer, bounded queue | `check_execve`, `ringbuf_callback`, `dispatch_classify` | a kill that races with pid reuse; marks that race with forks; full queues |
| classifier (`classifier.rs`, `atom_matcher.rs`, `osv.rs`, `npm_parser.rs`, `onnx_backend.rs`, `handle_classify`) | patterns, OSV cache | classify | verdicts of several tiers combined, overlapping hits, a bounded cache with expiry, a service that is slow or fails |
| atom fetcher, drift (`atom_fetcher/`, `atom_drift.rs`) | pins, system atoms file, its copy in memory, drift snapshot | fetch, verify, extract, publish, reload, one-shot | kills and power loss between steps, two writers, pins that break under way |
| start-up, configuration, shutdown (`main.rs`, `config.rs`, `shutdown.rs`) | lock, socket, policy, signal flag | start, lock, remove stale socket, attach, bind | two starts at once, a kill at every step, aliases of one path |
| metrics (`metrics.rs`) | registry of proxy instances | report, list, expire | pid ownership, cap |
| proxy loop and dispatch (`proxy.zig`, `dispatch.zig`, `module.zig`) | PTY, poll set, modules | hooks in module order | who consumes a key, who vetoes a commit |
| line state, OSC 133, subprocess tracker | typed line, prompt marks, stack of shells | input and output bytes | reconstruction from two asynchronous byte streams |
| security_guard (proxy side) | socket client, trust cache, subscriber thread | classify on Enter, confirm, trust | the daemon may be absent, slow or restarted |
| guardrail, LLM, suggestions, terminal state | confirm state; request generations and workers; query and result slots; screen state | hooks, worker threads | late answers, cancellation, timeouts |
| attop, ttysnap, debug capture | - | - | tools beside the system |

The proxy talks to the daemon over a Unix socket, one JSON line per request;
`SubscribeWarnEvents` turns a connection into a stream. Within the daemon the
connection threads share state through mutexes and atomics; the ring buffer's
consumer thread feeds the broadcast and the classify worker; the kernel hooks
read and write the BPF maps without any of the daemon's locks.

What each modelled component must guarantee is stated with its module below;
`PROJECT.json` lists the hazards line by line.

## 2. Modules

| module | models | instance |
|---|---|---|
| `ThreatMap` (proofs: `ThreatMapProofs`) | threat map, its four kinds of request, fork and exit hooks, the process table | `MCThreatMap` |
| `TrustStore` (proofs: `TrustStoreProofs`) | all trust-store operations of one uid, with kills and power losses | `MCTrustStore` |
| `GuardServer` (proofs: `GuardServerProofs`) | accept loop, handler threads, subscriptions, broadcast | `MCGuardServer` |
| `ProfileSwitch` (proofs: `ProfileSwitchProofs`) | SetProfile and the kernel's deny rules | `MCProfileSwitch` |
| `ExecGate` (proofs: `ExecGateProofs`) | execve hook, fork and exit tracepoints, ring, queue, classify worker, routing by profile | `MCExecGate` |
| `Classify` (proofs: `ClassifyProofs`) | detectors, accumulator, overlay, OSV lookups and cache, threat mark | `MCClassify` |
| `AtomFetch` (proofs: `AtomFetchProofs`) | refresh thread, one-shot, pins, tarball walk, publication, loads, drift | `MCAtomFetch` |
| `Startup`, refining `SingleDaemon` (proofs: `StartupProofs`) | the life of a daemon process from command line to accept loop | `MCStartup` |

In all of them a thread is a `pc` with the locals of the request it serves, and a
step is the largest stretch of code that no other thread can observe half done: a
critical section, one atomic operation, one system call, one BPF call. Definitions
named `X_Something` above a definition `X` are plausible bugs of it; the
properties are checked to notice them. Variables marked `history` only record
what happened.

### ThreatMap

`proc`, `born`, `owner` are the kernel's process table: `born[p]` counts the
occupants of pid `p` and stands for the starttime that `pid_starttime` reads;
a zombie still has its `/proc` entry. `inner` is the in-memory map, the entry's
`by` is history. `threat_map`, `warn_pids` and `watch_pids` are the BPF maps.
Every read of `/proc` may also fail, which sends the request to its error
response. `Receive` chooses the path of the request as the handlers do:
`ReadStart1`, `CheckOwner`, `ReadStart2` are the gate of a non-root mark or watch;
`Commit` the insert under the mutex, `BpfSet` the write-through after it; `Evict`,
`ClearThreat`, `ClearWarn` a clear; `Lookup`, `Verify`, `EvictIfStale` are
`ThreatMap::get`. A deletion in `ClearThreat` or `ClearWarn` may fail, which
`clear_both` ignores (`DeletesFail`). `Kernel(p)` is the level the hook finds for a
pid. Processes are single-threaded (a pid is a thread group), and `warn` events are
not part of this module.

- `MarksAuthorised`: a non-root mark names a process its caller owned.
- `NoInheritedLevel`: a verified answer is never an earlier occupant's level.
- `LiveMarkKept`: only a request to clear removes a live process's mark.
- `KernelAgreesWhenQuiet`: between requests the hook finds, for every live process
  that is marked, the level of its entry, and for no pid anything but that level or
  none. In block mode it holds for one request at a time, through downgrades, exits
  and reuse, and fails for two (finding 1). In warn mode it fails for one: section 4.

### TrustStore

`disk` is what a reader sees, `durable` what a power loss leaves: `Rename`
changes the first, `Sync` (the fsync of the directory) the second, and the kernel
may write back at any time (`WriteBack`). `rooted` says whether a power loss leaves
users/<uid>/ itself: the code makes that directory and never syncs its parent
(`DirectoryLost`, `WriteBackParent`). `buf`, `snap`, `done` are the locals of the
operations. `promised`, `lent`, `owed`, `crossed`, `lagging` are history. `Faults` chooses what may go wrong besides the kill, which is
always possible: `io` errors, ignored failures of the directory sync, power
losses. The content of a file is a set of items; validation and the text format
are left out. Requests do not insert session atoms or session allows, so the
session holds url blocks and trust hashes. `acquire_write_lock` is taken as the
mutex per uid it promises to be.

- `AckedPersists`: an acknowledged addition is on disk until somebody asks for the
  contrary, through concurrency, kills and power losses. Two cases are exempt from
  power losses only, because the code does not keep the promise in them: the
  directory of the uid is lost with everything in it (hazard at
  `trust_store.rs:1212`), and an addition that found its item present (`AlreadyThere`)
  was acknowledged before the rename that brought the item was synced (`lent`; hazard
  at `trust_store.rs:449`).
- `SessionNotLost`: a session decision is in the session or on disk.
- `OneDecisionPerHost`, `TrustCapKept`: what the files never say.
- `MemoryFollowsDisk`: between requests a loaded memory layer equals the files, with
  lazy loads running beside mutations, unless the last to load was a lazy load that
  a rename had overtaken (`crossed`) or a mutation has failed since (`lagging`).

### GuardServer

`in_flight` is the counter of `serve`; `rejecting` is the connection the accept
loop has counted and not yet uncounted. `total`, `per_uid` are
`SubscriberCounts`. `subs`, `inbox`, `dropped` are the broadcast list and each
subscriber's channel and `dropped_since_notice`. `casting` is the list's mutex
held by `broadcast`, whose visit of a subscriber is two steps, `SendNotice` and
`SendEvent`; the handler's `Deliver` may come between them. A handler may end at
any time (`Leave`): idle timeout, oversized line or I/O error. `broadcast` also
drops entries whose receiver is gone; that does not happen here because every
handler deregisters before its receiver is dropped, unless it panics.

- `SlotsExact`, `CapsKept`: counters equal slots held, and the caps hold.
- `ListedWhileStreaming`: acknowledged streams are listed, listed entries have a
  handler.
- `NothingLostSilently`: events = told + queued + counted as dropped. What a queue
  is worth is stated by the tallies of its prefixes, each the one before plus what
  the next message stands for, so that the sum needs no recursion.
- `DeadPeersReleased`: a connection whose peer is gone ends (liveness).

### ProfileSwitch

`deny`, `gate` are the kernel's maps, `armed` the two reported counts. A switch
goes through `List` rule by rule; each BPF call may fail when `CallsFail`, a rule
in `Unencodable` never fits a key, a map takes `MapCap` keys. `Init` is any
state start-up may leave: `main` arms the rules of a strict profile, skips the
ones that fail, and reports the configured numbers until the first switch. The
configured lists may name a rule more than once (`Repeats`), which arms one key and
counts as two. A daemon without eBPF does none of this and is not modelled.

- `DenyMapFollowsProfile`: without failed calls the kernel has exactly the rules
  of the final profile, and the counts say so: under strict the configured entries
  in force, otherwise the entries that name a key again, whose deletion fails.
- `CountsHonest`: with failures, the counts err on the honest side: outside strict
  no entry is in force that they hide, in strict they claim no entry that is not in
  force (`InForce`).

### ExecGate

The kernel's side is a table of tasks: a task is a process (a leader), a thread of
one, or a zombie (a leader that has exited before its threads and whose id stays
taken); ids are used again, `ppid` is the process of the real parent, and orphans
go to `InitPid`. `TraceFork` runs inside `Fork` and `Clone` alike, as
`sched_process_fork` does, and looks the marks up by the process of the task that
forks; `TraceExit` runs inside `Exit`, inside the worker's kill and inside
`NewImage`. Any task may exec: with the new image the other tasks of its process
exit, and it takes the leader's id, so that its own id becomes free without an exit. `check_execve`
is `ExecRefused` or `ExecAllowed` according to `CriticalMatch` (the three depths)
and to the deny rules of strict, and puts its events into `ring`, which drops what
does not fit. Between the hook and the new image a process shows its old command
line (`next`, `NewImage`). `Consume` is `ringbuf_callback`; `Take`, `ReadCmdline`,
`Act` are the worker, which reads the live profile when it takes an event, the
command line a step later, and kills whoever has the id another step later.
`setting` is what start-up fixed; `born`, `tainted`, `scoped`, `lineage`, `stray`,
`overflow` are history. A request of the daemon is one step here, since `ThreatMap` and
`ProfileSwitch` have its interleavings.

- `SubtreeCovered`: descendants of a watched process are watched, and with
  propagate descendants of a Critical process are refused, whoever forked them and
  whoever died in between, unless a map was full. It holds of each process until its
  own first thread exits, be it before the other threads or because one of them
  execs: `trace_exit` drops the marks then, and what runs on is not covered
  (section 4).
- `NoStrangerWatched`: no task is watched that does not belong to that subtree,
  but on an id that became free with no exit of a task that had it (`stray`): that of
  a thread that exec'd, or of a leader that was watched after its exit (section 4).
- `BadExecDies`: under session and strict an unsafe process whose event reached
  the queue is killed, or execs again, its first thread ends, or the profile
  changes (liveness).
- `NoStrangerRefused`: the counterpart of `NoStrangerWatched` for Critical marks;
  violated (finding 2).

### Classify

A command is a record of what the regular expressions, the atom automaton and the
tokenizer find in it: spans, the tokens after `npm install`, the shapes of the
heuristic backend, the model's probability. `ClassifyAll`, `Tier2` and
`CombineHits` compute the verdict as the code does, in integer arithmetic on
percentages; `Classified` evaluates them for every command and configuration of
the instance, and `Receive` starts a request from one of these results. Then
`ScanOverlay`, the walk over the packages (`CacheHit`, or `Query` and `Answer` or
`QueryFails`), `CheckOwner`, `ReadMark`, `Reply`, each a step during which the
overlay, the service, the process and the clock may move. History is `read` in a
cache entry, `consulted` (the signals of a request, each with its source), `allowed`
(what a correct classifier might say) and `owed` (the packages still to be asked
about: it starts as the first `MaxProbed` that the command names, before the request
has decided whether to look anything up, and a package leaves it when it is asked
about).

- `StrictestWins`: the answer is one of the signals the request consulted and the
  worst of them; and each of the first `MaxProbed` packages was asked about, unless
  one of them blocked or the classifier or the overlay had not called the command
  safe. Packages past that number, and those for which the service failed, are not
  covered (section 4).
- `VerdictEarned`: the classifier blocks only if a threshold is set and the command
  shows two behaviours, counted by a definition that does not sort (the least sets
  of overlapping spans), the opinion of a second tier that was consulted being one,
  or if that opinion is itself a block (section 4); what a detector of the first tier
  found is never called safe.
- `WorkBounded`, `AnswersFresh`: the cap of the cache and of the fan-out; a cached
  answer that still counts was read less than TTL + timeout ago.
- `EveryRequestAnswered`: liveness, with a service that may never answer.

### AtomFetch

Two fetchers, the refresh thread and `--update-atoms-now`, each with its pins, its
list of sources to go, what they gave, and a temporary file named after its pid.
Two readers load the file: the server (start-up and `ensure_system_fetched_loaded`)
and the refresh thread. `file` is what a reader sees and `stable` the versions a
power loss may leave; a version that was not synced comes back `Torn`. A tarball
is a sequence of entries with a path or none, size, readability and lines;
`WalkEntry` and `AtomFromCode` decide as the code does. A drift tick may fail to
read its snapshot or to write it. `behind`, `misread`, `pinned`, `lapsed`,
`installed` are history.

- `PublishedWhole`: what is published and what is matched against is exactly the
  extraction, by a definition without the walk, of acceptable tarballs.
- `PinsHold`: a source that was never live gives only pinned revisions.
- `AnchorKept`: the start of a drift is not forgotten while it lasts, but by a tick
  that cannot read the snapshot (section 4).
- `RefreshStops`, `LoadRecovers`: liveness.

### Startup and SingleDaemon

`Startup` is `main` up to the accept loop: the policy from command line and file,
the lock beside the socket, the check and removal of a stale socket, the attach
and the bind, each a step of one of several processes. `policy` has what the daemon
and its eBPF programs run with; `refused` records that the kernel refused
`enforce_cfg`. A process may be killed or
fail a system call anywhere (`Fault`), which drops its flock and leaves its socket
file. `socket` says what the path names: nothing, a socket of a process, a stale
one, or a foreign file. `SingleDaemon` is what clients may rely on: at most one
daemon serves, and they reach it as long as it runs. The refinement mapping takes
`serving` to the processes in their accept loop and `reached` to the owner of the
socket the path names.

- `ImplementsOneDaemon`: `Startup` implements `SingleDaemon` for processes that
  name the socket directly or through a linked directory. For a path whose last
  component is a link it does not (section 4): the theorem assumes that there is
  none (`NoLinks`), and the instance has none.
- `ServesAsAsked`: a daemon that serves has the backend and the interval it was asked
  for; its programs walk to the depth and the hops asked for, unless the kernel
  refused to be told, and only then stay at `one_level`; `ancestry` never walks no
  hops.
- `AvailableAgain`: after the last fault the socket is served again.

## 3. Runs

| run | instance | result |
|---|---|---|
| `threatmap_races` | 2 threads, 1 pid with 2 occupants, root and one user, block mode, deletions that may fail | holds, about 2.4M states |
| `threatmap_serial` | 1 thread, 3 occupants, block mode, deletions succeed | holds, about 108k states |
| `threatmap_diverge` | as `threatmap_races`, deletions succeed | `KernelAgreesWhenQuiet` violated |
| `truststore_conc` | 2 threads, 1 atom, 2 hosts, power losses | holds, about 1.4M states |
| `truststore_cap` | 2 threads, 2 hashes and room for 1, I/O and sync failures, lazy loads | holds, about 172k states |
| `guardserver` | 2 connections, 2 uids, 1 request slot, inbox of 1, 3 events each | holds, about 75k states |
| `profileswitch` | 2 threads, path rules with one unencodable and one given twice, 2 basenames, any call fails | holds, about 52k states |
| `classify` | 2 threads, 2 requests, 4 packages (one with too long a name), cache of 1, all layouts of up to 5 spans on 5 positions, 5 configurations, at most 3 of them looked up | holds, about 386k states |
| `atomfetch` | 2 sources with 2 revisions, 2 ticks, 1 event of the environment, 2 pids | holds, about 406k states |
| `startup` | a supervised daemon and one by hand with 9 command lines, 2 faults | holds, about 16k states |
| `execgate` | 3 ids, 2 commands, 3 profiles, 3 settings, maps of 2, buffers of 1, 5 steps | holds, about 286k states |
| `execgate_leak` | as `execgate` | `NoStrangerRefused` violated |

Why the bounds suffice. Threat marks of different pids share nothing but map
capacity, so one pid recycled once, with two requests in flight, contains every
two-party race. The theorems of section 5 lift the safety properties of every
module to any number of pids, threads, connections, items and faults.
Two threads are enough for the trust store's races since the lock admits one
writer, and a lazy load is the only party outside it; two hosts let two decisions
meet in one file, one atom makes a second file. Files of different uids are
disjoint. Two connections against one request slot exercise the cap with every
exit; an inbox of one makes every event a border case. In `ExecGate` three ids are
a marked process, its thread or child, and a grandchild or a stranger on a reused
id; five bounded steps (new tasks, execs, requests) reach mark, fork by a thread,
death of the parent or of the leader alone, and exec by a thread. In `Classify` two requests compete for a cache of one
entry, time reaches past the TTL, and every layout that the merging of spans tells
apart occurs. In `AtomFetch` one event is enough for each fault by itself against
two concurrent fetchers and two ticks; combinations of two faults are not covered.
In `Startup` two faults let a daemon die, its successor die in the middle of its
start, and a third one take over; `MaxSecs` is small so that an interval overflows.

The bounds on behaviours are `MaxBorn`, `MaxEvents`, `MaxSteps`, `MaxTime`,
`MaxRequests`, `MaxTicks`, `MaxManual`, `MaxFaults`; the other constants are sizes
of the instance. Deadlock is checked in the runs of the first four modules; in the
others the bounded environment stops (all requests served, all steps used), which
is where their runs end. Symmetry is used for interchangeable threads, hosts and
hashes in safety runs only.

Fairness, always on steps the code takes by itself:

- `GuardServer`. A connection in the backlog is eventually accepted: strong
  fairness on `Accept`, since the kernel's backlog is FIFO. A handler whose peer is
  gone goes on (weak fairness): `read_line` returns 0, writes fail, and
  `recv_timeout` returns every `SUBSCRIBER_POLL`. `Register` and `Deregister` wait
  for a mutex the broadcast takes and releases again and again: strong fairness. A
  broadcast that started goes on: `try_send` never blocks. Nothing is assumed of
  clients, and nothing of a write to a peer that is connected and does not read,
  which may block for ever.
- `ExecGate`. The consumer polls the ring and the worker blocks in `recv`: weak
  fairness on each. Nothing is assumed of processes.
- `Classify`. A handler thread runs: weak fairness on its steps. A query ends in an
  answer or in the agent's timeout; which, is open.
- `AtomFetch`. The refresh thread and the server run: downloads have a timeout, and
  a classify request comes eventually (without one nothing is ever loaded again).
- `Startup`. A process that was started runs, and systemd starts the unit again
  (`Restart=on-failure`); nothing is assumed of daemons started by hand.

## 4. Disagreements between comments and code

Two are findings with a run of their own; `PROJECT.json` quotes the comments.

1. `threatmap_diverge`: the kernel map is written after the in-memory map's mutex
   is released; a mark and a clear of one pid may reach the two in opposite orders.
2. `execgate_leak`: in propagate mode `trace_fork` copies a Critical mark to the id
   of a new thread, and `trace_exit` deletes entries of leaders only. The entry
   stays and hits the next process with that number.

The others were met while modelling; no run is kept for them. Where a passing property
meets one, the property names the exempt case and holds in all others.

- In warn mode the kernel does not follow the threat map. `set_threat` writes
  Critical to `warn_pids` and a later High to `threat_map` (`ebpf.rs:568`), and
  leaves the pid in `warn_pids`; the comment at 556 sees this leak ("leaving either
  stale would leak the prior verdict") only for Low. `trace_exit` cleans `threat_map`
  and not `warn_pids`, so the next process with the pid is taken for Critical.
- `clear_both` (`ebpf.rs:645`) ignores deletions that fail: the request answers ok
  and the kernel's entry stays.
- `ensure_loaded` (`trust_store.rs:301`) takes no write lock: an old read may
  replace a newer memory layer until the next load, although the comment at
  298 says the layer is kept fresh. `MemoryFollowsDisk` says exactly when it is not.
  `reload_system_fetched` has the same shape: the server's load may put an older
  corpus over the refresh thread's.
- `write_atomic` syncs the directory so that "the rename itself ... is durable"
  (`trust_store.rs:1210`). The first mutation of a uid makes that directory
  (`ensure_parent_dir`, 1280) and its parent is never synced: a power loss may take
  users/<uid>/ with the acknowledged file in it.
- An addition that finds its item in the file is acknowledged at once
  (`trust_store.rs:449`, 705), also when the rename that brought the item was never
  synced (a kill between the two, or a sync that failed).
- `broadcast` (`warn_consumer.rs:112`) means the notice to come before the next
  event. The handler may empty the inbox between the two `try_send` calls, and the
  event goes first. The count is not lost.
- `handle_set_profile` (`server.rs:1263`) counts every failed clear as a rule still
  in the kernel, also one that never fitted the map, and the second entry of a rule
  that is configured twice (`config.rs:64`, 71 have no check). Under strict such a
  rule counts as two.
- `trace_fork` (`bpf.c:545`) says that "a watched parent's children stay watched so
  the whole subtree's execs surface", and `trace_exit` (`bpf.c:589`) takes the exit
  of the leader for that of the process. A leader may exit before its threads
  (`pthread_exit` in `main`), and it does when another thread execs: the marks of the
  process go, and its threads, what they fork, and the new image run without them.
- The thread that execs takes the leader's id, and `trace_exit` deletes by the id a
  task has when it exits (`bpf.c:585`): the entry that `trace_fork` made for the
  thread's own id stays in `watch_pids`, and the next task with that number is
  watched, against "only the marked session subtree" of `check_execve`. A watch set
  on a leader that has exited already stays in the same way.
- The accumulator's comments say that a single signal stays `Warn`
  (`classifier.rs:130`, 323, 414). The verdict is that of the hit with the highest
  confidence, and the ONNX backend gives `Block` by itself above its own threshold:
  one opinion blocks, without `block_threshold`.
- `handle_classify` means every package to be looked up, "so a prepended benign
  package can't shadow a later malicious one" (`server.rs:918`). Only the first eight
  are, which `osv_probe_pkgs` accepts openly (1035); none is if the classifier or the
  overlay warned, though a later `Block` would be stricter; and a query that fails
  leaves its package unjudged.
- `diff_step` keeps the anchor of a drift through a failed probe (`atom_drift.rs:174`,
  "losing the audit trail"). `cron.rs:104` takes a snapshot that cannot be read or
  parsed for none (`.ok().flatten()`), after which the anchor is stamped anew, or
  cleared if the probe fails too.
- `walk_tarball_atoms` counts "the DECLARED (header) size of EVERY entry"
  (`extract.rs:44`). An entry whose `path()` errs is passed over before that
  (36-39), though its bytes are read all the same.
- `config.rs:248` says that without a model the daemon "falls back to Heuristic +
  warns". When `onnx` is named on the command line or in the file, `main.rs:827`
  refuses to start; only the default backend falls back.
- `main.rs:1110` says that `server::serve` returns on a signal. The handler sets a
  flag that only the refresh thread reads, and the accept is restarted.
- `lock_path_for_socket` and `remove_socket_if_safe`: for a socket path that is
  itself a link whose target does not exist yet, the lock's name is that of the
  link; a second daemon under the real name takes another lock. `main.rs:655` says
  that `bind` follows the link, which it does not.
- `write_atoms` removes its temporary file on every error but that of the rename
  (`extract.rs:415`); the name depends on the pid only, so later refreshes of the
  same process fail at `create_new`.
- `ebpf.rs:762` takes a live read of the command line for proof of identity. The
  worker may read the command line of before the exec, and may kill a process that
  has got the pid, or has exec'ed again, after the read.
- The owner check and the read of the mark in `handle_classify` (`server.rs:987`)
  are two steps; a recycled pid in between lets the answer show the mark of a
  process the caller does not own.

## 5. Proofs

Every module of section 2 has a module of proofs, which TLAPS checks. A theorem
holds for every value of the constants that satisfies the module's named
assumption: any number of pids, uids, threads, connections, items, sources and
processes, any caps, any bound on faults and steps. The assumptions say which
values are distinct, which sets are finite, which numbers are natural, and what
form the inputs have; beyond that:

- `ThreatMapAssumption`, `GuardServerAssumption`: the modes the code knows; channels
  and subscriber caps of at least one.
- `KindsAssumption` (trust store): atoms, url decisions and trust hashes are
  different things, as the three files are.
- `ProfileSwitchAssumption`: the configured lists are sequences, with or without
  duplicates.
- `ClassifyAssumption`: a command is what the detectors can report (`IsCommand`:
  spans are non-empty, the harmful probabilities a finite set of percentages,
  package tokens name packages); cache and TTL are not zero; no more packages are
  looked up than are parsed.
- `AtomFetchAssumption`: a list of distinct sources, a tarball for each revision (a
  sequence of entries, each with a path or none, a size and finitely many scalars; one
  without a path is not matched), natural caps, and
  pids other than the value for "none".
- `StartupAssumption`: command lines and files as the parsers deliver them.

Some theorems have a hypothesis of their own. Each one excludes a case in which the
code does not keep the promise.

| hypothesis | theorem | what it excludes |
|---|---|---|
| `Serial` | `KernelAgreesSerially` | two requests at a time (finding 1), warn mode and deletions that fail (section 4), a daemon whose object does not enforce, BPF maps too small for all pids |
| `SyncsHold` | `AcknowledgedAdditionsPersist` | a power loss after a failed directory sync, which `write_atomic` ignores: together they take back what was acknowledged |
| `NoLinks` | `StartupImplementsOneDaemon` | a socket path that is itself a link. Such a process computes another lock file while the socket is absent; if a second daemon binds before the first one's inspection, a live socket is removed |

**ThreatMapProofs**: `TypeCorrect`, `MarkAuthorisation`, `NoInheritance`,
`LiveMarksKept`, `KernelAgreesSerially`. The invariant `IInv` adds to the types what
each thread has established at each label (`Established`): past the owner check, a
non-root mark's `start` is a starttime that its caller owned *if* it still is the
pid's; past the second read it did own it. `MarksAuthorised` speaks only of the
committed entry, while the argument runs through three steps during which the pid
may be recycled. Starttimes only grow, so `IInv` also says that none a thread has
read is ahead of its pid's; `OwnersKnown` says that the present owner is in the
history, `EntryOK` that an entry names a marked process and, if a user set it, one
the user owned. For the agreement with the kernel `AgreeInv` says what is true in the
middle of a request: whatever level the maps have that the entry has not is being
overwritten or cleared (`NoneLeft`), whatever they lack is being written
(`NoneMissing`), and the one thread that may do so still has the entry it started
from (`Writing`). The last part is what
a second thread would break.

**GuardServerProofs**: `NoSlotLeaks`, `CapsHold`, `GuardServerTypeCorrect`,
`AckImpliesListed`, `EveryEventAccountedFor`. The caps are not inductive alone, since
the code tests counters and the caps speak of connections: `IInv` has both, and
`RejectedNotServed` (the connection that is turned away holds no handler). Lemma
`Moves` says what moving one connection does to the size of a set. For the streams
`StreamInv` says exactly who is listed, and that each inbox has tallies: appending a
message extends them by one, delivering the head subtracts the first from all, so the
sum is never computed.

**TrustStoreProofs**: `TrustStoreTypeCorrect`, `UrlsSayOneThing`, `TrustFileBounded`,
`AcknowledgedAdditionsPersist`, `SessionDecisionsKept`, `MemoryStaleOnlyBehind`.
`Shape` says of each thread that it holds the lock exactly from `acquire_write_lock`
to its response, that what it is about to modify is what is on disk, that what it
counts as saved is on disk, and that an addition past its rename is there and past its
sync cannot be undone. Four invariants rest on it: `StoreInv` (types),
`FilesInv` (both layers of the file system satisfy the rules of the files, so a power
loss leaves nothing else), `PromiseInv` (no request under way contradicts a promise;
what is promised is kept, and is durable or lent as long as the directory is) and
`MemoryInv`: what a load that was not overtaken has read so far is still what the
files say (`LoadShape`; a load under the lock is never overtaken, since only its
holder renames), and a layer that counts and does not lag is right unless a mutation
is between its rename and its reload (`Behind`). No fault is excluded: a mutation
that fails there is one of the two ways to lag.

**ProfileSwitchProofs**: `ProfileSwitchTypeCorrect`, `SwitchesFollowProfile`,
`ReportedCountsHonest`. The properties speak of the time between switches;
`SwitchInv` describes the deny maps in the middle of one by its position in the list:
the entries before it are settled, the others as the last switch left them (`Arming`,
`Clearing`), and the running count is compared with the settled entries. It counts
entries of the lists and not rules, so that one given twice is two on both sides; a
deletion that fails is one of an entry in force, or of one that names its key again.

**ExecGateProofs**: `ExecGateTypeCorrect`, `SubtreeNeverEscapes`,
`StrangersNeverWatched`. `TasksOK` (a task belongs to a process whose id is taken,
by a running leader or a zombie) is what makes the lookup of `trace_fork` by process
find the mark; `Covered` compares the maps with the history of marks task by task;
`EventsOK` bounds ring, queue and worker. Exit, exec and kill share one lemma about the
tasks that end and the ids that become free (`ReleaseOK`): these differ when a leader
ends early and when a thread takes its id, which is where an entry may be left behind.

**ClassifyProofs**: `ClassifyTypeCorrect`, `StrictestSignalWins`,
`CacheAndFanOutBounded`, `CachedAnswersFresh`, `VerdictsEarned`. `ThreadOK`
says that a thread's result is the worst it has consulted and among it, and that what
it owes is left in its walk, unless it will not walk at all; a query in
flight is at most a timeout old, and the contents of an entry at most a timeout older
than its date, which together give the bound on what the cache serves.
`VerdictsEarned` is about the arithmetic of the accumulator for every command
(`ClassifierIsRight`); `ClassifierInv` only carries the result to the thread. Its
argument: an order by starts exists, so the sort is what it should be (`OrderExists`,
`ByStartOrders`); along it, a group that is closed ends before every later span begins
(`GroupsLieApart`), so two groups split the spans into two sets that do not overlap,
each of which contains a least isolated one (`LeastIsolated`): two groups are two
behaviours (`GroupsAreBehaviours`). The combined confidence only grows with each hit
(`MissShrinks`, `ConfidenceGrows`), so one hit of the first tier keeps it above the
floor. Spans must be non-empty, as matches of the detectors are: an empty one that two
detectors report would open two groups.

**AtomFetchProofs**: `AtomFetchTypeCorrect`, `PinnedSourcesStayPinned`, `WalkExact`,
`PublicationIsWhole`, `DriftAnchorStays` (an action property, which exempts the one
tick that loses the anchor). `WalkExact` compares the
walk with a definition that looks at the tarball as a whole: after each entry the walk
has either refused, and then the sizes or the atoms so far exceed a cap that the whole
can only exceed further, or it has the sizes and atoms of exactly the entries so far.
`FetchInv` follows a
corpus through every place it passes: what a fetcher has gathered, the file and all
that a power loss may leave of it, the copies being read, the one in memory. The pins
a running fetcher holds bind every source that was never live (`Binding`), although
the file may have been edited since.

**StartupProofs**: `StartupImplementsOneDaemon`, `StartupServesAsAsked`. The refinement
of `SingleDaemon` needs `LockInv`: from the inspection of the socket on a process
holds the one lock that stands for it, and the socket is a process's exactly while it
serves; hence a socket that is removed is nobody's. `PolicyInv` collects what is known
of each process's policy after each step.

Only model-checked:

- the liveness properties `DeadPeersReleased`, `BadExecDies`, `EveryRequestAnswered`,
  `RefreshStops`, `LoadRecovers`, `AvailableAgain`: liveness under fairness is out of
  the prover's reach.

Recursion. What the walk of a tarball, the merging of spans and the combined
confidence compute is defined by recursive functions over `0..Len(s)`. The library's
induction theorems take an operator as a parameter, which the provers cannot
instantiate; the proofs use a form with a set instead (`InductiveSet`: a set
that contains 0 and the successor of each natural in it contains every natural), and establish first that a function satisfying the recursion exists
(`WalkDefined`, `Recursion`), since `CHOOSE` promises nothing otherwise.

## 6. Plan

1. Proofs: every safety property of a passing run is a theorem; further action
   properties are left.
2. `WriteLocks`: `acquire_write_lock` with its pruning, shown to implement a mutex
   per uid; the metrics registry.
3. The proxy: `SecurityGuard` with the trust cache (two proxies of one user persist
   it through one temporary name) and the warn subscriber (a stop that joins a
   thread blocked in a read), composed with the daemon; `Dispatch` and guardrail;
   `LineState`, `Subprocess`.
4. `LlmWorker` (late answers of cancelled requests, pipes that fill in both
   directions) and `LlmDialog`; `Suggest` (a result for a prefix typed past);
   `Screen`.

## 7. Not modelled

Matching, parsing and formatting (regular expressions, the atom automaton, JSON and
TOML text, key sequences, painting), inference in the ONNX library, attop, ttysnap
and the debug tools: sequential conversions without shared state, or tools beside
the system. In `ExecGate`: zombies of whole processes (a pid is free when the last
task of its process has exited), the AF_ALG watcher. In
`Classify` the three overlay scopes are read as one. In `Startup` a start that
fails for want of permissions is a `Fault`. The proxy and the metrics registry are
not modelled yet (section 6).
